------------------------------- MODULE TornLog -------------------------------
(***************************************************************************)
(* The append-only file as replay_file will read it.  Module DurableLog    *)
(* says which lines are on disk; this one says what stands there, since a  *)
(* file may end in the first part of a line.  That part is read at the     *)
(* next start like any line, as a command or as none; and what is written  *)
(* next is glued to it, so that the two are read as one line that nobody   *)
(* wrote.                                                                  *)
(***************************************************************************)
EXTENDS Naturals, Sequences

CONSTANTS
  Line,     \* what a line may be read as
  Skipped   \* a line that is passed over

VARIABLES
  log,    \* what the lines are read as, those in memory after those on disk
  hard,   \* how many of them are on disk
  cut     \* the last of those has no end

vars == <<log, hard, cut>>

Reading == Line \cup {Skipped}

OnFile == SubSeq(log, 1, hard)

\* A first part of one more line is on disk, and read as r with what it is
\* glued to.
Torn(r) == IF cut THEN [OnFile EXCEPT ![hard] = r] ELSE Append(OnFile, r)

Record(line) ==
  /\ log' = Append(log, line)
  /\ UNCHANGED <<hard, cut>>

Harden ==
  /\ ~cut
  /\ \E n \in hard + 1 .. Len(log) : hard' = n
  /\ UNCHANGED <<log, cut>>

\* The first line in memory is glued to the part that ends the file.
Glue(r) ==
  /\ cut /\ hard < Len(log)
  /\ log' = [i \in 1 .. Len(log) - 1 |->
               IF i < hard THEN log[i] ELSE IF i = hard THEN r ELSE log[i + 1]]
  /\ cut' = FALSE
  /\ UNCHANGED hard

\* The stream fails with n lines in it, or in the middle of the first.
Drop ==
  \E n \in hard + 1 .. Len(log) :
    \/ /\ log' = OnFile \o SubSeq(log, n + 1, Len(log))
       /\ UNCHANGED <<hard, cut>>
    \/ \E r \in Reading :
         /\ log' = Torn(r) \o SubSeq(log, n + 1, Len(log))
         /\ hard' = Len(Torn(r)) /\ cut' = TRUE

Truncate ==
  /\ log' = SubSeq(log, hard + 1, Len(log))
  /\ hard' = 0 /\ cut' = FALSE

\* A crash between two lines, and in the middle of one.
Crash ==
  /\ log' = OnFile
  /\ UNCHANGED <<hard, cut>>

Tear(r) ==
  /\ hard < Len(log)
  /\ log' = Torn(r)
  /\ hard' = Len(Torn(r)) /\ cut' = TRUE

Init == log = <<>> /\ hard = 0 /\ cut = FALSE

Next ==
  \/ \E line \in Line : Record(line)
  \/ \E r \in Reading : Glue(r) \/ Tear(r)
  \/ Harden \/ Drop \/ Truncate \/ Crash

Spec == Init /\ [][Next]_vars
=============================================================================
