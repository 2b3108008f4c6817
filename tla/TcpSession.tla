------------------------------ MODULE TcpSession ------------------------------
(***************************************************************************)
(* The connections of cache_tcp_server.cpp: one thread per connection      *)
(* (handle_client) cuts the bytes it receives into lines, has the shared   *)
(* RedisCommandProcessor execute each of them and sends back its answer.   *)
(*                                                                         *)
(* A byte is a newline, a word of a command, or one that sanitize_line     *)
(* drops.  An answer is named by the count of executions that gave it.     *)
(* The two directions of a connection are blocking sockets that hold       *)
(* Window bytes each.                                                      *)
(***************************************************************************)
EXTENDS Integers, FiniteSets, SequencesExt

CONSTANTS
  Conns,
  NL,              \* '\n'
  Words, Noise,    \* bytes that sanitize_line keeps, and drops
  Quits,           \* the lines that say QUIT or EXIT
  Inputs,          \* Inputs[c]: what the client of c may have to say
  SignalKills,     \* a send to a client that is gone can raise SIGPIPE
  Chunk,           \* size of the array that recv fills
  Window

ASSUME ConstantsOK ==
  /\ NL \notin Words \cup Noise /\ Words \cap Noise = {}
  /\ Quits \subseteq Seq(Words) \ {<<>>}
  /\ \A c \in Conns : Inputs[c] \subseteq Seq(Words \cup Noise \cup {NL})
  /\ SignalKills \in BOOLEAN /\ Chunk \in Nat \ {0} /\ Window \in Nat \ {0}

VARIABLES
  input,          \* what the client of each connection is going to send
  sent, received, \* how much of it has left the client, and reached the handler
  peer,           \* the client: "open", "half" closed, or "gone"
  at,             \* where the handler is
  buffer,         \* its buffer
  out,            \* what it has still to send of its response
  quit,           \* should_quit
  back,           \* bytes on their way to the client
  got,            \* bytes the client has read
  up,             \* the server process lives
  \* auxiliary: the number of lines executed for all, and for each connection
  \* those lines with the answers they got
  served, executed

client  == <<input, sent, peer, got>>
handler == <<received, at, buffer, out, quit>>
shared  == <<served, executed>>
vars    == <<client, handler, back, up, shared>>

Quitting(line) == line \in Quits
Greeting       == <<0, NL>>
Reply(n)       == <<n, NL>>

\* sanitize_line
Kept(line) ==
  LET kept[n \in 0 .. Len(line)] ==
        IF n = 0 THEN <<>>
        ELSE IF line[n] \in Words THEN Append(kept[n - 1], line[n]) ELSE kept[n - 1]
  IN kept[Len(line)]

-----------------------------------------------------------------------------
(* Clients *)

ClientSend(c) ==
  /\ peer[c] = "open" /\ up
  /\ sent[c] < Len(input[c]) /\ sent[c] - received[c] < Window
  /\ sent' = [sent EXCEPT ![c] = @ + 1]
  /\ UNCHANGED <<input, peer, got, handler, back, up, shared>>

ClientRead(c) ==
  /\ peer[c] # "gone" /\ back[c] # <<>>
  /\ got' = [got EXCEPT ![c] = @ \o back[c]]
  /\ back' = [back EXCEPT ![c] = <<>>]
  /\ UNCHANGED <<input, sent, peer, handler, up, shared>>

\* Nothing more to say; the answers are still read.
ClientShutdown(c) ==
  /\ up /\ peer[c] = "open" /\ sent[c] = Len(input[c])
  /\ peer' = [peer EXCEPT ![c] = "half"]
  /\ UNCHANGED <<input, sent, got, handler, back, up, shared>>

ClientLeaves(c) ==
  /\ up /\ peer[c] # "gone"
  /\ peer' = [peer EXCEPT ![c] = "gone"]
  /\ back' = [back EXCEPT ![c] = <<>>]
  /\ UNCHANGED <<input, sent, got, handler, up, shared>>

\* A socket closed with unread bytes, or one bytes arrive at afterwards, resets
\* the connection: the client may lose what it has not read.
Reset(c) ==
  /\ up /\ at[c] = "closed" /\ peer[c] # "gone" /\ received[c] < sent[c]
  /\ peer' = [peer EXCEPT ![c] = "gone"]
  /\ back' = [back EXCEPT ![c] = <<>>]
  /\ UNCHANGED <<input, sent, got, handler, up, shared>>

-----------------------------------------------------------------------------
(* The handler of a connection *)

\* accept and the handler's thread; the greeting is sent like a response.
Accept(c) ==
  /\ up /\ at[c] = "none"
  /\ at' = [at EXCEPT ![c] = "send"]
  /\ peer' = [peer EXCEPT ![c] = "open"]
  /\ out' = [out EXCEPT ![c] = Greeting]
  /\ \E bytes \in Inputs[c] : input' = [input EXCEPT ![c] = bytes]
  /\ UNCHANGED <<sent, got, received, buffer, quit, back, up, shared>>

Smaller(m, n) == IF m < n THEN m ELSE n

\* What has arrived is taken, as much of it as the array holds; what is still
\* on its way makes the next chunk.
Recv(c) ==
  /\ up /\ at[c] = "recv" /\ received[c] < sent[c]
  /\ LET n == Smaller(Chunk, sent[c] - received[c]) IN
       /\ received' = [received EXCEPT ![c] = @ + n]
       /\ buffer' = [buffer EXCEPT ![c] =
                       @ \o SubSeq(input[c], received[c] + 1, received[c] + n)]
  /\ at' = [at EXCEPT ![c] = "lines"]
  /\ UNCHANGED <<client, out, quit, back, up, shared>>

\* Mutant: n <= 0 is not told from a chunk.
RecvNothingAgain(c) ==
  /\ up /\ at[c] = "recv"
  /\ peer[c] = "gone" \/ (peer[c] = "half" /\ received[c] = sent[c])
  /\ at' = [at EXCEPT ![c] = "lines"]
  /\ UNCHANGED <<client, received, buffer, out, quit, back, up, shared>>

\* recv returns 0 or -1; what a client that is gone had sent may be lost.
RecvNothing(c) ==
  /\ up /\ at[c] = "recv"
  /\ peer[c] = "gone" \/ (peer[c] = "half" /\ received[c] = sent[c])
  /\ at' = [at EXCEPT ![c] = "closed"]
  /\ UNCHANGED <<client, received, buffer, out, quit, back, up, shared>>

\* Where the first newline is; 0 when there is none.
Newline(bytes) == SelectInSeq(bytes, LAMBDA b : b = NL)

NoLine(c) ==
  /\ up /\ at[c] = "lines"
  /\ Newline(buffer[c]) = 0
  /\ at' = [at EXCEPT ![c] = "recv"]
  /\ UNCHANGED <<client, received, buffer, out, quit, back, up, shared>>

\* The line before the first newline is taken off the buffer.
TakeLine(c) ==
  LET end == Newline(buffer[c]) IN
  /\ end > 0
  /\ buffer' = [buffer EXCEPT ![c] = SubSeq(@, end + 1, Len(@))]

FirstLine(c) == Kept(SubSeq(buffer[c], 1, Newline(buffer[c]) - 1))

\* Mutant: break for continue.
BlankLineBreaks(c) ==
  /\ up /\ at[c] = "lines"
  /\ TakeLine(c) /\ FirstLine(c) = <<>>
  /\ at' = [at EXCEPT ![c] = "recv"]
  /\ UNCHANGED <<client, received, out, quit, back, up, shared>>

BlankLine(c) ==
  /\ up /\ at[c] = "lines"
  /\ TakeLine(c) /\ FirstLine(c) = <<>>
  /\ UNCHANGED <<client, received, at, out, quit, back, up, shared>>

\* execute_line: every line has its answer, an invalid one an ERR.
Execute(c) ==
  /\ up /\ at[c] = "lines"
  /\ TakeLine(c) /\ FirstLine(c) # <<>>
  /\ served' = served + 1
  /\ executed' = [executed EXCEPT ![c] =
                    Append(@, [line |-> FirstLine(c), answer |-> served + 1])]
  /\ out' = [out EXCEPT ![c] = Reply(served + 1)]
  /\ quit' = [quit EXCEPT ![c] = Quitting(FirstLine(c))]
  /\ at' = [at EXCEPT ![c] = "send"]
  /\ UNCHANGED <<client, received, back, up>>

\* Mutant: one call of send, whatever it takes.
SendOnce(c) ==
  /\ up /\ at[c] = "send" /\ peer[c] # "gone"
  /\ \E n \in 1 .. Smaller(Len(out[c]), Window - Len(back[c])) :
       back' = [back EXCEPT ![c] = @ \o SubSeq(out[c], 1, n)]
  /\ out' = [out EXCEPT ![c] = <<>>]
  /\ UNCHANGED <<client, received, at, buffer, quit, up, shared>>

\* A send of send_all takes a first part of what is left.
Send(c) ==
  /\ up /\ at[c] = "send" /\ peer[c] # "gone"
  /\ \E n \in 1 .. Smaller(Len(out[c]), Window - Len(back[c])) :
       /\ back' = [back EXCEPT ![c] = @ \o SubSeq(out[c], 1, n)]
       /\ out' = [out EXCEPT ![c] = SubSeq(@, n + 1, Len(@))]
  /\ UNCHANGED <<client, received, at, buffer, quit, up, shared>>

\* The client is gone: send returns -1, or it takes what no one will read.
SendInVain(c) ==
  /\ up /\ at[c] = "send" /\ peer[c] = "gone" /\ out[c] # <<>>
  /\ \/ out' = [out EXCEPT ![c] = <<>>] /\ UNCHANGED at
     \/ at' = [at EXCEPT ![c] = "closed"] /\ UNCHANGED out
  /\ UNCHANGED <<client, received, buffer, quit, back, up, shared>>

\* ... or it raises SIGPIPE, which nobody handles: the process ends.
Signal(c) ==
  /\ SignalKills
  /\ up /\ at[c] = "send" /\ peer[c] = "gone" /\ out[c] # <<>>
  /\ up' = FALSE
  /\ UNCHANGED <<client, handler, back, shared>>

\* Mutant: if for while.
AfterLineRecv(c) == IF quit[c] THEN "closed" ELSE "recv"

AfterLine(c) == IF quit[c] THEN "closed" ELSE "lines"

SendDone(c) ==
  /\ up /\ at[c] = "send" /\ out[c] = <<>>
  /\ at' = [at EXCEPT ![c] = AfterLine(c)]
  /\ UNCHANGED <<client, received, buffer, out, quit, back, up, shared>>

-----------------------------------------------------------------------------
Init ==
  /\ input = [c \in Conns |-> <<>>]
  /\ sent = [c \in Conns |-> 0] /\ received = [c \in Conns |-> 0]
  /\ peer = [c \in Conns |-> "gone"] /\ at = [c \in Conns |-> "none"]
  /\ buffer = [c \in Conns |-> <<>>] /\ out = [c \in Conns |-> <<>>]
  /\ quit = [c \in Conns |-> FALSE]
  /\ back = [c \in Conns |-> <<>>] /\ got = [c \in Conns |-> <<>>]
  /\ up = TRUE
  /\ served = 0 /\ executed = [c \in Conns |-> <<>>]

Handle(c) ==
  \/ Recv(c) \/ RecvNothing(c)
  \/ NoLine(c) \/ BlankLine(c) \/ Execute(c)
  \/ Send(c) \/ SendInVain(c) \/ SendDone(c)

Next ==
  \E c \in Conns :
    \/ Accept(c) \/ Handle(c) \/ Signal(c)
    \/ ClientSend(c) \/ ClientRead(c) \/ ClientShutdown(c) \/ ClientLeaves(c) \/ Reset(c)

Spec == Init /\ [][Next]_vars

\* Handlers are scheduled, and a client reads its answers while it stays.
FairSpec == Spec /\ \A c \in Conns : WF_vars(Handle(c)) /\ WF_vars(ClientRead(c))

-----------------------------------------------------------------------------
(* Properties *)

Byte == Words \cup Noise \cup {NL}

\* Every variable has its type; a handler that waits for bytes, or is through,
\* owes no answer to a client that is there.
TypeOK ==
  /\ input \in [Conns -> Seq(Byte)]
  /\ sent \in [Conns -> Nat] /\ received \in [Conns -> Nat]
  /\ peer \in [Conns -> {"open", "half", "gone"}]
  /\ at \in [Conns -> {"none", "recv", "lines", "send", "closed"}]
  /\ buffer \in [Conns -> Seq(Byte)] /\ quit \in [Conns -> BOOLEAN]
  /\ out \in [Conns -> Seq(Nat \cup {NL})]
  /\ back \in [Conns -> Seq(Nat \cup {NL})] /\ got \in [Conns -> Seq(Nat \cup {NL})]
  /\ up \in BOOLEAN /\ served \in Nat
  /\ executed \in [Conns -> Seq([line : Seq(Words), answer : Nat])]
  /\ \A c \in Conns :
       /\ received[c] <= sent[c] /\ sent[c] <= Len(input[c])
       /\ Len(back[c]) <= Window
       /\ out[c] # <<>> => at[c] = "send" \/ peer[c] = "gone"
       /\ at[c] = "recv" => ~quit[c] /\ NL \notin ToSet(buffer[c])

\* The reference: a reader of single bytes, that keeps the line it is in and
\* the commands so far, and whether there was a QUIT.
Fresh == [line |-> <<>>, lines |-> <<>>, over |-> FALSE]

Read(r, b) ==
  IF r.over \/ b \in Noise THEN r
  ELSE IF b # NL THEN [r EXCEPT !.line = Append(@, b)]
  ELSE IF r.line = <<>> THEN r
  ELSE [line |-> <<>>, lines |-> Append(r.lines, r.line), over |-> r.line \in Quits]

Reading(bytes) ==
  LET read[n \in 0 .. Len(bytes)] ==
        IF n = 0 THEN Fresh ELSE Read(read[n - 1], bytes[n])
  IN read

\* The commands in a sequence of bytes, to the first QUIT.
Commands(bytes) == Reading(bytes)[Len(bytes)].lines

LinesOf(c) == [i \in DOMAIN executed[c] |-> executed[c][i].line]

\* The lines executed for a client are those it sent, in their order and none
\* after QUIT, however its bytes fell into chunks; and a handler that waits
\* for more bytes has executed every line that has ended (handle_client).
LinesAreFramed ==
  \A c \in Conns :
    LET arrived == Commands(SubSeq(input[c], 1, received[c])) IN
    /\ IsPrefix(LinesOf(c), arrived)
    /\ at[c] = "recv" => LinesOf(c) = arrived

Answers(c) ==
  Greeting \o FlattenSeq([i \in DOMAIN executed[c] |-> Reply(executed[c][i].answer)])

\* A client reads the greeting and then the answers to its own lines in their
\* order, with no byte missing, doubled or of another connection, however
\* send_all had to cut them.
AnswersInOrder ==
  \A c \in Conns : at[c] # "none" =>
    /\ IsPrefix(got[c] \o back[c], Answers(c))
    /\ peer[c] # "gone" => got[c] \o back[c] \o out[c] = Answers(c)

\* A client that stays and reads has every command answered that it sent, a
\* QUIT and what came before it in the same chunk included, as long as nobody
\* else's departure has ended the process (handle_client).
EveryLineIsAnswered ==
  \A c \in Conns :
    <>[](Len(got[c]) = Len(Greeting) + 2 * Len(Commands(SubSeq(input[c], 1, sent[c])))
           \/ peer[c] = "gone" \/ ~up)

\* The handler of a client that has left, or has no more to say, ends: threads
\* do not pile up (the breaks of handle_client).
HandlersEnd ==
  \A c \in Conns : at[c] # "none" /\ peer[c] # "open" ~> at[c] = "closed" \/ ~up
=============================================================================
