----------------------------- MODULE CommandText -----------------------------
(***************************************************************************)
(* The text of commands: parse_tcp_command of tcp_command_parser.hpp, and  *)
(* the lines that record_set and record_del of persistence.cpp write for   *)
(* it to read again.                                                       *)
(*                                                                         *)
(* A text is a sequence of symbols: " ", "\n", the name of a command in    *)
(* whichever case, a numeral, or some other run of letters.                *)
(***************************************************************************)
EXTENDS Integers, SequencesExt

CONSTANTS
  Symbol,    \* what texts are made of
  Numeral,   \* Numeral[w]: the integer that the symbol w spells, where long long has it
  None       \* no argument

Text   == Seq(Symbol)
Spaces == {" ", "\n"}
Verbs  == {"SET", "GET", "DEL", "HELP", "PING", "STATS", "QUIT", "EXIT"}

ASSUME CommandTextOK ==
  /\ Spaces \cup Verbs \subseteq Symbol
  /\ Numeral \in [DOMAIN Numeral -> Int] /\ DOMAIN Numeral \subseteq Symbol \ Spaces
  /\ None \notin Int \cup Text

\* The pieces of a text between the symbols of a set, and those not empty.
Pieces(text, between) ==
  LET Read(r, w) == IF w \in between THEN [done |-> Append(r.done, r.piece), piece |-> <<>>]
                    ELSE [r EXCEPT !.piece = Append(@, w)]
      last == FoldLeft(Read, [done |-> <<>>, piece |-> <<>>], text)
  IN Append(last.done, last.piece)

Tokens(text) ==
  LET Take(words, piece) == IF piece = <<>> THEN words ELSE Append(words, piece)
  IN FoldLeft(Take, <<>>, Pieces(text, Spaces))
Lines(text)  == Pieces(text, {"\n"})

IsWord(text) == Tokens(text) = <<text>>

\* What stoll takes to its end, after blanks if any, and is not negative.
IsTtl(text) == /\ text # <<>> /\ ToSet(Front(text)) \subseteq Spaces
               /\ Last(text) \in DOMAIN Numeral /\ Numeral[Last(text)] >= 0
Ttl(text)   == Numeral[Last(text)]

Command(type, key, value, ttl) == [type |-> type, key |-> key, value |-> value, ttl |-> ttl]
Invalid == Command("invalid", None, None, None)

Parse(text) ==
  LET word == Tokens(text)
      n == Len(word)
      Is(verb) == word # <<>> /\ word[1] = <<verb>>
  IN CASE Is("SET") /\ n = 3 -> Command("set", word[2], word[3], None)
       [] Is("SET") /\ n = 4 /\ IsTtl(word[4]) ->
            Command("set", word[2], word[3], Ttl(word[4]))
       [] Is("GET") /\ n = 2 -> Command("get", word[2], None, None)
       [] Is("DEL") /\ n = 2 -> Command("del", word[2], None, None)
       [] Is("HELP") \/ (n = 1 /\ (Is("PING") \/ Is("STATS"))) ->
            Command("ask", None, None, None)
       [] Is("QUIT") \/ Is("EXIT") -> Command("quit", None, None, None)
       [] OTHER -> Invalid

Spelled(n) == <<CHOOSE w \in DOMAIN Numeral : Numeral[w] = n>>

\* record_set, record_del
Written(cmd) ==
  IF cmd.type = "del" THEN <<"DEL", " ">> \o cmd.key
  ELSE <<"SET", " ">> \o cmd.key \o <<" ">> \o cmd.value
         \o (IF cmd.ttl = None THEN <<>> ELSE <<" ">> \o Spelled(cmd.ttl))
=============================================================================
