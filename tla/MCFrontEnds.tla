----------------------------- MODULE MCFrontEnds -----------------------------
(***************************************************************************)
(* FrontEnds for TLC.  Time points are five bits wide and a millisecond is *)
(* two ticks: a time to live of one fits, one of eight does not.           *)
(***************************************************************************)
EXTENDS FrontEnds

Number == [w \in {"1", "8", "-1"} |-> CASE w = "1" -> 1 [] w = "8" -> 8 [] OTHER -> -1]

Alphabet == Spaces \cup Verbs \cup DOMAIN Number \cup {"a", "b", "j", "k"}

Full == <<"j">>   \* a key in a shard without capacity
Key  == <<"k">>
Pair == <<"k", " ", "a">>   \* a key that is no word

Other == <<"b">>
Third == <<"a">>

\* One shard with room for two.
Room   == {Key, Pair, Other, Third}
OneFor == [k \in Room |-> 1]
Two    == <<2>>

Words    == {<<"a">>, <<"1">>}
Phrases  == {<<"a", " ", "a">>, <<"a", " ", "1">>, <<>>}

Ask(route, key, value, ttl, body) ==
  [route |-> route, key |-> key, value |-> value, ttl |-> ttl, body |-> body]

\* Each route well asked, and asked amiss in each way it looks for.
Requests ==
  {Ask("/set", Key, value, ttl, <<>>) : value \in Words \cup Phrases, ttl \in {None, <<"1">>, <<"8">>}}
  \cup {Ask("/set", Full, <<"a">>, None, <<>>), Ask("/set", Pair, <<"1">>, None, <<>>),
        Ask("/set", None, <<"a">>, None, <<>>),
        Ask("/set", Other, <<"a">>, None, <<>>), Ask("/set", Third, <<"a">>, None, <<>>),
        Ask("/set", Key, <<"a">>, <<"-1">>, <<>>), Ask("/set", Key, <<"a">>, <<"a">>, <<>>)}
  \cup {Ask(route, key, None, None, <<>>) : route \in {"/get", "/del"}, key \in {Key, None}}
  \cup {Ask("/cmd", None, None, None, body) :
          body \in {<<"SET", "\n", "k", " ", "b">>, <<"DEL">>, <<"SET", " ", "j", " ", "a">>}}
  \cup {Ask("/stats", None, None, None, <<>>)}

Typed == { <<"SET", " ", "k", " ", "b", " ", "1">>, <<" ", "DEL", " ", " ", "k">>,
           <<"SET", " ", "k", " ", "a", " ", "-1">>, <<"SET", " ", "k", " ", "a", "a">>,
           <<"GET", " ", "k">>, <<>>, <<"HELP", " ", "a">>, <<"QUIT">> }
=============================================================================
