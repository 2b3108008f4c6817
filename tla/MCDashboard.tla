----------------------------- MODULE MCDashboard -----------------------------
(***************************************************************************)
(* Dashboard for TLC: besides the page as it opens, with nothing in its    *)
(* fields, one key that can be cached and one that cannot.                 *)
(***************************************************************************)
EXTENDS Dashboard

Number == [w \in {"1"} |-> 1]
Alphabet == Spaces \cup Verbs \cup DOMAIN Number \cup {"a", "j", "k"}

Key  == <<"k">>
Room == {Key}

OneFor == [k \in Room |-> 1]
Single == <<1>>

Filling ==
  { [key |-> Key, value |-> <<"a">>, ttl |-> <<"1">>, cmd |-> <<"GET", " ", "k">>],
    [key |-> <<"j">>, value |-> <<"a">>, ttl |-> <<>>, cmd |-> <<"DEL", " ", "j">>] }
=============================================================================
