------------------------------ MODULE FrontEnds ------------------------------
(***************************************************************************)
(* The programs around RedisCommandProcessor: the routes of cache_http.cpp *)
(* and the loop of cache_cli.cpp, which run one after the other on the     *)
(* same files.  A request is one step here: how calls interleave is the    *)
(* subject of ShardedCache and Persistence.  The subject of this module is *)
(* what a request asks for, what the file keeps of it as text, and the     *)
(* arithmetic of deadlines.                                                *)
(***************************************************************************)
EXTENDS CommandText

CONSTANTS
  Storable,      \* the keys whose shard has capacity
  Shard,         \* Shard[k]: the shard of k
  Capacity,      \* Capacity[h]: the entries that shard h takes
  HttpRequests,  \* what clients of the routes may ask
  CliLines,      \* what may be typed
  TicksPerMs,    \* clock ticks in a millisecond
  Top,           \* the largest time point: they are -Top - 1 .. Top
  MaxTime,       \* bound: last tick of the clock
  MaxRequests    \* bound: requests

Request == [route : {"/set", "/get", "/del", "/cmd", "/stats", "/health"},
            key : Text \cup {None}, value : Text \cup {None},
            ttl : Text \cup {None}, body : Text]

ASSUME FrontEndsOK ==
  /\ HttpRequests \subseteq Request /\ CliLines \subseteq Text
  /\ Shard \in [Storable -> DOMAIN Capacity]
  /\ Capacity \in [DOMAIN Capacity -> Nat \ {0}]
  /\ TicksPerMs \in Nat \ {0} /\ MaxRequests \in Nat
  /\ Top \in Nat /\ MaxTime \in 0 .. Top

VARIABLES
  clock,
  program,    \* the process: "http", "cli" or "none"
  store,      \* its cache: a function from keys to entries
  tally,      \* hits_ and misses_
  log,        \* the append-only file: the lines as they were written
  \* auxiliary: requests made; for each key the set that was answered OK last
  \* and not deleted, and the keys of its shard set or found since; whether all
  \* keys recorded were words, and values lines
  asked, accepted, plain

server == <<clock, program, store, tally, log, asked, accepted, plain>>

\* Addition and conversion of 64-bit counts, as the build does them.
Wrapped(n) == ((n + Top + 1) % (2 * (Top + 1))) - (Top + 1)

\* Mutant: the time to live is taken in ticks.
DeadlineUnscaled(ttl) == IF ttl = None THEN None ELSE Wrapped(clock + ttl)

Deadline(ttl) == IF ttl = None THEN None ELSE Wrapped(clock + Wrapped(ttl * TicksPerMs))
Expired(e)    == e.expiry # None /\ clock >= e.expiry
Served(k)     == k \in DOMAIN store /\ ~Expired(store[k])

Put(f, k, x)  == [j \in DOMAIN f \cup {k} |-> IF j = k THEN x ELSE f[j]]
Without(f, k) == Restrict(f, DOMAIN f \ {k})

\* The list of a shard: an entry has ahead of it the keys used after it.
\* touch_lru_locked, and push_front for a new entry
Touched(s, k) ==
  [j \in DOMAIN s |->
     [s[j] EXCEPT !.ahead = IF j = k THEN {}
                            ELSE IF Shard[j] = Shard[k] THEN @ \cup {k} ELSE @]]

\* erase_entry_locked
Dropped(s, D) == [j \in DOMAIN s \ D |-> [s[j] EXCEPT !.ahead = @ \ D]]

\* Mutant: a shard that is full is taken for one that is over its capacity.
EvictedEarly(s) ==
  Dropped(s, {j \in DOMAIN s : Cardinality(s[j].ahead) + 1 >= Capacity[Shard[j]]})

\* evict_if_needed_locked: the last in the list goes when there are too many.
Evicted(s) == Dropped(s, {j \in DOMAIN s : Cardinality(s[j].ahead) >= Capacity[Shard[j]]})

\* Key k is set or found, which the other keys of its shard have since then.
Noted(a, k) ==
  [j \in DOMAIN a |->
     [a[j] EXCEPT !.since = IF j # k /\ Shard[j] = Shard[k] THEN @ \cup {k} ELSE @]]

-----------------------------------------------------------------------------
(* The processor *)

Writes  == {"set", "del"}
Refused(cmd) == cmd.type = "set" /\ cmd.key \notin Storable

Entered(s, cmd) ==
  Put(s, cmd.key, [value |-> cmd.value, expiry |-> Deadline(cmd.ttl), ahead |-> {}])

\* Mutant: a shard without capacity takes entries.
AppliedAnyway(s, cmd) ==
  CASE cmd.type = "del" -> Dropped(s, {cmd.key})
    [] cmd.type = "set" /\ Refused(cmd) -> Entered(s, cmd)
    [] cmd.type = "set" /\ ~Refused(cmd) -> Evicted(Touched(Entered(s, cmd), cmd.key))
    [] OTHER -> s

\* cache_.set and cache_.del
Applied(s, cmd) ==
  CASE cmd.type = "del" -> Dropped(s, {cmd.key})
    [] cmd.type = "set" /\ ~Refused(cmd) -> Evicted(Touched(Entered(s, cmd), cmd.key))
    [] OTHER -> s

\* set, get, del and execute_parsed; a set that was refused is recorded too.
Execute(cmd) ==
  LET k == cmd.key
      found == cmd.type = "get" /\ Served(k)
      stale == cmd.type = "get" /\ ~Served(k)
      due == IF cmd.ttl = None THEN None ELSE clock + cmd.ttl * TicksPerMs
  IN
  /\ store' = CASE found -> Touched(store, k)
                [] stale -> Dropped(store, {k})
                [] OTHER -> Applied(store, cmd)
  /\ tally' = CASE found -> [tally EXCEPT !.hits = @ + 1]
                [] stale -> [tally EXCEPT !.misses = @ + 1]
                [] OTHER -> tally
  /\ log' = IF cmd.type \in Writes THEN Append(log, Written(cmd)) ELSE log
  /\ accepted' = CASE cmd.type = "del" -> Without(accepted, k)
                   [] cmd.type = "set" /\ ~Refused(cmd) ->
                        Put(Noted(accepted, k), k,
                            [value |-> cmd.value, ttl |-> cmd.ttl, due |-> due, since |-> {}])
                   [] found -> Noted(accepted, k)
                   [] OTHER -> accepted
  /\ plain' = (plain /\ (cmd.type \in Writes => IsWord(k))
                     /\ (cmd.type = "set" => Lines(cmd.value) = <<cmd.value>>))
  /\ UNCHANGED <<clock, program>>

-----------------------------------------------------------------------------
(* The routes *)

\* What a route asks of the processor.  A ttl_ms of /set is parsed before
\* anything is set; /cmd hands over its whole body as one line.
Asks(req) ==
  CASE req.route = "/set" /\ None \notin {req.key, req.value}
         /\ (req.ttl = None \/ (req.ttl # None /\ IsTtl(req.ttl))) ->
         Command("set", req.key, req.value, IF req.ttl = None THEN None ELSE Ttl(req.ttl))
    [] req.route = "/get" /\ req.key # None -> Command("get", req.key, None, None)
    [] req.route = "/del" /\ req.key # None -> Command("del", req.key, None, None)
    [] req.route = "/cmd" -> Parse(req.body)
    [] req.route \in {"/stats", "/health"} -> Command("ask", None, None, None)
    [] OTHER -> Invalid

Status(req) ==
  LET cmd == Asks(req) IN
  CASE cmd = Invalid -> 400
    [] Refused(cmd) -> IF req.route = "/set" THEN 500 ELSE 400
    [] req.route = "/get" /\ ~Served(req.key) -> 404
    [] OTHER -> 200

\* What /stats tells of the cache.
Figures == [hits |-> tally.hits, misses |-> tally.misses,
            keys |-> Cardinality({k \in DOMAIN store : Served(k)})]

Http(req) ==
  /\ program = "http"
  /\ asked < MaxRequests /\ asked' = asked + 1
  /\ Execute(Asks(req))

-----------------------------------------------------------------------------
(* The command line, and the life of a process *)

\* The loop ends on QUIT, and the destructors put the file on disk.
Cli(line) ==
  /\ program = "cli"
  /\ asked < MaxRequests /\ asked' = asked + 1
  /\ IF Parse(line).type = "quit"
       THEN /\ program' = "none" /\ store' = <<>>
            /\ UNCHANGED <<clock, tally, log, accepted, plain>>
       ELSE Execute(Parse(line))

\* The end of the input, or of the process once its lines are flushed.
Die ==
  /\ program # "none"
  /\ program' = "none" /\ store' = <<>>
  /\ UNCHANGED <<clock, tally, log, asked, accepted, plain>>

\* replay_file: a line that is no SET or DEL, a comment or an empty one among
\* them, is passed over.
Replayed(s, line) ==
  IF Parse(line).type \in Writes THEN Applied(s, Parse(line)) ELSE s

Start ==
  /\ program = "none"
  /\ program' \in {"http", "cli"}
  /\ store' = FoldLeft(Replayed, <<>>,
                       FlattenSeq([i \in DOMAIN log |-> Lines(log[i])]))
  /\ tally' = [hits |-> 0, misses |-> 0]
  /\ UNCHANGED <<clock, log, asked, accepted, plain>>

Reap(k) ==
  /\ k \in DOMAIN store /\ Expired(store[k])
  /\ store' = Dropped(store, {k})
  /\ UNCHANGED <<clock, program, tally, log, asked, accepted, plain>>

Tick ==
  /\ clock < MaxTime
  /\ clock' = clock + 1
  /\ UNCHANGED <<program, store, tally, log, asked, accepted, plain>>

Init ==
  /\ clock = 0 /\ program = "none" /\ store = <<>> /\ log = <<>>
  /\ tally = [hits |-> 0, misses |-> 0]
  /\ asked = 0 /\ accepted = <<>> /\ plain = TRUE

Next ==
  \/ \E req \in HttpRequests : Http(req)
  \/ \E line \in CliLines : Cli(line)
  \/ \E k \in DOMAIN store : Reap(k)
  \/ Die \/ Start \/ Tick

Spec == Init /\ [][Next]_server

-----------------------------------------------------------------------------
(* Properties *)

\* Every variable has its type: only keys with room are cached, deadlines are
\* time points, an entry has ahead of it what its shard has, and what is recorded
\* is text.
TypeOK ==
  /\ clock \in 0 .. MaxTime /\ program \in {"http", "cli", "none"}
  /\ DOMAIN store \subseteq Storable
  /\ \A k \in DOMAIN store : /\ store[k].value \in Text
                             /\ store[k].expiry \in (-Top - 1 .. Top) \cup {None}
                             /\ store[k].ahead \subseteq {j \in DOMAIN store \ {k} : Shard[j] = Shard[k]}
  /\ program = "none" => store = <<>>
  /\ tally \in [hits : Nat, misses : Nat]
  /\ log \in Seq(Text) /\ asked \in 0 .. MaxRequests
  /\ DOMAIN accepted \subseteq Storable
  /\ \A k \in DOMAIN accepted : accepted[k].since \subseteq Storable
  /\ plain \in BOOLEAN

\* Whether the deadline of a set can be counted, now and after a restart.
Fits(ttl) == ttl = None \/ ttl * TicksPerMs + MaxTime <= Top

\* Key k was answered OK, its time is not over, and fewer other keys than its
\* shard has room for have been set there, or read, since.
Standing(k) ==
  LET a == accepted[k] IN
  /\ k \in DOMAIN accepted /\ Fits(a.ttl) /\ (a.due = None \/ clock < a.due)
  /\ Cardinality(a.since) < Capacity[Shard[k]]

\* Whoever was told OK finds that value until its time to live is over, or as
\* many other keys of its shard as that has room for have been used, after any
\* number of restarts, through whichever program: a replay makes the lists anew
\* from the sets, without the reads, and evicts none of these.  And nothing else
\* is found.  Provided keys and values are single words, which is all that TCP and the
\* command line can say, and the time to live can be added to the clock (Status,
\* record_set, parse_tcp_command, replay_file, set_impl, get,
\* evict_if_needed_locked).
ServesWhatWasAccepted ==
  program # "none" /\ plain =>
    /\ \A k \in DOMAIN accepted :
         Standing(k) /\ IsWord(accepted[k].value) =>
           Served(k) /\ store[k].value = accepted[k].value
    /\ \A k \in DOMAIN store :
         Served(k) => /\ k \in DOMAIN accepted
                      /\ IsWord(accepted[k].value) => store[k].value = accepted[k].value

\* The same of every value that a route accepts: what Deploy_Readme.md says of
\* data that "survives".
AnyValueSurvives ==
  program # "none" =>
    \A k \in DOMAIN accepted :
      Standing(k) => Served(k) /\ store[k].value = accepted[k].value
=============================================================================
