# Low-Level-Memory-Cache: models, checks and proofs

This directory is the verification development of the in-memory cache in
`include/mini_redis` and `src`: TLA+ modules translated from the C++ source, the
TLC configurations that check them on small instances, and TLAPS proofs for
every value of the constants. Paths below are relative to the repository.

## 1. The system

| Part | State it keeps | Operations | What is hard |
| --- | --- | --- | --- |
| `ShardedCache` (`sharded_cache.hpp`) | per shard: `shared_mutex`, hash map of entries, recency list, capacity; process wide: the atomic counters, the stop flag | `set`, `get`, `del`, `cleanup_expired`, `active_key_count`, `snapshot_items`, `stats`, constructor, destructor | look-up under a shared lock and again under the exclusive one with an old `now`; list and map kept in step through stored iterators; counters changed in several steps; a sweep and scans that go shard by shard; the reaper thread against the destructor |
| `get_or_compute` (`sharded_cache.hpp`) | per shard: the map of `InFlight` objects (promise and shared future) | look up, join or own a flight, load, store, publish, erase | two look-ups with a gap, the window between publishing and erasing, loaders that throw or call the cache back, waiters that must not be abandoned or wait in a ring |
| Append-only file (`persistence.cpp`) | queue with mutex and condition variable, batch, file stream, stop and rewrite flags | `record_set`, `record_del`, `aof_loop`, `request_aof_rewrite`, destructor | wake-ups that can be lost, drain at shutdown, crash in a batch, truncation |
| Snapshot file (`persistence.cpp`) | temporary and published file | `snapshot_loop`, `write_snapshot_file` | crash between remove and rename, unchecked write errors |
| Recovery (`persistence.cpp`) | the two files | `recover_from_disk`, `replay_file` | order of snapshot and log, deadlines restarted, lines in another order than the cache saw, a last line that was cut and is read as a command, the next line glued to it, evictions while replaying |
| `RedisCommandProcessor` (`command_processor.hpp`) | the cache and the persistence manager | `set`, `get`, `del`, `stats`, `execute_line` | the cache is changed first and the log second, without a lock over both |
| Command parser (`tcp_command_parser.hpp`) | none | `parse_tcp_command` | lines the log writes that do not parse back |
| TCP server (`cache_tcp_server.cpp`) | per connection: receive buffer | `handle_client`, `send_all`, `sanitize_line`, accept loop | framing across chunks, QUIT with lines left, failed sends |
| HTTP routes (`cache_http.cpp`) | none | `/set`, `/get`, `/del`, `/cmd`, `/stats`, `/health` | values and keys that are no words, refused sets, times to live that overflow |
| Dashboard page (the script in `cache_http.cpp`) | fields, history, last figures, badge | five buttons, clear, refresh | answers in any order, fields edited meanwhile, overlapping refreshes, a server that goes away |
| Command line client (`cache_cli.cpp`) | none | its loop | the same files as the server, one after the other |
| Demo, benchmarks, deployment | none of their own | | not modelled |

Client threads (a detached thread per TCP connection, the HTTP library's pool)
call the processor, which calls the cache and then the persistence manager.
The cache's reaper, the log worker and the snapshot worker run beside them.

Correctness, part by part:

- **Shards**: list and map agree, locks exclude, capacity is kept and the right
  entry is evicted, nothing expires early, expired entries go, counters and byte
  totals add up, every call is explained by one moment at which it took effect.
- **Collapsing**: one loader per key at a time, no waiter abandoned, no ring of
  waiters, no load without a reason, no result of a finished flight handed to a
  later call.
- **Log**: order, completeness, bounded damage, drain at shutdown, no line left in
  memory for good.
- **Restart**: log and cache agree, and every key is found as the disk had it.
- **Text**: what was answered OK is what the file says, read back as it was meant.
- **Sessions**: lines framed whatever the chunks, answers in order and complete,
  handlers that end.
- **Page**: rows name what was asked, and the figures settle on the server's.

## 2. Modules and how they correspond to the code

| Module | Models | Abstract specification |
| --- | --- | --- |
| `ShardedCache`, `ShardedCacheProperties` | `set`, `get`, `del`, `active_key_count`, `snapshot_items`, the reaper, the destructor | `ExpiringMap` |
| `RequestCollapsing` | `get_or_compute` over the map `ExpiringMap` promises | |
| `AppendOnlyFile` | queue, condition variable, worker, stream, file, shutdown, rewrite, several lives | `DurableLog`, `TornLog` |
| `Persistence` | the processor's writes, the snapshot worker, recovery; the append-only file is an instance of `TornLog` | |
| `TcpSession` | the accept loop and `handle_client` of every connection | |
| `CommandText` | `parse_tcp_command`, `record_set` and `record_del` as functions on texts | |
| `FrontEnds` | the HTTP routes and the command line over the processor, the file as text, restarts | |
| `Dashboard` | the page's script, on top of `FrontEnds` | |
| `ShardedCacheProofs` | proofs about `ShardedCache`: types, locks and lists, and what its steps do to entries and scans | |
| `ShardedCacheSafetyProofs` | the rest of `ShardedCacheProperties`, on top of it, and that `ShardedCache` implements `ExpiringMap` | |
| `RequestCollapsingProofs` | proofs about `RequestCollapsing` | |
| `AppendOnlyFileProofs` | proofs about `AppendOnlyFile`, with its refinement of `DurableLog` | |
| `PersistenceProofs` | proofs about `Persistence` | |
| `TcpSessionProofs` | proofs about `TcpSession` | |
| `FrontEndsProofs` | proofs about `CommandText`, `FrontEnds` and `Dashboard` | |
| `InductionLemmas` | lemmas on counting, recursive functions, sums and folds that the proofs share | |
| `MCShardedCache`, `MCRequestCollapsing`, `MCPersistence`, `MCTcpSession`, `MCFrontEnds`, `MCDashboard` | constants and symmetry of the runs | |

The components compose through their abstract specifications: `ShardedCache` is
shown to implement `ExpiringMap`, and `RequestCollapsing` and `Persistence` use a
map that does what `ExpiringMap` says; `AppendOnlyFile` is shown to implement
`DurableLog` (which lines are safe) and `TornLog` (what a reader finds in the file),
and `Persistence` uses `TornLog` for its file. `Dashboard` runs its requests through
the processor of `FrontEnds`.

**ShardedCache.** `map` is the union of the shards' hash maps, `lru[s]` the list of
shard `s` with the stored iterator `lru_pos` as a place in it, `writer[s]` the
exclusive holder of the shard's `shared_mutex`. A section under a shared lock, or
one under the exclusive lock that has no loop, is one action enabled while no
one holds the lock exclusively. `set_impl` takes the lock and goes on in four
more steps (write, charge, evict once per entry over the capacity, unlock),
because the lock-free counters and the other shards can be seen in between; the
reaper takes one lock after the other with the `now` it read first. `get` reads
`now`, looks under the shared lock, and looks again under the exclusive one.
Time advances by ticks finer than a millisecond, so the cut to whole
milliseconds in `snapshot_items` is visible.

**RequestCollapsing.** One action for each step that others can see: the two
look-ups, joining or owning, the loader's return or throw, the store, the
promise, the erase. Values are named by the flight that loaded them. `Lose` and
`SetByOther` are the other clients, evictions and expiry. `Needs[k]` are the keys
the loader of `k` may ask the cache for; `CallInside` makes that call, on a thread
name of its own because the caller's stack waits for it (`inner`). Keys that need
themselves, through others or not, make calls that wait for ever: the code has
nothing against it, and the properties are of keys in layers (`Layered`).

**AppendOnlyFile.** A line is the number of the call that recorded it. `queue`,
`batch` and `stream` are the places a line goes through; `file` has the ended
lines, `tail` what a torn write left. `w` is the worker's place; between the look
at the queue and falling asleep it holds the mutex, and `Stop` does not, so the
notification can be lost. `Crash` may come anywhere, `Exit` is the end of the
destructor, `Start` the next life on the same file. `Read` is the file as `std::getline`
will take it, one entry for each ended line and one more for an unended part
(`Stub`); a line that is not as it was recorded is 0 there.

**Persistence.** `Apply` is the cache step of `set` and `del`, `Record` the step of
the persistence manager that follows without a lock over both. A snapshot looks
at one key after another, removes the old file, renames the new one, and may
fail at each place; the scan has one `now`, and an entry with less than a
millisecond left may be in it or not (`Leftover`). `Die` is a crash or the end of an
orderly exit. A crash may tear a line (`File!Tear`), and then what is left of it is
read as the next start finds it: `Parts` are what `parse_tcp_command` can make of a
first part of a line (nothing, a set of a shorter value or another time to live,
a del of a key whose name begins the name, `Begins`), `Gluings` what it can make of
such a part with the next line written after it (`HardenGlued`), `Rests` what a
glued line leaves that is torn again. The next life replays the snapshot's lines,
in any order, and every line of the file as it is read, before it serves. A set
of a new key may evict any other, if there are as many as the smallest shard
takes (`Room`); which keys share a shard is left open. `expected` keeps, from the
moment of death, the line by which each key is to be found: the one applied to
it last if all its lines were on disk, else the last one that is read as one
about it, or the snapshot's where the file has none. `spoilt` are the keys that a
damaged line is about, or is read as being about, and that no whole line
follows: of these the properties say only what the damaged file says.

**TcpSession.** Both directions of a connection are sockets of bounded size, and
what the client sends arrives byte by byte. A `recv` takes what has arrived, up to
its buffer; a `send` takes any first part of what is left. A client half-closes,
leaves, or is reset, at any time. On POSIX a `send` to a client that is gone can raise `SIGPIPE`, which no code handles
(`SignalKills`); elsewhere it returns `-1`. The processor's answer is named by the
execution that gave it, so that a wrong or misplaced answer shows.

**CommandText and FrontEnds.** A text is a sequence of symbols (`Symbol`): blanks, names of
commands, numerals, other words. `Parse` and `Written` are inverse to each other
exactly for words, and `Start` reads the file back line by line through `Parse`. One request
is one step (`Execute`): the cache step, the record, hits and misses. `Asks` and
`Status` are a route's way in and out; a set of a shard without capacity is
refused and recorded all the same, as in the code. A shard's recency list is kept
as the set of keys that each entry has ahead of it: a set or a find puts a key
before the others of its shard (`Touched`), an entry with as many ahead as the
shard takes is evicted (`Evicted`), and what leaves the list is ahead of nobody
(`Dropped`). Time points have a width
(`Top`), and sums and products wrap. `accepted` remembers what was answered OK, and
which other keys of the shard were set or found since; a value is `Standing` while
its time is not over and these are fewer than the shard takes.
The file loses nothing here, and a snapshot, all of whose keys have lines in
the file that are replayed after it, adds nothing: both are the subject of
`Persistence`.

**Dashboard.** A click, or the timer, sends a request (`Sent`) with what the fields
hold; the server executes it (`Serve`) or is not there (`Lose`); the function goes on
after its `await` (`SettleButton`, `SettleStats`). `Details` reads the fields again, as
the script does. Every answer to an operation but PING starts a refresh.

## 3. What the runs check

Deadlock checking is off in every run: clients may stop calling, processes may
stay down, and counters are bounded, so the models may stop where the system
merely has nothing more to do. What must go on is stated as a liveness property.

| Run | Question | Instance |
| --- | --- | --- |
| `cache` | Do locks, lists, capacity, byte total, counters and expiry hold, and does the cache implement `ExpiringMap`? | 4 keys on 3 shards, two of one entry and one without room, 2 threads, reaper, 3 calls, 1 tick |
| `lru` | Is the entry used longest ago evicted? Do scans list every entry left alone? | 4 keys, three of them on a shard of 2 and one on a shard of 1, 2 threads, 4 calls, half-millisecond clock |
| `live` | Do calls return, do expired entries go, does the destructor return? | 3 keys on 2 shards of one entry each, 2 threads, reaper, 2 calls |
| `collapse` | Is one loader run at a time, is nobody abandoned or in a ring, is no run without reason, do calls return? | 3 threads, 2 keys (one never storable, whose loader or the other's calls back), 3 calls |
| `aof` | Is the log complete, hardly damaged, drained, a `DurableLog`, and read back as a `TornLog` is? Do lines leave memory, does the destructor return? | 5 lines, 4 lives, 3 crashes or failed writes, 1 rewrite |
| `restart` | Does the log follow the cache, is every key found as the disk had it, whatever lines were torn or glued? | 2 keys with one client each, the name of one beginning that of the other, shards of one entry, 3 operations, 3 lives, 1 tick, snapshots throughout |
| `restart_shared` | The same when two clients write one key | violated, see section 6 |
| `restart_ttl` | Is an entry served past the deadline it was given? | violated, see section 6 |
| `session` | Are lines framed whatever the chunks, does every client read its own answers in order and whole, is every command answered, does every handler end? | 2 connections, chunks and sockets of 3 bytes, signals |
| `frontends` | Is what was answered OK served again until its time is over or its shard was full of later uses, and nothing else? | 3 out of 30 requests to the routes and 8 typed lines, 4 keys for a shard of 2, any restarts, 5-bit time points |
| `frontends_text` | The same of any value a route accepts | violated, see section 6 |
| `dashboard` | Do rows name their request, do the figures settle? | one button beside the refreshes, 2 requests under way, 3 fillings of the fields, any deaths and restarts, 1 tick |

Why the bounds are enough. Two threads and the reaper give every pair of
sections that can meet on a shard, and a third thread adds only a third
contender for a lock; three calls let an entry be replaced between the two
look-ups of a `get`. Two shards of which one holds two of three keys give
evictions next to a shard that is untouched. Four calls on a shard of two fill
it, use an entry, and evict. Three collapsing threads give an owner, a waiter and
a late caller, or an owner, the call inside its loader, and a third that shares
either; the third call may come after a flight has landed. Five lines and
four lives put whole lines, a torn one and what is glued to it into one file.
Three lives let a crash fall into a recovery, and a line torn in one life be
glued in the next and read in the third. In `restart` three operations put a sound
line behind a glued one. One key is set for good, the other set for a tick and
deleted; each has a value of its own, so that another can only come from a
damaged line. One key's name begins the other's, so that a torn delete can name a key
that nobody deleted; and with two keys and shards of one entry a set evicts the
other key or does not, in life and in a replay. Chunks of up to
three bytes put two lines, and a line and a part of one, into one chunk. Three
requests of `frontends` are two writes of a key, or a write and a refused one, and
a look after a restart, or sets of three keys for two places; its inputs have each route asked well and amiss in each
way it tests for, and times to live that do and do not fit. Values with a
newline are left out of them. One
button of `dashboard` already overlaps with refreshes, edits and restarts; what
several buttons do to each other is between them in the server, and the cut of
the history at its limit needs more rows than the run makes.
Symmetry (threads, keys of a shard) is used only in `cache` and `lru`, which have no
liveness properties.

Fairness.

- `live`: strong fairness of each client's step and of the reaper's. Strong,
  because a step waits for a lock that others take and give back;
  `std::shared_mutex` promises no order, and this is the assumption that nobody
  is passed over for ever. Sections under a shared lock are single actions, so a
  writer kept out by an unbroken succession of readers is outside the model. No
  client has to call. The reaper sleeps 200 ms and wakes, which the model takes
  as a step that comes in the end.
- `collapse`: weak fairness of each thread, and loaders end (they may throw).
- `aof`: weak fairness of the worker, the time limit of `wait_for` included.
- `session`: weak fairness of each handler, and of a client reading while it
  stays. A client that sends without reading can make the handler wait in `send`
  for as long as it likes; the code has no time limit.
- `dashboard`: weak fairness of the timer, of a server that runs answering some
  request, and of the script going on after some answer; `FiguresSettle` supposes
  that the server stays up from some moment on. No user has to click.

Mutants. Each property is paired in `PROJECT.json` with a change of one
definition, as a plausible mistake in the code would make it, under which the
property fails; the changed forms stand beside the originals, marked `Mutant`.

## 4. What is proved

The theorems hold for all values of the constants that satisfy the modules'
assumptions: `ConstantsOK`, `FrontEndsOK` and `DashboardOK` (types, and that `None` is
no key, value or thread), `NoneIsNoRecord` and `NoneIsNoFigures` (no entry, line,
call or set of figures is `None`), and `CommandTextOK` (blanks and the names of the
commands are symbols, a numeral spells an integer and is no blank, `None` is no
text and no number). TLC evaluates them on every run of their modules. The
prover cannot tell that a string literal is in `STRING`, which is why the symbols
of texts are a constant. Few of the properties are inductive as they stand; what had to be added is
the argument.

| Theorem | States |
| --- | --- |
| `ShardedCacheProofs!InvariantHolds` | `[](TypeOK /\ WriterIsInside /\ ListMatchesMap)` |
| `ShardedCacheSafetyProofs!CapacityHolds` | `[]CacheWithinMaxKeys` |
| `ShardedCacheSafetyProofs!CountersHold` | `[]CountersAgree` |
| `ShardedCacheSafetyProofs!ScansAreComplete` | `[]ScanMissesNothingSteady` |
| `ShardedCacheSafetyProofs!ExpiryIsNeverEarly` | `NoEarlyExpiry`, an action property |
| `ShardedCacheSafetyProofs!EvictionIsLRU` | `OnlyTheOldestIsEvicted`, an action property |
| `ShardedCacheSafetyProofs!MemoryHolds` | `[](MemoryIsAccounted /\ memory >= 0)` |
| `ShardedCacheSafetyProofs!CacheIsExpiringMap` | `ImplementsExpiringMap` |
| `RequestCollapsingProofs!CollapsingIsSound` | `[](TypeOK /\ SingleFlight /\ WaiterHasOwner /\ NoLandedFlightIsShared /\ LoadsAreAccounted)` |
| `RequestCollapsingProofs!NoCallWaitsInVain` | `[]NobodyWaitsInVain` |
| `AppendOnlyFileProofs!LogIsSound` | `[](TypeOK /\ LogIsComplete /\ DamageIsBounded /\ ShutdownDrains)` |
| `AppendOnlyFileProofs!OneLog` | `ImplementsDurableLog` |
| `PersistenceProofs!TypesHold` | `[]TypeOK` |
| `PersistenceProofs!SnapshotsHold` | `[]SnapshotIsMap`, which no run checks |
| `PersistenceProofs!LogFollows` | `[]LogFollowsCache`, where each key has one writer |
| `PersistenceProofs!RestartsRestore` | `[]OnDiskIsRestored`, where each key has one writer |
| `TcpSessionProofs!LinesHold` | `[](TypeOK /\ LinesAreFramed)` |
| `TcpSessionProofs!AnswersHold` | `[]AnswersInOrder` |
| `FrontEndsProofs!RecordedIsReadAgain` | `Lines(Written(cmd)) = <<Written(cmd)>> /\ Parse(Written(cmd)) = cmd`, for a set or del of words |
| `FrontEndsProofs!TypesOfFrontEnds` | `[]TypeOK` |
| `FrontEndsProofs!AcceptedIsServed` | `[]ServesWhatWasAccepted` |
| `FrontEndsProofs!TypesOfPage` | `PageSpec => []PageTypeOK` |
| `FrontEndsProofs!RowsNameRequests` | `PageSpec => []RowsNameTheirRequest` |
| `FrontEndsProofs!PageServesAccepted` | `PageSpec => []ServesWhatWasAccepted` |

**Locks and lists** (`InvariantHolds`). The invariant `IInv` is inductive only as the
conjunction. An eviction takes `Last(lru[s])` and erases that key's entry: there
is one because the list names the keys of the map. That a touch leaves the list
free of doubles needs the place of the key to be unique, and that a set inserts
only a key that is not listed needs the list to match the map. That a lock is
given back by its holder needs places and types of all threads. The proof goes
from lists (`UnlinkFacts`, `PushFacts`, `TouchedFacts`) to helpers (`FinishFacts`,
`EraseFacts`) to a lemma per group of actions.

**The rest of the shards.** `Safe` is kept on top of `IInv`: a shard is over its
capacity only while the set that overfilled it is at work (`FullAtMost`), each list
runs from the last use to the first (`UsedInOrder`), a thread's reading of the clock
is past (`TimesArePast`), a scan has from each shard it is past no more than the
shard holds (`CollectedFits`). Capacity of the whole is the sum of the shards'
shares: entry `i` of shard `s` is put into slot `i * NumShards + s`, no two entries
share a slot (`SlotsDiffer`), and every slot the constructor gave out is below
`max_keys` (`SlotsFit`). Early expiry is excluded because the deadline is compared
with a time that is past; eviction because the end of an ordered list was used
first. For the byte total every step is shown to move the counter as it moves
the charge of one key (`MemorySteps`), which moves the sum by as much
(`SumChanges`); a sum of charges is not negative, so the counter never wraps.

**Refinement of `ExpiringMap`.** Each step of the cache is a step of the map or
leaves it alone, one lemma for each (`WriteIsPut`, `HitIsHit`, `MissIsMiss`, `DelIsRemove`,
`EvictIsEvict`, `ReapIsExpire`, `RefusedIsRefuse`, `CallIsAsk`, `ReturnIsTake`,
`UnseenWork`). A `set` takes effect when it writes, a `get` at its decision. That a
client never meets a shard over its capacity is from the locks, that an expired
answer is due is from `Safe`.

**Collapsing.** The invariant adds who can know a flight: an unmade one nobody, a
registered one the callers of one key only, and it has not landed. An owner sets
its promise before it erases its registration, so whoever joins under the lock
joins a flight that is still to be set, or is set; that is why `WaiterHasOwner`
survives a join. Loads are counted against failures, losses and the one loader
or entry there is for the key; that only one thread loads a key, from
`SingleFlight`, is what keeps the count from being excused twice. That there is no
ring (`NoRing`): a call made inside a loader is on a key of a lower layer
(`InnerIsNeeded`), a waiter's owner is on the waiter's own key, and owners do not
wait on promises; so among any calls one on the lowest layer, and there one that
is no waiter if there is such, waits for none of them. The hypothesis `Layered` is in the property: the
run has keys that satisfy it, and a loader that needs its own key does wait for
ever.

**The log.** `NoLineTwice` is needed for "lost means gone", `DamageIsPaidFor` (a torn
tail is a broken line to be, paid for by the incident that tore it) for the bound
on the damage, `DrainsOnce` for the drain. Step lemmas say once what each action
does to the log as a whole (`RecordStep`, `MoveInMemory`, `LandStep`, `DropStep`, `DieStep`,
`TruncateStep`); invariants and the refinement of `DurableLog` both rest on them.

**Restarts.** `latest[k]`, the line last applied to `k`, is what the cache reflects
(`MapReflectsLatest`) and what snapshot and lines read so far say (`LatestIsRead`), so
a recovery that has read everything holds what was expected (`ExpectedIsLatest`).
That is also so of a file with damaged lines, which are applied as they are read:
a tear or a gluing changes one line of the file (`TornFacts`, `GlueFacts`), and only
the keys that it is about, before or after, become `spoilt` (`DamagedLines`); they
are sound again with the next line recorded, and all keys are when a file has
been replayed. An entry that `latest` says was set may be missing because it
expired or because it is among the `evicted` (`PutReflects`). That a snapshot is a
map (`SnapshotIsMap`: one set for a key, none whose time is over) is a part of the
invariant that stands by itself, for any writers.
`OneWriterEach` is needed in one place, `PendingIsLatest`: a client between its change of
the cache and its record is the last to have changed that key. It is a
hypothesis on who writes what, as `restart` has it, and no fact of the code:
`restart_shared` shows both properties' failing without it (section 6).

**Sessions.** `LinesAreFramed` compares the handler, which works on lines in a buffer,
with a reader of single bytes that has none (`Reading`). `Framed` ties them: the
buffer is what came after the last line taken, and the reader stopped there is
at the start of a line with the same commands. A chunk only adds to the buffer
(`MoreIsFramed`); taking a line moves the reader over it, and it has then kept what
`sanitize_line` keeps (`LineIsFramed`, `LineRead`). `AnswersInOrder`: what was read, is on
its way and is yet to be sent make up the answers (`OrderOfParts`), whichever first
part of it a `send` takes (`SendKeeps`).

**Text.** `Pieces` reads a text symbol by symbol. A piece ends at a symbol of the
set and nowhere else (`PiecesEnd`, `PiecesGoOn`), so a text put together of two parts
and a blank has the pieces of both (`PiecesSplit`), and its tokens are those of the
parts (`TokensSplit`). `TokensOfSet` gives the tokens of a written line, hence what
`Parse` makes of it (`RecordedIsReadAgain`); a value with blanks may be read as
another value, or not at all, but as no other key's (`SetIsReadOfItsKey`), which is
what keeps one bad value from touching the keys beside it.

**Served after a restart.** A cache that is gone is restored from the file, so the
invariant `ServerInv` is about the file: each record is one line (`LogIsLines`), and
the last line about a key says what was accepted for it, or is a deletion where
nothing is (`LogSays`). A replay leaves of each key what the last line about it
says, or nothing if the lines after it set as many other keys as the shard takes
(`Leaves`, `LastLineDecides`). What the last line of a key has after it (`After`) is
among what was set or found since the key was accepted, and so is what is ahead of
it in the list (`StoreFollows`): reads only add to `since`, and a list made without
them puts no more ahead of a key. An eviction needs as many keys ahead as the
shard takes (`Crowded`), and of a standing key there are fewer (`FewDoNotCrowd`), so
neither a set nor a replay evicts it. With this a start (`StartKeepsInv`) makes
`StoreFollows` and `StandingIsStored` true again. The other half is deadlines. A start counts the
whole time to live anew, so what is stored expires no earlier than it is due,
and `StandingIsStored` can only say "no less long"; that the new deadline is no
earlier needs that no due time is later than the clock and the time to live
together (`DueIsCounted`), which holds because the clock does not run back. `Fits` keeps a deadline from wrapping (`DeadlineFacts`). A set
without capacity is recorded and refused again by each replay.

**The page.** `PageInv` adds that a request under way agrees with the fields unless it
is marked as edited, that an answer has its status, and figures if it was asked
for them (`CallsSay`), and that each row in the table names its request (`Rows`). The
server's part is kept by `ExecuteKeepsInv`, whatever the page asks.

**Induction.** `InductionLemmas` has what several proofs need of natural numbers,
sums and folds. Induction is had from the well-foundedness of a relation on a set that is
given as a value (`Counting`, `CountingTo`, `LeastExists`), so no lemma takes an operator as
its parameter; that recursive functions over `Nat` (`FlattenSeq`, `Kept`, `Reading`,
`SumFunction`) have the values their equations say is proved from that
(`RecursionExists`, `SumFacts`). `FoldLeft` of the community modules is a recursion over
the subsets of a sequence's places; `FoldsExist` gives that recursion its
function, and `FoldIs` says that its value is reached place by place.

Only model-checked:

- liveness and everything under fairness, and what would need `ENABLED`: every
  property of `live`, `EveryCallReturns` of `collapse`, `RecordedIsWritten` and
  `DestructorReturns` of `aof`, `EveryLineIsAnswered` and `HandlersEnd` of `session`,
  `FiguresSettle` of `dashboard`;
- `ImplementsTornLog` of `aof`;
- that the findings of section 6 are violations.

## 5. What is not modelled

- A power cut: there is no `fsync`, so what the file has may be lost; the models
  let a process crash, and take the operating system to keep what it was given.
- Allocation failures, a client's own call of `cleanup_expired`, and that `stats`
  loads its counters one after the other: each figure is right for its own moment,
  and no document says that they are of one.
- In `Persistence`: a stream that fails, a file that does not open and a truncation
  on request, which `AppendOnlyFile` has; keys and values that are no single word,
  a set that is refused, and which entry is evicted, which `FrontEnds` has;
  values and times to live of a glued line that no client would give.
- In `FrontEnds`: lines that were torn, and snapshots, which `Persistence` has.
- In recovery: starts with different capacities, unchecked errors of the
  snapshot's stream, the interval settings, a process with persistence switched
  off.
- In sessions: the start of the process, refused connections, the wording of
  answers, a value with a newline in it.
- The HTTP library (threads, parsing, connection handling), JSON escaping, the
  page's markup and output areas, arguments of the programs, the demo, the
  benchmarks and the deployment scripts.

## 6. Findings

**Two writers of one key can be logged in the other order**
(`restart_shared`; `command_processor.hpp:114`). The cache is changed first and
the line handed to the log second, with nothing held in between. Client 1
sets `k` to `v1` in the cache, client 2 sets it to `v2`, then client 2 records and
client 1 records: the cache says `v2`, the log says `v1`, and after a restart with
everything flushed `v1` is served. `Deploy_Readme.md:478-481` and
`deploy/README.md:90` say that a value remains after a restart. With one writer per key the
property holds (`restart`).

**A restart gives entries their whole time to live again** (`restart_ttl`;
`persistence.cpp:119`). The log has the time to live and not the deadline, and the
whole log is replayed. `README.md:150` promises "bounded staleness for cached
items".

**A value that is no single word does not survive a restart** (`frontends_text`;
`persistence.cpp:67`). The file separates fields by blanks and does not quote.
`POST /set` accepts an empty value or one with blanks, serves it, and answers OK; after
a restart its line is passed over, or, if the last of two words is a number, read
as the first word with that time to live; a key with blanks can even be read
back as another key. `Deploy_Readme.md:478-481` sets no limit on values. For words,
all that TCP and the command line can say, the property holds (`frontends`).

Described, and no finding because no document says otherwise: a time to live
that cannot be added to the clock (in milliseconds, beyond some 9.2e12) wraps
and is answered OK while the entry expires at once; the first part of a line
that a crash leaves at the end of the file is read like any line
(`persistence.cpp:112`), so that what is left of `DEL key10` can delete `key1`, and the
next life's first line is glued to it and read as another, or passed over; a set refused for lack of
capacity is answered as failed and still written to the file; the history row
of a request names the fields as they are when the answer comes; an older
answer of overlapping refreshes stays on the page until the next; a loader
that needs its own key waits for ever; on POSIX one
client that leaves before its answer can end the process (`SIGPIPE`); a worker that
cannot open its file leaves the queue to grow; a rewrite request truncates the
log without a snapshot, though nothing in the repository makes one; a write
that fails is never noticed.

## 7. Plan

1. (done) `ShardedCache` with `ExpiringMap`, `RequestCollapsing` with loaders that call
   back, `AppendOnlyFile` with `DurableLog`, `Persistence`, `TcpSession`, `CommandText`,
   `FrontEnds`, `Dashboard`; the inductive invariants of section 4.
2. (done) Proofs over the invariant of `ShardedCacheProofs`: capacity, counters,
   scans, expiry, order of eviction, byte total, and the refinement of `ExpiringMap`.
3. (done) Proofs about the log and its refinement of `DurableLog`, about restarts for
   one writer per key, about rings of waiters, and about sessions.
4. (done) What a restart reads of a file with torn and glued lines (`TornLog`), and
   what eviction takes from what was accepted, in the models and their proofs.
5. (done) Proofs about texts, the replay of the file, `FrontEnds` and `Dashboard`.

Every invariant and every action property that a run checks is now a theorem,
and so is the refinement of `DurableLog`; that of `TornLog` is model-checked and yet
to be proved. What is left besides is beyond the prover (liveness) or not
modelled (section 5).
