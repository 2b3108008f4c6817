------------------------------ MODULE Dashboard ------------------------------
(***************************************************************************)
(* The page that cache_http.cpp serves: its script sends requests with     *)
(* fetch and goes on when the answer is there.  Several requests are under *)
(* way at a time; the server takes them, and their answers arrive, in any  *)
(* order, and meanwhile the user may edit the fields.                      *)
(***************************************************************************)
EXTENDS FrontEnds

CONSTANTS
  Forms,         \* what the fields may hold: key, value, ttl and cmd
  Slots,         \* bound: requests under way at a time
  HistoryLimit   \* rows of the table of last operations

ASSUME DashboardOK ==
  /\ Forms \subseteq [key : Text, value : Text, ttl : Text, cmd : Text]
  /\ HistoryLimit \in Nat \ {0}

VARIABLES
  form,      \* the fields
  calls,     \* calls[s]: a request under way, or None
  history,   \* the rows, the newest first
  shown,     \* the figures on the page, or None
  badge      \* "checking" until the page is open, then "up" or "down"

page == <<form, calls, history, shown, badge>>
vars == <<server, page>>

Buttons == {"SET", "GET", "DEL", "CMD", "PING"}
Route == [op \in Buttons \cup {"STATS"} |->
            CASE op = "SET" -> "/set" [] op = "GET" -> "/get" [] op = "DEL" -> "/del"
              [] op = "CMD" -> "/cmd" [] op = "PING" -> "/health" [] OTHER -> "/stats"]

\* The request of an operation, from what the fields hold; an empty ttl is
\* left out.
Filled(op) ==
  LET Is(ops, x) == IF op \in ops THEN x ELSE None
  IN [route |-> Route[op],
      key   |-> Is({"SET", "GET", "DEL"}, form.key),
      value |-> Is({"SET"}, form.value),
      ttl   |-> IF form.ttl = <<>> THEN None ELSE Is({"SET"}, form.ttl),
      body  |-> IF op = "CMD" THEN form.cmd ELSE <<>>]

\* A request about to be sent.  Auxiliary: whether the fields its row will
\* show were edited since.
Sent(op) == [op |-> op, req |-> Filled(op), edited |-> FALSE,
             stage |-> "sent", status |-> None, figures |-> None]

\* Mutant: the row of a command shows the field as well.
DetailsOfForm(op, req) ==
  CASE op = "SET" -> <<form.key, form.ttl>>
    [] op \in {"GET", "DEL"} -> <<form.key>>
    [] op = "CMD" -> <<form.cmd>>
    [] OTHER -> <<>>

\* What the row of a request shows of it: the fields as they are when the row
\* is made, except that runCmd keeps the command it sent.
Details(op, req) ==
  CASE op = "SET" -> <<form.key, form.ttl>>
    [] op \in {"GET", "DEL"} -> <<form.key>>
    [] op = "CMD" -> <<req.body>>
    [] OTHER -> <<>>

-----------------------------------------------------------------------------
(* The user, and the clock of the page *)

Idle(s) == calls[s] = None

\* The page is loaded from "/" and asks for the figures.
Open(s) ==
  /\ badge = "checking" /\ program = "http"
  /\ \A t \in Slots : Idle(t)
  /\ calls' = [calls EXCEPT ![s] = Sent("STATS")]
  /\ UNCHANGED <<server, form, history, shown, badge>>

Opened == badge # "checking" \/ \E s \in Slots : ~Idle(s)

Click(s, op) ==
  /\ Opened /\ Idle(s)
  /\ asked < MaxRequests /\ asked' = asked + 1
  /\ calls' = [calls EXCEPT ![s] = Sent(op)]
  /\ UNCHANGED <<clock, program, store, tally, log, accepted, plain,
                 form, history, shown, badge>>

Edit(f) ==
  /\ Opened /\ f # form
  /\ form' = f
  /\ calls' = [s \in Slots |-> IF ~Idle(s) /\ calls[s].op \in {"SET", "GET", "DEL"}
                              THEN [calls[s] EXCEPT !.edited = TRUE] ELSE calls[s]]
  /\ UNCHANGED <<server, history, shown, badge>>

ClearHistory ==
  /\ history # <<>> /\ history' = <<>>
  /\ UNCHANGED <<server, form, calls, shown, badge>>

\* Mutant: the figures are asked for only after an operation.
NoRefresh(s) == FALSE /\ UNCHANGED vars

\* setInterval, whether or not an answer is outstanding.
Refresh(s) ==
  /\ Opened /\ Idle(s)
  /\ calls' = [calls EXCEPT ![s] = Sent("STATS")]
  /\ UNCHANGED <<server, form, history, shown, badge>>

-----------------------------------------------------------------------------
(* Requests and answers *)

Serve(s) ==
  /\ program = "http" /\ ~Idle(s) /\ calls[s].stage = "sent"
  /\ LET c == calls[s] IN
     /\ Execute(Asks(c.req))
     /\ calls' = [calls EXCEPT ![s] =
                    [c EXCEPT !.stage = "answered", !.status = Status(c.req),
                              !.figures = IF c.op = "STATS" THEN Figures ELSE None]]
  /\ UNCHANGED <<asked, form, history, shown, badge>>

\* There is no server: the request, or the answer on its way, fails.
Lose(s) ==
  /\ program # "http" /\ ~Idle(s) /\ calls[s].stage # "lost"
  /\ calls' = [calls EXCEPT ![s].stage = "lost"]
  /\ UNCHANGED <<server, form, history, shown, badge>>

\* addHistory.  Auxiliary: the request, where the row is about it and nothing
\* was edited.
Row(c) ==
  [action |-> c.op, ok |-> c.stage = "answered" /\ c.status = 200,
   details |-> IF c.stage = "lost" THEN None ELSE Details(c.op, c.req),
   request |-> IF c.stage = "lost" \/ c.edited THEN None ELSE c.req]

\* The rest of setValue, getValue, delValue, runCmd and ping.
SettleButton(s) ==
  LET c == calls[s]
      rows == <<Row(c)>> \o history
  IN
  /\ ~Idle(s) /\ c.stage # "sent" /\ c.op \in Buttons
  /\ history' = SubSeq(rows, 1, IF Len(rows) > HistoryLimit THEN HistoryLimit ELSE Len(rows))
  /\ calls' = [calls EXCEPT ![s] =
                 IF c.stage = "lost" \/ c.op = "PING" THEN None ELSE Sent("STATS")]
  /\ UNCHANGED <<server, form, shown, badge>>

\* Mutant: the answer is not looked at.
SettleStatsUnseen(s) ==
  /\ ~Idle(s) /\ calls[s].stage # "sent" /\ calls[s].op = "STATS"
  /\ badge' = "up" /\ shown' = calls[s].figures
  /\ calls' = [calls EXCEPT ![s] = None]
  /\ UNCHANGED <<server, form, history>>

\* The rest of refreshStats: after a failure the last figures stay.
SettleStats(s) ==
  LET c == calls[s] IN
  /\ ~Idle(s) /\ c.stage # "sent" /\ c.op = "STATS"
  /\ IF c.stage = "lost" THEN badge' = "down" /\ UNCHANGED shown
     ELSE badge' = "up" /\ shown' = c.figures
  /\ calls' = [calls EXCEPT ![s] = None]
  /\ UNCHANGED <<server, form, history>>

-----------------------------------------------------------------------------
Blank == [key |-> <<>>, value |-> <<>>, ttl |-> <<>>, cmd |-> <<>>]

PageInit ==
  /\ Init
  /\ form = Blank
  /\ calls = [s \in Slots |-> None]
  /\ history = <<>> /\ shown = None /\ badge = "checking"

\* The life of the server, as FrontEnds has it.
Server ==
  /\ \/ Start /\ program' = "http"
     \/ Die \/ Tick
     \/ \E k \in DOMAIN store : Reap(k)
  /\ UNCHANGED page

PageNext ==
  \/ Server \/ ClearHistory
  \/ \E f \in Forms \cup {Blank} : Edit(f)
  \/ \E s \in Slots :
       \/ Open(s) \/ Refresh(s) \/ Serve(s) \/ Lose(s) \/ SettleButton(s) \/ SettleStats(s)
       \/ \E op \in Buttons : Click(s, op)

PageSpec == PageInit /\ [][PageNext]_vars

\* The browser fires its timer and delivers answers and failures, the server
\* that runs answers: neither waits for anything else.
PageFairSpec ==
  /\ PageSpec
  /\ WF_vars(\E s \in Slots : Refresh(s))
  /\ WF_vars(\E s \in Slots : Serve(s))
  /\ WF_vars(\E s \in Slots : SettleButton(s))
  /\ WF_vars(\E s \in Slots : SettleStats(s))

-----------------------------------------------------------------------------
(* Properties *)

Call == [op : Buttons \cup {"STATS"}, req : Request, edited : BOOLEAN,
         stage : {"sent", "answered", "lost"}, status : {200, 400, 404, 500, None},
         figures : [hits : Nat, misses : Nat, keys : Nat] \cup {None}]

\* No figures are nothing.
ASSUME NoneIsNoFigures == None \notin [hits : Nat, misses : Nat, keys : Nat]

\* Every variable has its type, the table is cut to its limit, and figures are
\* shown once the badge has been up.
PageTypeOK ==
  /\ TypeOK
  /\ form.key \in Text /\ calls \in [Slots -> Call \cup {None}]
  /\ \A s \in Slots : ~Idle(s) /\ calls[s].stage = "answered" => calls[s].status # None
  /\ Len(history) <= HistoryLimit
  /\ badge \in {"checking", "up", "down"} /\ (badge = "up" => shown # None)

\* A row names the request it is about, unless the user edited the fields while
\* the answer was under way; of a command, always (setValue, getValue,
\* delValue, runCmd, which build the row after the await).
RowsNameTheirRequest ==
  \A i \in DOMAIN history :
    LET row == history[i]
        req == row.request
    IN req # None =>
         CASE row.action = "SET" -> row.details = <<req.key, IF req.ttl = None THEN <<>> ELSE req.ttl>>
           [] row.action \in {"GET", "DEL"} -> row.details = <<req.key>>
           [] row.action = "CMD" -> row.details = <<req.body>>
           [] OTHER -> TRUE

\* While the server stays up the page ends by showing its figures and the
\* badge by saying so, whatever refreshes overlapped, came late or failed
\* before (refreshStats, setInterval).
FiguresSettle ==
  <>Opened /\ <>[](program = "http") => <>[](shown = Figures /\ badge = "up")
=============================================================================
