------------------------------ MODULE GridWindows ------------------------------
(***************************************************************************)
(* The rows of the web UI's grid (src/frontend/src/windows.ts).  The grid  *)
(* says which rows it shows; the windows they are in are read two at a     *)
(* time, kept until there are too many, and asked for again after a        *)
(* failure.  A new query may start at any time, while windows of the last  *)
(* one are on their way.                                                   *)
(*                                                                         *)
(* A row is known by its query and its place.  Waits are counted down      *)
(* instead of a clock being read: 0 is now.                                *)
(***************************************************************************)
EXTENDS Integers, Sequences, FiniteSets, FiniteSetsExt

CONSTANTS
  Queries,     \* [table, length, bounded]: a table read some way, and what its rows are
  Ranges,      \* <<start, end>>: rows the grid may show
  Window,      \* WINDOW
  Keeps,       \* KEEP
  InFlight,    \* IN_FLIGHT
  Retry,       \* RETRY_MS
  MaxRetry,    \* the longest wait
  MaxQueries, MaxWants, MaxFailures   \* what happens in a behaviour, at most

VARIABLES
  query,       \* the query of the grid, or nothing
  shown,       \* the rows shown
  gen,         \* goes up with each query
  next,        \* the generation whose first window is on its way, or 0
  inflight,    \* windows of this generation on their way
  requests,    \* [gen, query, window, read]: what was sent and is not answered
  wanted, timer,  \* the rows the grid shows; a pump is due for them
  retry,       \* how long until the wake-up for a window that failed, or Never
  asks, wants, failures

windowVars == <<query, shown, gen, next, inflight, requests, wanted, timer, retry, asks, wants, failures>>

\* `retryAfter`
RetryAfter(tries) == LET doubled == Retry * 2 ^ (tries - 1) IN IF doubled < MaxRetry THEN doubled ELSE MaxRetry

NoQuery == [table |-> "none", length |-> 0, bounded |-> FALSE]
NoRead == [query |-> NoQuery, gen |-> 0, windows |-> <<>>, failed |-> <<>>,
           total |-> -1, matched |-> 0, seen |-> 0, end |-> -1, bounded |-> FALSE]
Never == -1

\* Windows and what is kept of them are some; rows are numbered from 0, and waits are
\* numbers.
ASSUME WindowsAssumption ==
  /\ {Window, Keeps, InFlight} \subseteq Nat \ {0} /\ MaxFailures \in Nat
  /\ \A tries \in 1 .. MaxFailures : RetryAfter(tries) \in Nat
  /\ \A q \in Queries : q.length \in Nat /\ q.bounded \in BOOLEAN /\ q # NoQuery
  /\ Ranges \subseteq Nat \X Nat

WindowsInit ==
  /\ query = NoQuery /\ shown = NoRead /\ gen = 0 /\ next = 0 /\ inflight = {} /\ requests = {}
  /\ wanted = <<0, 0>> /\ timer = FALSE /\ retry = Never /\ asks = 0 /\ wants = 0 /\ failures = 0

Larger(m, n) == IF m > n THEN m ELSE n
Smaller(m, n) == IF m < n THEN m ELSE n
Distance(m, n) == IF m > n THEN m - n ELSE n - m

-----------------------------------------------------------------------------
\* The server: the rows of a window, and the row count if it knows it.  The count of
\* a part of the table is never told to be the table's.
RowsAt(q, w) ==
  [i \in 1 .. Larger(0, Smaller(Window, q.length - w * Window)) |-> <<q, w * Window + i>>]
Replies(q, w) ==
  {[offset |-> w * Window, rows |-> RowsAt(q, w), known |-> known, bounded |-> q.bounded,
    matched |-> IF known \/ q.bounded THEN q.length ELSE w * Window + Len(RowsAt(q, w))] :
     known \in IF q.bounded THEN {FALSE} ELSE BOOLEAN}

-----------------------------------------------------------------------------
\* Where the rows end, once a window came back short.
RowsEnd(read, reply) ==
  IF Len(reply.rows) < Window THEN Larger(read.seen, reply.offset + Len(reply.rows)) ELSE read.end

\* `Map.set`
With(map, key, value) == [k \in DOMAIN map \cup {key} |-> IF k = key THEN value ELSE map[k]]
Without(map, key) == [k \in DOMAIN map \ {key} |-> map[k]]

\* `absorb`
Absorb(read, w, reply) ==
  [read EXCEPT
     !.windows = With(@, w, reply.rows),
     !.failed = Without(@, w),
     !.bounded = reply.bounded,
     !.seen = Larger(@, reply.offset + Len(reply.rows)),
     !.total = IF reply.known THEN reply.matched ELSE @,
     !.matched = IF reply.known THEN @ ELSE Larger(@, reply.matched),
     !.end = RowsEnd(read, reply)]

\* `extent`
Extent(read) ==
  LET seen == Larger(read.seen, read.matched)
  IN CASE read.total # -1 -> [count |-> read.total, exact |-> TRUE, seen |-> read.total]
       [] read.total = -1 /\ read.bounded -> [count |-> seen, exact |-> FALSE, seen |-> seen]
       [] read.total = -1 /\ ~read.bounded /\ read.end # -1 -> [count |-> read.end, exact |-> TRUE, seen |-> read.end]
       [] OTHER -> [count |-> seen + Window, exact |-> FALSE, seen |-> seen]

\* Past the windows to keep, the farthest from view is dropped: `kept` are what may be left.
Kept(read) ==
  LET away(w) == Distance(2 * Window * w, wanted[1] + wanted[2])
      held == DOMAIN read.windows
      far == {w \in held : \A v \in held : away(v) <= away(w)}
  IN IF Cardinality(held) <= Keeps THEN {read}
     ELSE {[read EXCEPT !.windows = Without(@, w)] : w \in far}

\* The windows in view and the one after them, and which of two is nearer the middle of
\* the view.
View(count, start, end) ==
  IF count = 0 \/ end <= start THEN [first |-> 1, last |-> 0]
  ELSE [first |-> start \div Window,
        last |-> Smaller((Smaller(end, count) - 1) \div Window + 1, (count - 1) \div Window)]
InView(view) == view.first .. view.last
Sooner(v, w, view) ==
  LET away(x) == Distance(2 * x, view.first + view.last - 1)
  IN away(v) < away(w) \/ (away(v) = away(w) /\ v < w)

\* `pump`, in a state of these values: the requests it sends, and the wake-up it leaves.
\* It goes through the windows that are missing until enough are on their way.
Missing(read, on, range) ==
  InView(View(Extent(read).count, range[1], range[2])) \ (DOMAIN read.windows \cup on)
WaitsOut(read, w) == w \in DOMAIN read.failed /\ read.failed[w].wait > 0
Visited(read, on, range) ==
  LET view == View(Extent(read).count, range[1], range[2])
      missing == Missing(read, on, range)
      before(w) == {v \in missing : ~WaitsOut(read, v) /\ Sooner(v, w, view)}
  IN {w \in missing : Cardinality(on) + Cardinality(before(w)) < InFlight}
Pump(read, on, coming, range, wake) ==
  LET visited == Visited(read, on, range)
      due == {read.failed[w].wait : w \in {v \in visited : WaitsOut(read, v)}}
  IN IF read = NoRead \/ read.gen # gen \/ coming # 0 THEN [sent |-> {}, retry |-> wake]
     ELSE [sent |-> {w \in visited : ~WaitsOut(read, w)},
           retry |-> IF due # {} /\ (wake = Never \/ wake > Min(due)) THEN Min(due) ELSE wake]

\* What follows a pump in the same turn of the event loop.
Pumped(read, on, coming, range, wake, others) ==
  LET p == Pump(read, on, coming, range, wake)
  IN /\ inflight' = on \cup p.sent
     /\ requests' = others \cup {[gen |-> gen, query |-> read.query, window |-> w, first |-> FALSE] : w \in p.sent}
     /\ retry' = p.retry

-----------------------------------------------------------------------------
\* The query effect, for another query or for none.  The rows shown stay while the new
\* query is of the same table.
StartQuery(q) ==
  /\ gen' = gen + 1 /\ query' = q
  /\ inflight' = {} /\ retry' = Never
  /\ next' = IF q = NoQuery THEN 0 ELSE gen + 1
  /\ shown' = IF q # NoQuery /\ shown.query.table # q.table THEN NoRead ELSE shown
  /\ requests' = requests \cup
       (IF q = NoQuery THEN {} ELSE {[gen |-> gen + 1, query |-> q, window |-> 0, first |-> TRUE]})

AskFor(q) ==
  /\ asks < MaxQueries /\ asks' = asks + 1
  /\ q # query /\ StartQuery(q)
  /\ UNCHANGED <<wanted, timer, wants, failures>>

\* The effects are undone and run again for the same query.
Remount ==
  /\ asks < MaxQueries /\ asks' = asks + 1
  /\ query # NoQuery /\ StartQuery(query) /\ timer' = FALSE
  /\ UNCHANGED <<wanted, wants, failures>>

\* Mutant: every reply is taken for the query's.
CurrentAlways(request) == TRUE
\* A reply is of this generation, or is dropped.
Current(request) == request.gen = gen

\* The first window of the query.
First(request, reply) ==
  LET top == <<0, wanted[2] - wanted[1]>>
      read == Absorb([NoRead EXCEPT !.query = request.query, !.gen = request.gen], 0, reply)
  IN /\ request.first /\ Current(request)
     /\ shown' = read /\ wanted' = top /\ next' = 0
     /\ Pumped(read, inflight, 0, top, retry, requests \ {request})
     /\ UNCHANGED <<query, gen, timer, asks, wants, failures>>

FirstFails(request) ==
  /\ request.first /\ Current(request) /\ failures < MaxFailures /\ failures' = failures + 1
  /\ shown' = NoRead /\ next' = 0 /\ requests' = requests \ {request}
  /\ UNCHANGED <<query, gen, inflight, wanted, timer, retry, asks, wants>>

\* A later window.
Arrives(request, reply) ==
  /\ ~request.first /\ Current(request)
  /\ \E read \in Kept(Absorb(shown, request.window, reply)) :
       /\ shown' = read
       /\ Pumped(read, inflight \ {request.window}, next, wanted, retry, requests \ {request})
  /\ UNCHANGED <<query, gen, next, wanted, timer, asks, wants, failures>>

WindowFails(request) ==
  LET w == request.window
      tries == 1 + (IF w \in DOMAIN shown.failed THEN shown.failed[w].tries ELSE 0)
      read == [shown EXCEPT !.failed = With(@, w, [wait |-> RetryAfter(tries), tries |-> tries])]
  IN /\ ~request.first /\ Current(request) /\ failures < MaxFailures /\ failures' = failures + 1
     /\ shown' = read
     /\ Pumped(read, inflight \ {w}, next, wanted, retry, requests \ {request})
     /\ UNCHANGED <<query, gen, next, wanted, timer, asks, wants>>

Dropped(request) ==
  /\ ~Current(request) /\ requests' = requests \ {request}
  /\ UNCHANGED <<query, shown, gen, next, inflight, wanted, timer, retry, asks, wants, failures>>

\* `want`
Want(range) ==
  /\ wants < MaxWants /\ wants' = wants + 1
  /\ wanted' = range /\ timer' = TRUE
  /\ UNCHANGED <<query, shown, gen, next, inflight, requests, retry, asks, failures>>

\* The throttle has passed.
Throttled ==
  /\ timer /\ timer' = FALSE
  /\ Pumped(shown, inflight, next, wanted, retry, requests)
  /\ UNCHANGED <<query, shown, gen, next, wanted, asks, wants, failures>>

\* A timer goes off when it is due or later.
Wake ==
  /\ retry = 0
  /\ Pumped(shown, inflight, next, wanted, Never, requests)
  /\ UNCHANGED <<query, shown, gen, next, wanted, timer, asks, wants, failures>>

Tick ==
  /\ retry > 0 /\ retry' = retry - 1
  /\ shown' = [shown EXCEPT !.failed =
       [w \in DOMAIN @ |-> [wait |-> Larger(0, @[w].wait - 1), tries |-> @[w].tries]]]
  /\ UNCHANGED <<query, gen, next, inflight, requests, wanted, timer, asks, wants, failures>>

WindowsRest ==
  /\ requests = {} /\ ~timer /\ retry = Never /\ asks = MaxQueries /\ wants = MaxWants
  /\ UNCHANGED windowVars

WindowsNext ==
  \/ \E q \in Queries \cup {NoQuery} : AskFor(q)
  \/ Remount
  \/ \E request \in requests :
       \/ \E reply \in Replies(request.query, request.window) : First(request, reply) \/ Arrives(request, reply)
       \/ FirstFails(request) \/ WindowFails(request) \/ Dropped(request)
  \/ \E range \in Ranges : Want(range)
  \/ Throttled \/ Wake \/ Tick \/ WindowsRest

WindowsSpec == WindowsInit /\ [][WindowsNext]_windowVars

-----------------------------------------------------------------------------
\* What the hook returns to be drawn: nothing of another table.
Drawn == IF query # NoQuery /\ shown.query.table = query.table THEN shown ELSE NoRead

\* What the grid draws is the table's: every row is the one at its place of one query,
\* which is the query asked for unless its first window is on its way, and a count said
\* to be exact is the number of its rows.  No more windows are on their way or held than
\* are allowed; and as long as a window in view is missing, something is due that asks
\* for it.
GridShowsTheTable ==
  /\ \A w \in DOMAIN Drawn.windows : Drawn.windows[w] = RowsAt(Drawn.query, w)
  /\ Drawn # NoRead /\ next = 0 => Drawn.query = query
  /\ Drawn # NoRead /\ Extent(Drawn).exact => Extent(Drawn).count = Drawn.query.length
  /\ Extent(Drawn).seen <= Drawn.query.length
  /\ Cardinality(DOMAIN shown.windows) <= Keeps /\ Cardinality(inflight) <= InFlight
  /\ inflight = {r.window : r \in {s \in requests : s.gen = gen /\ ~s.first}}
  /\ Drawn # NoRead /\ next = 0
       /\ Missing(Drawn, {}, wanted) # {}
       => inflight # {} \/ timer \/ retry # Never
=============================================================================
