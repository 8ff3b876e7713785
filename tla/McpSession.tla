------------------------------ MODULE McpSession ------------------------------
(***************************************************************************)
(* The session loop of `lakeleto mcp` (src/src/mcp/mod.rs).                *)
(*                                                                         *)
(* Three kinds of actor share one mpsc channel, `inbox`:                   *)
(*   - the reader thread puts the client's lines on it, then Closed;       *)
(*   - each tool call's thread puts one Done on it when it returns;        *)
(*   - the loop takes events off it, one per iteration, and owns stdout.   *)
(* Before it takes an event, every iteration answers the calls that are    *)
(* past their deadline.  A call's thread may return late, or never: the    *)
(* engine it runs need not look at its context.                            *)
(*                                                                         *)
(* Time is relative: `left` is the number of ticks until a call's deadline *)
(* (timeout + GRACE in the code), and a call is overdue when it is 0.      *)
(***************************************************************************)
EXTENDS Naturals, Sequences, FiniteSets

CONSTANTS
  Ids,          \* the JSON-RPC ids the client uses
  NullId,       \* the null id of a reply to a line that names no usable id
  Methods,      \* the kinds of line the client sends, a subset of Known
  MaxRequests,  \* bound: lines that call for a reply, in one session
  MaxInbox,     \* bound: lines the client has ahead of the loop
  MaxRunning,   \* MAX_RUNNING
  Patience,     \* ticks from a call's start to its deadline
  MayHangUp     \* whether the client may stop reading stdout

\* Lines answered as soon as they are read: a lifecycle request, an unknown
\* method, a request without a method or with another JSON-RPC version, and a
\* tools/call that names no offered tool or whose arguments are no object.
AtOnce == {"initialize", "ping", "tools/list", "unknown", "noMethod",
           "badVersion", "badCall"}

\* Lines answered at once under a null id: not JSON, not an object, or an id
\* that is neither a string nor a number.
Anonymous == {"notJson", "notObject", "badId"}

\* Lines that are never answered: blank, a response, or a notification.
Silent == {"blank", "response", "notification", "notifications/cancelled"}

Known == AtOnce \cup Anonymous \cup Silent \cup {"tools/call"}

ASSUME SessionAssumption ==
  /\ NullId \notin Ids
  /\ Methods \subseteq Known
  /\ MaxRequests \in Nat /\ MaxInbox \in Nat
  /\ MaxRunning \in Nat \ {0} /\ Patience \in Nat \ {0}
  /\ MayHangUp \in BOOLEAN

VARIABLES
  inbox,      \* the channel: a sequence of events
  reading,    \* the reader thread has not sent Closed yet
  listening,  \* the client still reads stdout
  phase,      \* where the loop is: "check", "recv", or how it ended
  open,       \* the loop has not seen Closed
  call,       \* the calls started so far; a call's number is its position
  running,    \* the atomic count of running call threads
  asked,      \* history: the id each request's reply has to carry
  answers,    \* history: the replies written to each request
  withdrawn   \* history: the requests whose call was cancelled in time

clientVars == <<reading, listening, asked>>
vars == <<inbox, reading, listening, phase, open, call, running, asked,
          answers, withdrawn>>

Requests == 1..MaxRequests
AnyId == Ids \cup {NullId}

\* `request` is 0 in a line that is never answered, and `id` the null id in one
\* that names no usable id.
Line ==
  {m \in [tag: {"line"}, method: Methods, id: AnyId, request: Requests \cup {0}] :
     /\ m.request = 0 <=> m.method \in Silent
     /\ m.method \notin Anonymous \cup Silent => m.id \in Ids}
Done == [tag: {"done"}, seq: Nat]
Closed == [tag |-> "closed"]
Event == Line \cup Done \cup {Closed}

\* `of` is the request the reply's content was made for.
Reply == [id: AnyId, kind: {"result", "overdue", "busy", "direct"}, of: Requests]

\* A call: the entry in `pending` while `pending` is TRUE, its cancel token,
\* and its thread, "sending" once it has given its running slot back.
Call == [request: Requests, id: Ids, left: 0..Patience, pending: BOOLEAN,
         cancelled: BOOLEAN, thread: {"running", "sending", "gone"}]

Pending == {s \in DOMAIN call : call[s].pending}
\* Mutant: deadlines are looked at only when the channel is empty.
OverdueWhenIdle == {s \in Pending : call[s].left = 0 /\ inbox = <<>>}

\* The pending calls that are past their deadline.
Overdue == {s \in Pending : call[s].left = 0}
Running == {s \in DOMAIN call : call[s].thread = "running"}
Live == phase \in {"check", "recv"}

-----------------------------------------------------------------------------
Init ==
  /\ inbox = <<>>
  /\ reading = TRUE
  /\ listening = TRUE
  /\ phase = "check"
  /\ open = TRUE
  /\ call = <<>>
  /\ running = 0
  /\ asked = <<>>
  /\ answers = [n \in Requests |-> <<>>]
  /\ withdrawn = {}

(***************************************************************************)
(* The client, the reader thread and the call threads.                     *)
(***************************************************************************)

\* The reader thread sends on a line that will be answered.
ReadRequest(method, id) ==
  /\ Live /\ reading
  /\ Len(inbox) < MaxInbox /\ Len(asked) < MaxRequests
  /\ method \in Methods \ Silent
  /\ LET carried == IF method \in Anonymous THEN NullId ELSE id
     IN /\ asked' = Append(asked, carried)
        /\ inbox' = Append(inbox, [tag |-> "line", method |-> method, id |-> carried,
                                   request |-> Len(asked) + 1])
  /\ UNCHANGED <<reading, listening, phase, open, call, running, answers, withdrawn>>

\* ... or a line that never is: as many of these as the client likes.
ReadSilent(method, id) ==
  /\ Live /\ reading
  /\ Len(inbox) < MaxInbox
  /\ method \in Methods \cap Silent
  /\ inbox' = Append(inbox, [tag |-> "line", method |-> method,
                             id |-> IF method = "notifications/cancelled" THEN id ELSE NullId,
                             request |-> 0])
  /\ UNCHANGED <<clientVars, phase, open, call, running, answers, withdrawn>>

\* End of file, a read error or bytes that are no UTF-8: the reader is done.
ReadEnd ==
  /\ Live /\ reading
  /\ reading' = FALSE
  /\ inbox' = Append(inbox, Closed)
  /\ UNCHANGED <<listening, phase, open, call, running, asked, answers, withdrawn>>

\* The client stops reading stdout: from now on a write fails.
HangUp ==
  /\ MayHangUp /\ Live /\ listening
  /\ listening' = FALSE
  /\ UNCHANGED <<inbox, reading, phase, open, call, running, asked, answers, withdrawn>>

\* A call's thread returns from the tool, or catches its panic, and gives its
\* running slot back ...
ThreadReturns(s) ==
  /\ Live /\ call[s].thread = "running"
  /\ running' = running - 1
  /\ call' = [call EXCEPT ![s].thread = "sending"]
  /\ UNCHANGED <<inbox, clientVars, phase, open, answers, withdrawn>>

\* Mutant: the slot is given back a second time with the report.
ReportsAndGivesBack(s) ==
  /\ Live /\ call[s].thread = "sending"
  /\ running' = running - 1
  /\ inbox' = Append(inbox, [tag |-> "done", seq |-> s])
  /\ call' = [call EXCEPT ![s].thread = "gone"]
  /\ UNCHANGED <<clientVars, phase, open, answers, withdrawn>>

\* ... and only then reports: the loop may start another call in between.
ThreadReports(s) ==
  /\ Live /\ call[s].thread = "sending"
  /\ inbox' = Append(inbox, [tag |-> "done", seq |-> s])
  /\ call' = [call EXCEPT ![s].thread = "gone"]
  /\ UNCHANGED <<clientVars, phase, open, running, answers, withdrawn>>

\* Time passes for every call that is waited on.
Tick ==
  /\ Live /\ \E s \in Pending : call[s].left > 0
  /\ call' = [s \in DOMAIN call |->
                IF call[s].pending /\ call[s].left > 0
                THEN [call[s] EXCEPT !.left = @ - 1] ELSE call[s]]
  /\ UNCHANGED <<inbox, clientVars, phase, open, running, answers, withdrawn>>

(***************************************************************************)
(* The loop.  A failed write ends it: `serve` returns the error.           *)
(***************************************************************************)

\* Write reply r to request n and go round the loop.
Send(n, r) ==
  IF listening
  THEN answers' = [answers EXCEPT ![n] = Append(@, r)] /\ phase' = "check"
  ELSE UNCHANGED answers /\ phase' = "failed"

\* Mutant: the calls stay in `pending`.
KeptPending(S, C) ==
  [s \in DOMAIN call |-> [call[s] EXCEPT !.cancelled = @ \/ s \in C]]

\* The calls with S taken out of `pending` and their tokens C cancelled.
Settled(S, C) ==
  [s \in DOMAIN call |-> [call[s] EXCEPT !.pending = @ /\ s \notin S,
                                         !.cancelled = @ \/ s \in C]]

\* Mutant: the loop ends as soon as the client has closed stdin.
EndAtClose(left) == IF ~open THEN "exited" ELSE "recv"

\* What the loop does next once the overdue calls are answered: it ends when
\* the client has closed stdin and nothing is left to answer.
AfterCheck(left) == IF ~open /\ left = {} THEN "exited" ELSE "recv"

\* The top of the loop: answer every overdue call, cancelling it.
AnswerOverdue ==
  /\ phase = "check"
  /\ listening \/ Overdue = {}
  /\ call' = Settled(Overdue, Overdue)
  /\ answers' = [n \in Requests |->
       IF \E s \in Overdue : call[s].request = n
       THEN LET s == CHOOSE t \in Overdue : call[t].request = n
            IN Append(answers[n], [id |-> call[s].id, kind |-> "overdue", of |-> n])
       ELSE answers[n]]
  /\ phase' = AfterCheck(Pending \ Overdue)
  /\ UNCHANGED <<inbox, clientVars, open, running, withdrawn>>

\* The same with stdout broken: the first write fails, one token is cancelled.
FailOverdue(s) ==
  /\ phase = "check" /\ ~listening
  /\ s \in Overdue
  /\ call' = Settled(Overdue, {s})
  /\ phase' = "failed"
  /\ UNCHANGED <<inbox, clientVars, open, running, answers, withdrawn>>

\* recv_timeout runs out: back to the top of the loop.
RecvTimeout ==
  /\ phase = "recv" /\ inbox = <<>> /\ Overdue # {}
  /\ phase' = "check"
  /\ UNCHANGED <<inbox, clientVars, open, call, running, answers, withdrawn>>

\* The loop takes a line of one of these kinds off the channel.
Takes(kinds) ==
  /\ phase = "recv" /\ inbox # <<>>
  /\ Head(inbox).tag = "line" /\ Head(inbox).method \in kinds
  /\ inbox' = Tail(inbox)

\* A line that starts no call, and is answered by `receive` itself.
HandleAtOnce ==
  /\ Takes(AtOnce \cup Anonymous)
  /\ LET m == Head(inbox)
     IN Send(m.request, [id |-> m.id, kind |-> "direct", of |-> m.request])
  /\ UNCHANGED <<clientVars, open, call, running, withdrawn>>

\* A line nothing is done about.
HandleSilent ==
  /\ Takes(Silent \ {"notifications/cancelled"})
  /\ phase' = "check"
  /\ UNCHANGED <<clientVars, open, call, running, answers, withdrawn>>

\* A cancellation: the call it names is no longer waited on, and is told to
\* stop.  One that names no pending call does nothing.
HandleCancelled ==
  /\ Takes({"notifications/cancelled"})
  /\ LET named == {s \in Pending : call[s].id = Head(inbox).id}
     IN \/ /\ named = {}
           /\ UNCHANGED <<call, withdrawn>>
        \/ \E s \in named :
             /\ call' = Settled({s}, {s})
             /\ withdrawn' = withdrawn \cup {call[s].request}
  /\ phase' = "check"
  /\ UNCHANGED <<clientVars, open, running, answers>>

\* Mutant: the check for a duplicate id looks at running threads only.
IdRunning(id) == \E s \in Running : call[s].id = id

\* A tools/call whose id a pending call has: "a call with this `id` is still
\* running".
IdInUse(id) == \E s \in Pending : call[s].id = id

RefuseDuplicate ==
  /\ Takes({"tools/call"})
  /\ LET m == Head(inbox)
     IN /\ IdInUse(m.id)
        /\ Send(m.request, [id |-> m.id, kind |-> "direct", of |-> m.request])
  /\ UNCHANGED <<clientVars, open, call, running, withdrawn>>

\* Mutant: the calls waited on are counted instead of the threads.
BusyByPending == Cardinality(Pending) >= MaxRunning

\* MAX_RUNNING threads are running, whether or not anyone waits on them.
Busy == running >= MaxRunning

RefuseBusy ==
  /\ Takes({"tools/call"})
  /\ LET m == Head(inbox)
     IN /\ ~IdInUse(m.id) /\ Busy
        /\ Send(m.request, [id |-> m.id, kind |-> "busy", of |-> m.request])
  /\ UNCHANGED <<clientVars, open, call, running, withdrawn>>

\* A call starts: it takes a running slot, a thread and a place in `pending`.
StartCall ==
  /\ Takes({"tools/call"})
  /\ LET m == Head(inbox)
     IN /\ ~IdInUse(m.id) /\ ~Busy
        /\ call' = Append(call, [request |-> m.request, id |-> m.id,
                                 left |-> Patience, pending |-> TRUE,
                                 cancelled |-> FALSE, thread |-> "running"])
  /\ running' = running + 1
  /\ phase' = "check"
  /\ UNCHANGED <<clientVars, open, answers, withdrawn>>

HandleClosed ==
  /\ phase = "recv" /\ inbox # <<>> /\ Head(inbox) = Closed
  /\ inbox' = Tail(inbox)
  /\ open' = FALSE
  /\ phase' = "check"
  /\ UNCHANGED <<clientVars, call, running, answers, withdrawn>>

\* Mutant: `pending` is keyed by the client's id.
AnsweredById(seq) == {s \in Pending : call[s].id = call[seq].id}

\* The pending calls a Done of call number seq answers: pending.remove(&seq).
AnsweredBy(seq) == {s \in Pending : s = seq}

\* A call's thread is done: its result is the reply if the call is still
\* pending, and is dropped if the call was cancelled or answered as overdue.
HandleDone ==
  /\ phase = "recv" /\ inbox # <<>> /\ Head(inbox).tag = "done"
  /\ inbox' = Tail(inbox)
  /\ LET seq == Head(inbox).seq
     IN \/ \E s \in AnsweredBy(seq) :
             /\ call' = Settled({s}, {})
             /\ Send(call[s].request, [id |-> call[s].id, kind |-> "result",
                                       of |-> call[seq].request])
        \/ /\ AnsweredBy(seq) = {}
           /\ phase' = "check"
           /\ UNCHANGED <<call, answers>>
  /\ UNCHANGED <<clientVars, open, running, withdrawn>>

\* The loop has returned, and the process ends: nothing happens any more.
Ended == ~Live /\ UNCHANGED vars

-----------------------------------------------------------------------------
Check == AnswerOverdue \/ \E s \in DOMAIN call : FailOverdue(s)

Receive ==
  \/ RecvTimeout \/ HandleAtOnce \/ HandleSilent \/ HandleCancelled
  \/ RefuseDuplicate \/ RefuseBusy \/ StartCall \/ HandleClosed \/ HandleDone

Loop == Check \/ Receive

Client ==
  \/ \E method \in Methods, id \in Ids :
       ReadRequest(method, id) \/ ReadSilent(method, id)
  \/ ReadEnd
  \/ HangUp

Threads == \E s \in DOMAIN call : ThreadReturns(s) \/ ThreadReports(s)

Next == Client \/ Threads \/ Tick \/ Loop \/ Ended

\* The loop runs and time passes.  Nothing is assumed of the client, nor of a
\* call's thread: it need never return or report.
Fairness ==
  /\ WF_vars(Loop)
  /\ WF_vars(Tick)

Spec == Init /\ [][Next]_vars
FairSpec == Spec /\ Fairness

-----------------------------------------------------------------------------
TypeOK ==
  /\ inbox \in Seq(Event)
  /\ reading \in BOOLEAN
  /\ listening \in BOOLEAN
  /\ phase \in {"check", "recv", "exited", "failed"}
  /\ open \in BOOLEAN
  /\ call \in Seq(Call)
  /\ running \in Nat
  /\ asked \in Seq(AnyId)
  /\ answers \in [Requests -> Seq(Reply)]
  /\ withdrawn \in SUBSET Requests

\* No request is answered twice, whatever races: a call's result, its
\* deadline and its cancellation come from three actors (mod.rs:134-139).
AnsweredAtMostOnce == \A n \in Requests : Len(answers[n]) <= 1

\* A reply carries the id of the request it answers, and content made for that
\* request: the late result of a cancelled or overdue call never answers a
\* later request that reuses its id (mod.rs:148-149).
RightAnswer ==
  \A n \in Requests : \A i \in DOMAIN answers[n] :
    answers[n][i].of = n /\ answers[n][i].id = asked[n]

\* A request whose call was cancelled is never answered, not even by a result
\* that was already on the channel (mod.rs:243-244).
WithdrawnNeverAnswered == \A n \in withdrawn : answers[n] = <<>>

\* A request is settled once: answered or withdrawn, and neither again.
SettledOnce == AnsweredAtMostOnce /\ WithdrawnNeverAnswered

\* At most MAX_RUNNING threads run, those nobody waits on included
\* (mod.rs:39-42).
ThreadsBounded == Cardinality(Running) <= MaxRunning

\* The session ends by itself only when every request the client sent has been
\* answered, or withdrawn by the client (mod.rs:49-50).
NothingOwedAtExit ==
  phase = "exited" =>
    \A n \in 1..Len(asked) : answers[n] # <<>> \/ n \in withdrawn

\* Two pending calls never share an id, so a cancellation names one call.
PendingIdsDiffer ==
  \A s, t \in Pending : call[s].id = call[t].id => s = t

\* Every request is answered or withdrawn in the end, though its thread may
\* never return and the client may keep the loop busy with other lines
\* (mod.rs:12-15, 106-107); only a client that stops reading is let down.
EveryRequestSettled ==
  \A n \in Requests :
    Len(asked) >= n ~> (answers[n] # <<>> \/ n \in withdrawn \/ phase = "failed")

\* Once stdin is closed the session ends, even with threads that hang
\* (mod.rs:49-50).
ClosedSessionEnds == ~reading ~> ~Live

\* Both: nobody who keeps to the protocol is left waiting.
SessionSettles == EveryRequestSettled /\ ClosedSessionEnds

-----------------------------------------------------------------------------
(* The mapping from the session to what it promises, McpPromise.           *)

StatusOf(n) ==
  CASE n > Len(asked)       -> "unsent"
    [] n \in withdrawn      -> "withdrawn"
    [] answers[n] # <<>>    -> "answered"
    [] OTHER                -> "owed"

SessionNow ==
  CASE phase = "failed" -> "broken"
    [] phase = "exited" -> "over"
    [] OTHER            -> IF reading THEN "asking" ELSE "closed"

Promise == INSTANCE McpPromise
  WITH status <- [n \in Requests |-> StatusOf(n)], session <- SessionNow

\* The loop, its channel and its threads implement the promise: a client sees
\* each request answered once or withdrawn, never both, and an end that owes
\* nothing (mod.rs:12-15, 49-50).
KeepsPromise == Promise!Spec
=============================================================================
