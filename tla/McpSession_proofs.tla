-------------------------- MODULE McpSession_proofs --------------------------
(***************************************************************************)
(* Proofs about the session loop of `lakeleto mcp`, for any number of      *)
(* requests, ids, running slots and ticks: what each step keeps, and that  *)
(* the session implements what it promises.  And about its tools, for any  *)
(* tables, results and limits: that their answers are true.                *)
(***************************************************************************)
EXTENDS McpSession, McpTools, SequenceTheorems, FiniteSetTheorems, TLAPS

\* A function that keeps the calls' numbers keeps them a sequence of calls.
LEMMA CallsStaySequence ==
  ASSUME NEW c \in Seq(Call), NEW f, f \in [DOMAIN c -> Call]
  PROVE  f \in Seq(Call) /\ Len(f) = Len(c) /\ DOMAIN f = DOMAIN c
<1>1. DOMAIN c = 1..Len(c) /\ Len(c) \in Nat
  BY LenProperties
<1>2. f \in [1..Len(c) -> Call]
  BY <1>1
<1>3. QED
  BY <1>1, <1>2

\* Taking calls out of `pending` and cancelling tokens changes no call's
\* request, id, deadline or thread.
LEMMA SettledCalls ==
  ASSUME call \in Seq(Call), NEW S, NEW C
  PROVE  /\ Settled(S, C) \in Seq(Call)
         /\ Len(Settled(S, C)) = Len(call)
         /\ DOMAIN Settled(S, C) = DOMAIN call
         /\ \A s \in DOMAIN call :
              /\ Settled(S, C)[s].request = call[s].request
              /\ Settled(S, C)[s].id = call[s].id
              /\ Settled(S, C)[s].thread = call[s].thread
              /\ Settled(S, C)[s].pending = (call[s].pending /\ s \notin S)
              /\ Settled(S, C)[s].cancelled = (call[s].cancelled \/ s \in C)
<1>1. \A s \in DOMAIN call : call[s] \in Call
  BY LenProperties, ElementOfSeq
<1>2. Settled(S, C) \in [DOMAIN call -> Call]
  BY <1>1 DEF Settled, Call
<1>3. \A s \in DOMAIN call :
        /\ Settled(S, C)[s].request = call[s].request
        /\ Settled(S, C)[s].id = call[s].id
        /\ Settled(S, C)[s].thread = call[s].thread
        /\ Settled(S, C)[s].pending = (call[s].pending /\ s \notin S)
        /\ Settled(S, C)[s].cancelled = (call[s].cancelled \/ s \in C)
  BY <1>1 DEF Settled, Call
<1>4. QED
  BY <1>2, <1>3, CallsStaySequence

\* An event the loop takes off the channel leaves a channel of events.
LEMMA TakenEvent ==
  ASSUME TypeOK, inbox # <<>>, inbox' = Tail(inbox)
  PROVE  /\ inbox' \in Seq(Event)
         /\ Head(inbox) \in Event
  BY HeadTailProperties DEF TypeOK

\* A line taken off the channel that is answered names a request.
LEMMA TypeOfLines ==
  ASSUME TypeOK, inbox # <<>>, Head(inbox).tag = "line"
  PROVE  Head(inbox) \in Line
<1>1. Head(inbox) \in Event
  BY HeadTailProperties DEF TypeOK
<1>2. QED
  BY <1>1 DEF Event, Done, Closed

-----------------------------------------------------------------------------
\* A reply appended to one request's keeps `answers` well typed.
LEMMA SendKeepsType ==
  ASSUME TypeOK, NEW n \in Requests, NEW r \in Reply, Send(n, r)
  PROVE  answers' \in [Requests -> Seq(Reply)] /\ phase' \in {"check", "failed"}
<1>1. answers[n] \in Seq(Reply)
  BY DEF TypeOK
<1>2. Append(answers[n], r) \in Seq(Reply)
  BY <1>1, AppendProperties
<1>3. QED
  BY <1>2 DEF Send, TypeOK

\* The atomic `running` is the number of threads that hold a running slot, and
\* no more than MAX_RUNNING do.
SlotInv ==
  /\ IsFiniteSet(Running)
  /\ running = Cardinality(Running)
  /\ running <= MaxRunning

\* A call appended to a sequence of calls.
LEMMA StartedCall ==
  ASSUME call \in Seq(Call), NEW c \in Call
  PROVE  /\ Append(call, c) \in Seq(Call)
         /\ Len(Append(call, c)) = Len(call) + 1
         /\ DOMAIN Append(call, c) = DOMAIN call \cup {Len(call) + 1}
         /\ Len(call) + 1 \notin DOMAIN call
         /\ \A s \in DOMAIN call : Append(call, c)[s] = call[s]
         /\ Append(call, c)[Len(call) + 1] = c
  BY AppendProperties, LenProperties

\* The running slots are preserved by every step of a well-typed state.
LEMMA SlotsStep == TypeOK /\ SlotInv /\ [Next]_vars => SlotInv'
<1> SUFFICES ASSUME TypeOK, SlotInv, [Next]_vars PROVE SlotInv'
  OBVIOUS
<1> USE SessionAssumption
<1>0. \A s \in DOMAIN call : call[s] \in Call
  BY LenProperties, ElementOfSeq DEF TypeOK
<1>1. ASSUME NEW s \in DOMAIN call, ThreadReturns(s) PROVE SlotInv'
  <2>1. Running' = Running \ {s} /\ s \in Running
    BY <1>0, <1>1 DEF ThreadReturns, Running, Call
  <2>2. Cardinality(Running) \in Nat /\ IsFiniteSet(Running')
        /\ Cardinality(Running') = Cardinality(Running) - 1
    BY <2>1, FS_RemoveElement, FS_CardinalityType DEF SlotInv
  <2>3. QED
    BY <1>1, <2>2 DEF SlotInv, ThreadReturns
<1>2. ASSUME UNCHANGED running, Running' = Running PROVE SlotInv'
  BY <1>2 DEF SlotInv
<1>3. ASSUME NEW s \in DOMAIN call, ThreadReports(s) PROVE SlotInv'
  <2>1. Running' = Running
    BY <1>0, <1>3 DEF ThreadReports, Running, Call
  <2>2. QED
    BY <1>2, <1>3, <2>1 DEF ThreadReports
<1>4. CASE Tick
  <2>1. Running' = Running
    BY <1>0, <1>4 DEF Tick, Running, Call
  <2>2. QED
    BY <1>2, <1>4, <2>1 DEF Tick
<1>5. ASSUME NEW S, NEW C, call' = Settled(S, C), UNCHANGED running PROVE SlotInv'
  BY <1>2, <1>5, SettledCalls DEF Running, TypeOK
<1>6. CASE StartCall
  <2>1. PICK c : /\ call' = Append(call, c)
                 /\ c.thread = "running"
                 /\ c \in Call
    <3>1. Head(inbox) \in Line /\ Head(inbox).method = "tools/call"
      BY <1>6, TypeOfLines DEF StartCall, Takes
    <3>2. Head(inbox).request \in Requests
      BY <3>1 DEF Line, Silent
    <3>3. Head(inbox).id \in Ids
      BY <3>1 DEF Line, Anonymous, Silent
    <3> DEFINE new == [request |-> Head(inbox).request, id |-> Head(inbox).id,
                       left |-> Patience, pending |-> TRUE,
                       cancelled |-> FALSE, thread |-> "running"]
    <3>4. new \in Call
      BY <3>2, <3>3 DEF Call
    <3>5. call' = Append(call, new)
      BY <1>6 DEF StartCall
    <3>6. QED
      BY <3>4, <3>5
  <2>2. Running' = Running \cup {Len(call) + 1} /\ Len(call) + 1 \notin Running
    BY <2>1, StartedCall DEF Running, TypeOK
  <2>3. IsFiniteSet(Running') /\ Cardinality(Running') = Cardinality(Running) + 1
    BY <2>2, FS_AddElement DEF SlotInv
  <2>4. running < MaxRunning
    BY <1>6 DEF StartCall, Busy, TypeOK
  <2>5. QED
    BY <1>6, <2>3, <2>4 DEF StartCall, SlotInv, TypeOK
<1>7. ASSUME UNCHANGED <<call, running>> PROVE SlotInv'
  BY <1>2, <1>7 DEF Running
<1>8. CASE Client
  BY <1>7, <1>8 DEF Client, ReadRequest, ReadSilent, ReadEnd, HangUp
<1>9. CASE AnswerOverdue
  BY <1>5, <1>9 DEF AnswerOverdue
<1>10. ASSUME NEW s \in DOMAIN call, FailOverdue(s) PROVE SlotInv'
  BY <1>5, <1>10 DEF FailOverdue
<1>11. CASE HandleCancelled
  BY <1>5, <1>7, <1>11 DEF HandleCancelled
<1>12. CASE HandleDone
  BY <1>5, <1>7, <1>12 DEF HandleDone
<1>13. CASE RecvTimeout \/ HandleAtOnce \/ HandleSilent \/ RefuseDuplicate
            \/ RefuseBusy \/ HandleClosed
  BY <1>7, <1>13 DEF RecvTimeout, HandleAtOnce, HandleSilent, RefuseDuplicate,
     RefuseBusy, HandleClosed
<1>14. CASE UNCHANGED vars
  BY <1>7, <1>14 DEF vars
<1>15. QED
  BY <1>1, <1>3, <1>4, <1>6, <1>8, <1>9, <1>10, <1>11, <1>12, <1>13, <1>14
  DEF Next, Threads, Loop, Check, Receive, Ended

\* Type correctness of the session's state, and the bound on its threads that
\* type correctness of `running` rests on.
LEMMA TypeAndSlots == Spec => [](TypeOK /\ SlotInv)
<1>1. Init => TypeOK /\ SlotInv
  <2>1. Init => TypeOK
    BY SessionAssumption DEF Init, TypeOK
  <2>2. Init => SlotInv
    BY SessionAssumption, FS_EmptySet DEF Init, SlotInv, Running
  <2>3. QED
    BY <2>1, <2>2
<1>2. TypeOK /\ SlotInv /\ [Next]_vars => TypeOK'
  <2> SUFFICES ASSUME TypeOK, SlotInv, [Next]_vars PROVE TypeOK'
    OBVIOUS
  <2> USE SessionAssumption
  <2>0. \A s \in DOMAIN call : call[s] \in Call /\ s \in Nat
    BY LenProperties, ElementOfSeq DEF TypeOK
  <2>1. ASSUME NEW method \in Methods, NEW id \in Ids, ReadRequest(method, id)
        PROVE  TypeOK'
    <3>1. Len(asked) + 1 \in Requests
      BY <2>1, LenProperties DEF ReadRequest, TypeOK, Requests
    <3>2. (IF method \in Anonymous THEN NullId ELSE id) \in AnyId
      BY DEF AnyId
    <3>3. [tag |-> "line", method |-> method,
           id |-> IF method \in Anonymous THEN NullId ELSE id,
           request |-> Len(asked) + 1] \in Event
      <4>1. 0 \notin Requests /\ Requests \subseteq Nat
        BY DEF Requests
      <4>2. method \notin Silent
        BY <2>1 DEF ReadRequest
      <4>3. method \notin Anonymous \cup Silent =>
              (IF method \in Anonymous THEN NullId ELSE id) \in Ids
        OBVIOUS
      <4>4. QED
        BY <3>1, <3>2, <4>1, <4>2, <4>3 DEF Event, Line
    <3>4. QED
      BY <2>1, <3>2, <3>3, AppendProperties DEF ReadRequest, TypeOK
  <2>2. ASSUME NEW method \in Methods, NEW id \in Ids, ReadSilent(method, id)
        PROVE  TypeOK'
    <3>1. [tag |-> "line", method |-> method,
           id |-> IF method = "notifications/cancelled" THEN id ELSE NullId,
           request |-> 0] \in Event
      <4>1. 0 \notin Requests /\ method \in Silent
        BY <2>2 DEF Requests, ReadSilent
      <4>2. (IF method = "notifications/cancelled" THEN id ELSE NullId) \in AnyId
        BY DEF AnyId
      <4>3. QED
        BY <4>1, <4>2 DEF Event, Line
    <3>2. QED
      BY <2>2, <3>1, AppendProperties DEF ReadSilent, TypeOK, clientVars
  <2>3. CASE ReadEnd
    BY <2>3, AppendProperties DEF ReadEnd, TypeOK, Event
  <2>4. CASE HangUp
    BY <2>4 DEF HangUp, TypeOK
  <2>5. ASSUME NEW s \in DOMAIN call, ThreadReturns(s) PROVE TypeOK'
    <3>1. [call EXCEPT ![s].thread = "sending"] \in [DOMAIN call -> Call]
      BY <2>0 DEF Call
    <3>2. call' \in Seq(Call)
      BY <2>5, <3>1, CallsStaySequence DEF ThreadReturns, TypeOK
    <3>3. running' \in Nat
      <4>1. s \in Running
        BY <2>5 DEF ThreadReturns, Running
      <4>2. running # 0
        BY <4>1, FS_EmptySet DEF SlotInv
      <4>3. QED
        BY <2>5, <4>2 DEF ThreadReturns, TypeOK
    <3>4. QED
      BY <2>5, <3>2, <3>3 DEF ThreadReturns, TypeOK, clientVars
  <2>6. ASSUME NEW s \in DOMAIN call, ThreadReports(s) PROVE TypeOK'
    <3>1. [call EXCEPT ![s].thread = "gone"] \in [DOMAIN call -> Call]
      BY <2>0 DEF Call
    <3>2. call' \in Seq(Call)
      BY <2>6, <3>1, CallsStaySequence DEF ThreadReports, TypeOK
    <3>3. [tag |-> "done", seq |-> s] \in Event
      BY <2>0 DEF Event, Done
    <3>4. QED
      BY <2>6, <3>2, <3>3, AppendProperties DEF ThreadReports, TypeOK, clientVars
  <2>7. CASE Tick
    <3>1. call' \in [DOMAIN call -> Call]
      BY <2>0, <2>7 DEF Tick, Call
    <3>2. call' \in Seq(Call)
      BY <3>1, CallsStaySequence DEF TypeOK
    <3>3. QED
      BY <2>7, <3>2 DEF Tick, TypeOK, clientVars
  <2>8. CASE AnswerOverdue
    <3>1. call' \in Seq(Call)
      BY <2>8, SettledCalls DEF AnswerOverdue, TypeOK
    <3>2. \A n \in Requests : answers'[n] \in Seq(Reply)
      <4> SUFFICES ASSUME NEW n \in Requests PROVE answers'[n] \in Seq(Reply)
        OBVIOUS
      <4>1. CASE \E s \in Overdue : call[s].request = n
        <5>1. PICK t \in Overdue :
                /\ t = CHOOSE s \in Overdue : call[s].request = n
                /\ call[t].request = n
          BY <4>1
        <5>2. [id |-> call[t].id, kind |-> "overdue", of |-> n] \in Reply
          BY <2>0, <5>1 DEF Overdue, Pending, Call, Reply, AnyId
        <5>3. answers'[n] = Append(answers[n],
                              [id |-> call[t].id, kind |-> "overdue", of |-> n])
          BY <2>8, <4>1, <5>1 DEF AnswerOverdue
        <5>4. QED
          BY <5>2, <5>3, AppendProperties DEF TypeOK
      <4>2. CASE ~ \E s \in Overdue : call[s].request = n
        BY <2>8, <4>2 DEF AnswerOverdue, TypeOK
      <4>3. QED
        BY <4>1, <4>2
    <3>3. answers' \in [Requests -> Seq(Reply)]
      BY <2>8, <3>2 DEF AnswerOverdue
    <3>4. QED
      BY <2>8, <3>1, <3>3 DEF AnswerOverdue, AfterCheck, TypeOK, clientVars
  <2>9. ASSUME NEW s \in DOMAIN call, FailOverdue(s) PROVE TypeOK'
    <3>1. call' \in Seq(Call)
      BY <2>9, SettledCalls DEF FailOverdue, TypeOK
    <3>2. QED
      BY <2>9, <3>1 DEF FailOverdue, TypeOK, clientVars
  <2>10. CASE RecvTimeout
    BY <2>10 DEF RecvTimeout, TypeOK, clientVars
  <2>11. ASSUME NEW kinds, Takes(kinds)
         PROVE  /\ inbox' \in Seq(Event)
                /\ Head(inbox) \in Line /\ Head(inbox).method \in kinds
    BY <2>11, TakenEvent, TypeOfLines DEF Takes
  <2>12. ASSUME NEW kinds, Takes(kinds), kinds \cap Silent = {},
                NEW id \in AnyId, NEW kind \in {"busy", "direct"},
                Send(Head(inbox).request,
                     [id |-> id, kind |-> kind, of |-> Head(inbox).request]),
                UNCHANGED <<clientVars, open, call, running, withdrawn>>
         PROVE  TypeOK'
    <3>1. Head(inbox).request \in Requests
      BY <2>11, <2>12 DEF Line
    <3>2. [id |-> id, kind |-> kind, of |-> Head(inbox).request] \in Reply
      BY <3>1 DEF Reply
    <3>3. answers' \in [Requests -> Seq(Reply)] /\ phase' \in {"check", "failed"}
      BY <2>12, <3>1, <3>2, SendKeepsType
    <3>4. QED
      BY <2>11, <2>12, <3>3 DEF TypeOK, clientVars
  <2>13. CASE HandleSilent
    BY <2>11, <2>13 DEF HandleSilent, TypeOK, clientVars
  <2>14. CASE HandleCancelled
    <3>1. inbox' \in Seq(Event)
      BY <2>11, <2>14 DEF HandleCancelled
    <3>2. CASE UNCHANGED <<call, withdrawn>>
      BY <2>14, <3>1, <3>2 DEF HandleCancelled, TypeOK, clientVars
    <3>3. ASSUME NEW s \in Pending,
                 call' = Settled({s}, {s}),
                 withdrawn' = withdrawn \cup {call[s].request}
          PROVE  TypeOK'
      <4>1. call' \in Seq(Call)
        BY <3>3, SettledCalls DEF TypeOK
      <4>2. withdrawn' \in SUBSET Requests
        BY <2>0, <3>3 DEF TypeOK, Pending, Call
      <4>3. QED
        BY <2>14, <3>1, <4>1, <4>2 DEF HandleCancelled, TypeOK, clientVars
    <3>4. QED
      BY <2>14, <3>2, <3>3 DEF HandleCancelled
  <2>15. CASE HandleAtOnce
    <3>1. Head(inbox).id \in AnyId
      BY <2>11, <2>15 DEF HandleAtOnce, Line
    <3>2. QED
      BY <2>12, <2>15, <3>1 DEF HandleAtOnce, AtOnce, Anonymous, Silent
  <2>16. CASE RefuseDuplicate
    <3>1. Head(inbox).id \in AnyId
      BY <2>11, <2>16 DEF RefuseDuplicate, Line
    <3>2. QED
      BY <2>12, <2>16, <3>1 DEF RefuseDuplicate, Silent
  <2>17. CASE RefuseBusy
    <3>1. Head(inbox).id \in AnyId
      BY <2>11, <2>17 DEF RefuseBusy, Line
    <3>2. QED
      BY <2>12, <2>17, <3>1 DEF RefuseBusy, Silent
  <2>18. CASE HandleClosed
    BY <2>18, TakenEvent DEF HandleClosed, TypeOK, clientVars
  <2>19. CASE StartCall
    <3>1. Head(inbox) \in Line /\ Head(inbox).method = "tools/call"
      BY <2>11, <2>19 DEF StartCall
    <3>2. Head(inbox).request \in Requests /\ Head(inbox).id \in Ids
      BY <3>1 DEF Line, Anonymous, Silent
    <3>3. call' \in Seq(Call)
      BY <2>19, <3>2, StartedCall DEF StartCall, TypeOK, Call
    <3>4. QED
      BY <2>11, <2>19, <3>3 DEF StartCall, TypeOK, clientVars
  <2>20. CASE HandleDone
    <3>1. inbox' \in Seq(Event)
      BY <2>20, TakenEvent DEF HandleDone
    <3>2. CASE UNCHANGED <<call, answers>> /\ phase' = "check"
      BY <2>20, <3>1, <3>2 DEF HandleDone, TypeOK, clientVars
    <3>3. ASSUME NEW s \in AnsweredBy(Head(inbox).seq),
                 call' = Settled({s}, {}),
                 Send(call[s].request, [id |-> call[s].id, kind |-> "result",
                                        of |-> call[Head(inbox).seq].request])
          PROVE  TypeOK'
      <4>1. s \in DOMAIN call /\ s = Head(inbox).seq
        BY <3>3 DEF AnsweredBy, Pending
      <4>2. call' \in Seq(Call)
        BY <3>3, SettledCalls DEF TypeOK
      <4>3. call[s].request \in Requests /\ call[s].id \in AnyId
        BY <2>0, <4>1 DEF Call, AnyId
      <4>4. [id |-> call[s].id, kind |-> "result", of |-> call[s].request] \in Reply
        BY <4>3 DEF Reply
      <4>5. answers' \in [Requests -> Seq(Reply)] /\ phase' \in {"check", "failed"}
        BY <3>3, <4>1, <4>3, <4>4, SendKeepsType
      <4>6. QED
        BY <2>20, <3>1, <4>2, <4>5 DEF HandleDone, TypeOK, clientVars
    <3>4. QED
      BY <2>20, <3>2, <3>3 DEF HandleDone
  <2>21. CASE UNCHANGED vars
    BY <2>21 DEF vars, TypeOK
  <2>22. QED
    BY <2>1, <2>2, <2>3, <2>4, <2>5, <2>6, <2>7, <2>8, <2>9, <2>10, <2>13, <2>14,
       <2>15, <2>16, <2>17, <2>18, <2>19, <2>20, <2>21
    DEF Next, Client, Threads, Loop, Check, Receive, Ended
<1>3. TypeOK /\ SlotInv /\ [Next]_vars => SlotInv'
  BY SlotsStep
<1>4. QED
  BY <1>1, <1>2, <1>3, PTL DEF Spec

\* Every reachable state is well typed: in particular the count of running
\* threads never wraps below zero, though threads and loop both update it.
THEOREM TypeCorrect == Spec => []TypeOK
  BY TypeAndSlots, PTL

\* At most MAX_RUNNING threads run, those of cancelled and overdue calls
\* included.
THEOREM ThreadsAreBounded == Spec => []ThreadsBounded
<1>1. SlotInv => ThreadsBounded
  BY DEF SlotInv, ThreadsBounded
<1>2. QED
  BY <1>1, TypeAndSlots, PTL

-----------------------------------------------------------------------------
(***************************************************************************)
(* The invariant behind the answers.  A request is in one place: on the    *)
(* channel, in a call, or settled.  A line on the channel and a pending    *)
(* call are both still owed; that is why neither a late result, nor the    *)
(* deadline, nor a cancellation can answer what another has settled.       *)
(***************************************************************************)

\* Event i of the channel is the line of request n.
Carries(i, n) == inbox[i].tag = "line" /\ inbox[i].request = n

LinesOwed ==
  \A i \in DOMAIN inbox, n \in Requests : Carries(i, n) =>
    /\ n <= Len(asked) /\ asked[n] = inbox[i].id
    /\ answers[n] = <<>> /\ n \notin withdrawn
    /\ \A s \in DOMAIN call : call[s].request # n
    /\ \A j \in DOMAIN inbox : Carries(j, n) => j = i

CallsOwed ==
  \A s \in DOMAIN call :
    /\ call[s].request <= Len(asked)
    /\ asked[call[s].request] = call[s].id
    /\ \A t \in DOMAIN call : call[t].request = call[s].request => t = s
    /\ call[s].pending => /\ answers[call[s].request] = <<>>
                         /\ call[s].request \notin withdrawn

UnaskedUntouched ==
  \A n \in Requests : n > Len(asked) => answers[n] = <<>> /\ n \notin withdrawn

AnswerInv ==
  /\ LinesOwed
  /\ CallsOwed
  /\ UnaskedUntouched
  /\ AnsweredAtMostOnce
  /\ RightAnswer
  /\ WithdrawnNeverAnswered
  /\ PendingIdsDiffer

\* Taking the first event off the channel moves the others up by one.
LEMMA AfterTake ==
  ASSUME TypeOK, inbox # <<>>, inbox' = Tail(inbox)
  PROVE  /\ 1 \in DOMAIN inbox /\ inbox[1] = Head(inbox)
         /\ \A i \in DOMAIN inbox' : /\ i + 1 \in DOMAIN inbox /\ i + 1 # 1
                                    /\ inbox'[i] = inbox[i + 1]
         /\ \A i, j \in DOMAIN inbox' : i + 1 = j + 1 => i = j
<1>1. inbox \in Seq(Event) /\ inbox' \in Seq(Event) /\ Len(inbox') = Len(inbox) - 1
  BY HeadTailProperties DEF TypeOK
<1>2. DOMAIN inbox = 1..Len(inbox) /\ DOMAIN inbox' = 1..Len(inbox')
  BY <1>1, LenProperties
<1>3. Len(inbox) \in Nat \ {0}
  BY <1>1, EmptySeq
<1>4. \A i \in 1..Len(inbox') : inbox'[i] = inbox[i + 1]
  BY <1>1, HeadTailProperties DEF TypeOK
<1>5. QED
  BY <1>1, <1>2, <1>3, <1>4

\* Sending an event leaves the others where they are.
LEMMA AfterSend ==
  ASSUME TypeOK, NEW e \in Event, inbox' = Append(inbox, e)
  PROVE  /\ DOMAIN inbox' = DOMAIN inbox \cup {Len(inbox) + 1}
         /\ Len(inbox) + 1 \notin DOMAIN inbox
         /\ \A i \in DOMAIN inbox : inbox'[i] = inbox[i]
         /\ inbox'[Len(inbox) + 1] = e
  BY AppendProperties, LenProperties DEF TypeOK

\* A reply to a request that was owed one, with its own id and content, leaves
\* it answered once and rightly.
LEMMA FirstReply ==
  ASSUME TypeOK, AnsweredAtMostOnce, RightAnswer, WithdrawnNeverAnswered,
         UNCHANGED asked, UNCHANGED withdrawn,
         NEW n \in Requests, answers[n] = <<>>, n \notin withdrawn,
         NEW r \in Reply, r.of = n, r.id = asked[n], Send(n, r)
  PROVE  /\ AnsweredAtMostOnce' /\ RightAnswer' /\ WithdrawnNeverAnswered'
         /\ \A m \in Requests : m # n => answers'[m] = answers[m]
<1>1. CASE listening
  <2>1. answers' = [answers EXCEPT ![n] = Append(@, r)]
    BY <1>1 DEF Send
  <2> DEFINE only == Append(answers[n], r)
  <2>2. Len(only) = 1 /\ DOMAIN only = {1} /\ only[1] = r
    <3>1. answers[n] \in Seq(Reply) /\ Len(answers[n]) = 0
      BY DEF TypeOK
    <3>2. only \in Seq(Reply) /\ Len(only) = 1 /\ only[0 + 1] = r
      BY <3>1, AppendProperties
    <3>3. QED
      BY <3>2, LenProperties
  <2> HIDE DEF only
  <2>3. answers'[n] = only /\ \A m \in Requests : m # n => answers'[m] = answers[m]
    BY <2>1 DEF TypeOK, only
  <2>5. AnsweredAtMostOnce'
    <3>1. ASSUME NEW m \in Requests PROVE Len(answers'[m]) <= 1
      <4>1. CASE m = n
        <5>1. answers'[m] = only
          BY <2>3, <4>1
        <5>2. Len(answers'[m]) = Len(only)
          BY <5>1
        <5>3. Len(answers'[m]) = 1
          BY <2>2, <5>2
        <5>4. QED
          BY <5>3
      <4>2. CASE m # n
        <5>1. answers'[m] = answers[m]
          BY <2>3, <4>2
        <5>2. Len(answers[m]) <= 1
          BY DEF AnsweredAtMostOnce
        <5>3. QED
          BY <5>1, <5>2
      <4>3. QED
        BY <4>1, <4>2
    <3>2. QED
      BY <3>1 DEF AnsweredAtMostOnce
  <2>6. RightAnswer'
    BY <2>2, <2>3 DEF RightAnswer
  <2>7. QED
    BY <2>3, <2>5, <2>6 DEF WithdrawnNeverAnswered, TypeOK
<1>2. CASE ~listening
  BY <1>2 DEF Send, AnsweredAtMostOnce, RightAnswer, WithdrawnNeverAnswered
<1>3. QED
  BY <1>1, <1>2

\* Every step of a well-typed session preserves the invariant.
LEMMA AnswersStep == TypeOK /\ TypeOK' /\ AnswerInv /\ [Next]_vars => AnswerInv'
<1> SUFFICES ASSUME TypeOK, TypeOK', AnswerInv, [Next]_vars PROVE AnswerInv'
  OBVIOUS
<1> USE SessionAssumption
<1>0. /\ \A s \in DOMAIN call : call[s] \in Call /\ call[s].request \in Requests
      /\ DOMAIN inbox = 1..Len(inbox) /\ Len(inbox) \in Nat
      /\ Len(asked) \in Nat /\ DOMAIN asked = 1..Len(asked)
      /\ \A n \in Requests : n \in Nat /\ n >= 1
  <2>1. \A s \in DOMAIN call : call[s] \in Call
    BY LenProperties, ElementOfSeq DEF TypeOK
  <2>2. QED
    BY <2>1, LenProperties DEF TypeOK, Call, Requests
<1> DEFINE
  \* Every line on the channel was there before, k places further on.
  Moved(k) == \A i \in DOMAIN inbox', n \in Requests : Carries(i, n)' =>
                i + k \in DOMAIN inbox /\ inbox'[i] = inbox[i + k]
  \* The calls are the same, and the pending ones were pending.
  SameCalls == /\ DOMAIN call' = DOMAIN call
               /\ \A s \in DOMAIN call :
                    /\ call'[s].request = call[s].request
                    /\ call'[s].id = call[s].id
                    /\ call'[s].pending => call[s].pending
<1>1. ASSUME NEW k \in {0, 1}, Moved(k), UNCHANGED asked,
             \A i \in DOMAIN inbox', n \in Requests : Carries(i, n)' =>
               /\ answers'[n] = answers[n]
               /\ n \in withdrawn' => n \in withdrawn
               /\ \A s \in DOMAIN call' : call'[s].request # n
      PROVE  LinesOwed'
  <2> SUFFICES ASSUME NEW i \in DOMAIN inbox', NEW n \in Requests, Carries(i, n)'
               PROVE  /\ n <= Len(asked) /\ asked[n] = inbox'[i].id
                      /\ answers'[n] = <<>> /\ n \notin withdrawn'
                      /\ \A s \in DOMAIN call' : call'[s].request # n
                      /\ \A j \in DOMAIN inbox' : Carries(j, n)' => j = i
    BY <1>1 DEF LinesOwed
  <2>1. i + k \in DOMAIN inbox /\ Carries(i + k, n) /\ inbox'[i] = inbox[i + k]
    BY <1>1 DEF Carries
  <2>2. /\ n <= Len(asked) /\ asked[n] = inbox[i + k].id
        /\ answers[n] = <<>> /\ n \notin withdrawn
        /\ \A j \in DOMAIN inbox : Carries(j, n) => j = i + k
    BY <2>1 DEF AnswerInv, LinesOwed
  <2>3. ASSUME NEW j \in DOMAIN inbox', Carries(j, n)' PROVE j = i
    <3>1. j + k \in DOMAIN inbox /\ Carries(j + k, n)
      BY <1>1, <2>3 DEF Carries
    <3>2. j + k = i + k
      BY <2>2, <3>1
    <3>3. i \in Nat /\ j \in Nat
      BY LenProperties DEF TypeOK
    <3>4. QED
      BY <3>2, <3>3
  <2>4. QED
    BY <1>1, <2>1, <2>2, <2>3
<1>2. ASSUME SameCalls, UNCHANGED asked,
             \A s \in DOMAIN call : call'[s].pending =>
               /\ answers'[call[s].request] = answers[call[s].request]
               /\ call[s].request \in withdrawn' => call[s].request \in withdrawn
      PROVE  CallsOwed' /\ PendingIdsDiffer'
  <2>1. CallsOwed'
    BY <1>2 DEF AnswerInv, CallsOwed
  <2>2. PendingIdsDiffer'
    BY <1>2 DEF AnswerInv, PendingIdsDiffer, Pending
  <2>3. QED
    BY <2>1, <2>2
<1>3. ASSUME UNCHANGED <<answers, withdrawn, asked>>
      PROVE  /\ AnsweredAtMostOnce' /\ RightAnswer' /\ WithdrawnNeverAnswered'
             /\ UnaskedUntouched'
  BY <1>3 DEF AnswerInv, AnsweredAtMostOnce, RightAnswer, WithdrawnNeverAnswered,
     UnaskedUntouched
<1>4. ASSUME NEW k \in {0, 1}, Moved(k), SameCalls,
             UNCHANGED <<asked, answers, withdrawn>>
      PROVE  AnswerInv'
  <2>1. LinesOwed'
    <3>1. \A i \in DOMAIN inbox', n \in Requests : Carries(i, n)' =>
            \A s \in DOMAIN call' : call'[s].request # n
      BY <1>4 DEF AnswerInv, LinesOwed, Carries
    <3>2. QED
      BY <1>1, <1>4, <3>1
  <2>2. CallsOwed' /\ PendingIdsDiffer'
    BY <1>2, <1>4
  <2>3. QED
    BY <1>3, <1>4, <2>1, <2>2 DEF AnswerInv
<1>5. ASSUME NEW e \in Event, inbox' = Append(inbox, e),
             e.tag = "line" => e.request = 0
      PROVE  Moved(0)
  BY <1>0, <1>5, AfterSend DEF Carries
<1>6. ASSUME inbox # <<>>, inbox' = Tail(inbox) PROVE Moved(1)
  BY <1>6, AfterTake
<1>7. ASSUME UNCHANGED inbox PROVE Moved(0)
  BY <1>0, <1>7
<1>8. ASSUME NEW S, NEW C, call' = Settled(S, C)
      PROVE  /\ SameCalls
             /\ \A s \in DOMAIN call : s \in S => ~call'[s].pending
  <2>1. /\ DOMAIN call' = DOMAIN call
        /\ \A s \in DOMAIN call : call'[s].request = call[s].request
                                /\ call'[s].id = call[s].id
    BY <1>8, SettledCalls DEF TypeOK
  <2>2. \A s \in DOMAIN call : call'[s].pending = (call[s].pending /\ s \notin S)
    BY <1>8, SettledCalls DEF TypeOK
  <2>3. \A s \in DOMAIN call : (call'[s].pending => call[s].pending)
                             /\ (s \in S => ~call'[s].pending)
    BY <2>2
  <2>4. QED
    BY <2>1, <2>3
<1>9. ASSUME UNCHANGED call PROVE SameCalls
  BY <1>9
<1>10. CASE UNCHANGED vars
  BY <1>4, <1>7, <1>9, <1>10 DEF vars
<1>11. ASSUME NEW method \in Methods, NEW id \in Ids, ReadRequest(method, id)
       PROVE  AnswerInv'
  <2> DEFINE carried == IF method \in Anonymous THEN NullId ELSE id
             n0 == Len(asked) + 1
             e == [tag |-> "line", method |-> method, id |-> carried, request |-> n0]
  <2>1. /\ Len(asked') = n0 /\ asked'[n0] = carried
        /\ \A n \in 1..Len(asked) : asked'[n] = asked[n]
    <3>1. asked \in Seq(AnyId) /\ carried \in AnyId
      BY DEF TypeOK, AnyId
    <3>2. asked' = Append(asked, carried)
      BY <1>11 DEF ReadRequest
    <3>3. QED
      BY <3>1, <3>2, AppendProperties
  <2>2. n0 \in Requests /\ inbox' = Append(inbox, e)
    BY <1>0, <1>11 DEF ReadRequest, Requests
  <2>3. /\ DOMAIN inbox' = DOMAIN inbox \cup {Len(inbox) + 1}
        /\ Len(inbox) + 1 \notin DOMAIN inbox
        /\ \A i \in DOMAIN inbox : inbox'[i] = inbox[i]
        /\ inbox'[Len(inbox) + 1] = e
    <3>1. \A i \in 1..Len(inbox) : Append(inbox, e)[i] = inbox[i]
      BY <1>0
    <3>2. QED
      BY <1>0, <2>2, <3>1
  <2>4. UNCHANGED <<call, answers, withdrawn>>
    BY <1>11 DEF ReadRequest
  <2>5. answers[n0] = <<>> /\ n0 \notin withdrawn
    BY <1>0, <2>2 DEF AnswerInv, UnaskedUntouched
  <2>6. \A s \in DOMAIN call : call[s].request <= Len(asked)
    BY DEF AnswerInv, CallsOwed
  <2>7. LinesOwed'
    <3> SUFFICES ASSUME NEW i \in DOMAIN inbox', NEW n \in Requests, Carries(i, n)'
                 PROVE  /\ n <= Len(asked') /\ asked'[n] = inbox'[i].id
                        /\ answers[n] = <<>> /\ n \notin withdrawn
                        /\ \A s \in DOMAIN call : call[s].request # n
                        /\ \A j \in DOMAIN inbox' : Carries(j, n)' => j = i
      BY <2>4 DEF LinesOwed
    <3>1. CASE i = Len(inbox) + 1
      <4>1. n = n0
        BY <2>3, <3>1 DEF Carries
      <4>2. \A j \in DOMAIN inbox : ~Carries(j, n0)
        BY <1>0, <2>2 DEF AnswerInv, LinesOwed
      <4>3. QED
        BY <1>0, <2>1, <2>3, <2>5, <2>6, <3>1, <4>1, <4>2 DEF Carries
    <3>2. CASE i \in DOMAIN inbox
      <4>1. Carries(i, n)
        BY <2>3, <3>2 DEF Carries
      <4>2. /\ n <= Len(asked) /\ asked[n] = inbox[i].id
            /\ answers[n] = <<>> /\ n \notin withdrawn
            /\ \A s \in DOMAIN call : call[s].request # n
            /\ \A j \in DOMAIN inbox : Carries(j, n) => j = i
        BY <3>2, <4>1 DEF AnswerInv, LinesOwed
      <4>3. n # n0 /\ n \in 1..Len(asked)
        BY <1>0, <4>2
      <4>4. QED
        BY <1>0, <2>1, <2>3, <3>2, <4>2, <4>3 DEF Carries
    <3>3. QED
      BY <2>3, <3>1, <3>2
  <2>8. CallsOwed' /\ PendingIdsDiffer'
    <3>1. \A s \in DOMAIN call : call[s].request \in 1..Len(asked)
      BY <1>0, <2>6
    <3>2. QED
      BY <1>0, <2>1, <2>4, <3>1 DEF AnswerInv, CallsOwed, PendingIdsDiffer, Pending
  <2>9. RightAnswer'
    <3>1. \A n \in Requests : answers[n] # <<>> => n \in 1..Len(asked)
      BY <1>0 DEF AnswerInv, UnaskedUntouched
    <3>2. \A n \in Requests : \A i \in DOMAIN answers[n] : answers[n] # <<>>
      OBVIOUS
    <3>3. QED
      BY <2>1, <2>4, <3>1, <3>2 DEF AnswerInv, RightAnswer
  <2>10. UnaskedUntouched' /\ AnsweredAtMostOnce' /\ WithdrawnNeverAnswered'
    BY <1>0, <2>1, <2>4 DEF AnswerInv, UnaskedUntouched, AnsweredAtMostOnce,
       WithdrawnNeverAnswered
  <2>11. QED
    BY <2>7, <2>8, <2>9, <2>10 DEF AnswerInv
<1>12. CASE \E method \in Methods, id \in Ids : ReadSilent(method, id)
  <2>1. PICK method \in Methods, id \in Ids : ReadSilent(method, id)
    BY <1>12
  <2> DEFINE e == [tag |-> "line", method |-> method,
                   id |-> IF method = "notifications/cancelled" THEN id ELSE NullId,
                   request |-> 0]
  <2>2. inbox' = Append(inbox, e)
    BY <2>1 DEF ReadSilent
  <2>3. e \in Event
    <3>1. 0 \notin Requests /\ method \in Silent
      BY <1>0, <2>1 DEF ReadSilent
    <3>2. (IF method = "notifications/cancelled" THEN id ELSE NullId) \in AnyId
      BY DEF AnyId
    <3>3. QED
      BY <3>1, <3>2 DEF Event, Line
  <2>4. Moved(0)
    BY <1>5, <2>2, <2>3
  <2>5. QED
    BY <1>4, <1>9, <2>1, <2>4 DEF ReadSilent, clientVars
<1>13. CASE ReadEnd
  <2>1. Moved(0)
    BY <1>5, <1>13 DEF ReadEnd, Closed, Event
  <2>2. QED
    BY <1>4, <1>9, <1>13, <2>1 DEF ReadEnd
<1>14. CASE HangUp
  BY <1>4, <1>7, <1>9, <1>14 DEF HangUp
<1>15. ASSUME NEW s \in DOMAIN call, ThreadReturns(s) PROVE AnswerInv'
  <2>1. SameCalls
    BY <1>0, <1>15 DEF ThreadReturns, Call
  <2>2. QED
    BY <1>4, <1>7, <1>15, <2>1 DEF ThreadReturns, clientVars
<1>16. ASSUME NEW s \in DOMAIN call, ThreadReports(s) PROVE AnswerInv'
  <2>1. SameCalls
    BY <1>0, <1>16 DEF ThreadReports, Call
  <2>2. [tag |-> "done", seq |-> s] \in Event
    BY LenProperties DEF Event, Done, TypeOK
  <2>3. Moved(0)
    BY <1>5, <1>16, <2>2 DEF ThreadReports
  <2>4. QED
    BY <1>4, <1>16, <2>1, <2>3 DEF ThreadReports, clientVars
<1>17. CASE Tick
  <2>1. SameCalls
    BY <1>0, <1>17 DEF Tick, Call
  <2>2. QED
    BY <1>4, <1>7, <1>17, <2>1 DEF Tick, clientVars
<1>18. ASSUME NEW s \in DOMAIN call, FailOverdue(s) PROVE AnswerInv'
  BY <1>4, <1>7, <1>8, <1>18 DEF FailOverdue, clientVars
<1>19. CASE RecvTimeout
  BY <1>4, <1>7, <1>9, <1>19 DEF RecvTimeout, clientVars
<1>20. CASE HandleSilent
  BY <1>4, <1>6, <1>9, <1>20 DEF HandleSilent, Takes, clientVars
<1>21. CASE HandleClosed
  BY <1>4, <1>6, <1>9, <1>21 DEF HandleClosed, clientVars
<1>22. CASE StartCall
  <2> DEFINE m == Head(inbox)
             c == Len(call) + 1
             new == [request |-> m.request, id |-> m.id, left |-> Patience,
                     pending |-> TRUE, cancelled |-> FALSE, thread |-> "running"]
  <2>1. m \in Line /\ m.method = "tools/call" /\ inbox # <<>> /\ inbox' = Tail(inbox)
    BY <1>22, TypeOfLines DEF StartCall, Takes
  <2>2. m.request \in Requests /\ m.id \in Ids /\ m.tag = "line"
    BY <2>1 DEF Line, Anonymous, Silent
  <2>3. new \in Call
    BY <2>2 DEF Call
  <2>4. call' = Append(call, new)
    BY <1>22 DEF StartCall
  <2>5. /\ DOMAIN call' = DOMAIN call \cup {c} /\ c \notin DOMAIN call
        /\ \A s \in DOMAIN call : call'[s] = call[s]
        /\ call'[c] = new
    BY <2>3, <2>4, StartedCall DEF TypeOK
  <2>6. /\ 1 \in DOMAIN inbox /\ Carries(1, m.request)
        /\ \A i \in DOMAIN inbox' : i + 1 \in DOMAIN inbox /\ i + 1 # 1
                                   /\ inbox'[i] = inbox[i + 1]
    BY <2>1, <2>2, AfterTake DEF Carries
  <2>7. /\ m.request <= Len(asked) /\ asked[m.request] = m.id
        /\ answers[m.request] = <<>> /\ m.request \notin withdrawn
        /\ \A s \in DOMAIN call : call[s].request # m.request
        /\ \A j \in DOMAIN inbox : Carries(j, m.request) => j = 1
    <3>1. inbox[1] = m
      BY <2>1, AfterTake
    <3>2. QED
      BY <2>2, <2>6, <3>1 DEF AnswerInv, LinesOwed
  <2>8. UNCHANGED <<asked, answers, withdrawn>>
    BY <1>22 DEF StartCall, clientVars
  <2>9. LinesOwed'
    <3>1. ASSUME NEW i \in DOMAIN inbox', NEW n \in Requests, Carries(i, n)'
          PROVE  \A s \in DOMAIN call' : call'[s].request # n
      <4>1. i + 1 \in DOMAIN inbox /\ Carries(i + 1, n) /\ i + 1 # 1
        BY <2>6, <3>1 DEF Carries
      <4>2. n # m.request
        BY <2>7, <4>1
      <4>3. \A s \in DOMAIN call : call[s].request # n
        BY <4>1 DEF AnswerInv, LinesOwed
      <4>4. QED
        BY <2>5, <4>2, <4>3
    <3>2. Moved(1)
      BY <1>6, <2>1
    <3>3. QED
      BY <1>1, <2>8, <3>1, <3>2
  <2>10. CallsOwed'
    BY <2>5, <2>7, <2>8 DEF AnswerInv, CallsOwed
  <2>11. PendingIdsDiffer'
    <3>1. \A s \in DOMAIN call : call[s].pending => call[s].id # m.id
      BY <1>22 DEF StartCall, IdInUse, Pending
    <3>2. QED
      BY <2>5, <3>1 DEF AnswerInv, PendingIdsDiffer, Pending
  <2>12. QED
    BY <1>3, <2>8, <2>9, <2>10, <2>11 DEF AnswerInv
<1>23. ASSUME NEW n \in Requests, answers[n] = <<>>, n \notin withdrawn,
              n <= Len(asked),
              NEW r \in Reply, r.of = n, r.id = asked[n], Send(n, r),
              SameCalls, UNCHANGED <<asked, withdrawn>>,
              inbox # <<>>, inbox' = Tail(inbox),
              \A i \in DOMAIN inbox' : ~Carries(i, n)',
              \A s \in DOMAIN call : call'[s].pending => call[s].request # n
       PROVE  AnswerInv'
  <2>1. /\ AnsweredAtMostOnce' /\ RightAnswer' /\ WithdrawnNeverAnswered'
        /\ \A m \in Requests : m # n => answers'[m] = answers[m]
    BY <1>23, FirstReply DEF AnswerInv
  <2>2. LinesOwed'
    <3>1. Moved(1)
      BY <1>6, <1>23
    <3>2. \A i \in DOMAIN inbox', m \in Requests : Carries(i, m)' =>
            \A s \in DOMAIN call' : call'[s].request # m
      BY <1>23, <3>1 DEF AnswerInv, LinesOwed, Carries
    <3>3. QED
      BY <1>1, <1>23, <2>1, <3>1, <3>2
  <2>3. CallsOwed' /\ PendingIdsDiffer'
    <3>1. \A s \in DOMAIN call : call'[s].pending =>
            answers'[call[s].request] = answers[call[s].request]
      BY <1>0, <1>23, <2>1
    <3>2. QED
      BY <1>2, <1>23, <3>1
  <2>4. UnaskedUntouched'
    BY <1>0, <1>23, <2>1 DEF AnswerInv, UnaskedUntouched
  <2>5. QED
    BY <2>1, <2>2, <2>3, <2>4 DEF AnswerInv
<1>24. ASSUME NEW kinds, Takes(kinds), kinds \cap Silent = {},
              NEW kind \in {"busy", "direct"},
              Send(Head(inbox).request, [id |-> Head(inbox).id, kind |-> kind,
                                         of |-> Head(inbox).request]),
              UNCHANGED <<call, asked, withdrawn>>
       PROVE  AnswerInv'
  <2> DEFINE m == Head(inbox)
  <2>1. m \in Line /\ m.method \in kinds /\ inbox # <<>> /\ inbox' = Tail(inbox)
    BY <1>24, TypeOfLines DEF Takes
  <2>2. m.request \in Requests /\ m.id \in AnyId /\ m.tag = "line"
    BY <1>24, <2>1 DEF Line
  <2>3. /\ 1 \in DOMAIN inbox /\ Carries(1, m.request) /\ inbox[1] = m
        /\ \A i \in DOMAIN inbox' : i + 1 \in DOMAIN inbox /\ i + 1 # 1
                                   /\ inbox'[i] = inbox[i + 1]
    BY <2>1, <2>2, AfterTake DEF Carries
  <2>4. /\ m.request <= Len(asked) /\ asked[m.request] = m.id
        /\ answers[m.request] = <<>> /\ m.request \notin withdrawn
        /\ \A s \in DOMAIN call : call[s].request # m.request
        /\ \A j \in DOMAIN inbox : Carries(j, m.request) => j = 1
    BY <2>2, <2>3 DEF AnswerInv, LinesOwed
  <2>5. PICK n \in Requests : n = m.request
    BY <2>2
  <2>6. PICK r \in Reply : r = [id |-> m.id, kind |-> kind, of |-> m.request]
    BY <2>2 DEF Reply
  <2>7. \A i \in DOMAIN inbox' : ~Carries(i, n)'
    BY <2>3, <2>4, <2>5 DEF Carries
  <2>8. r.of = n /\ r.id = asked[n] /\ Send(n, r)
    BY <1>24, <2>4, <2>5, <2>6
  <2>9. QED
    BY <1>9, <1>23, <1>24, <2>1, <2>4, <2>5, <2>7, <2>8
<1>25. CASE HandleAtOnce
  BY <1>24, <1>25 DEF HandleAtOnce, AtOnce, Anonymous, Silent, clientVars
<1>26. CASE RefuseDuplicate
  BY <1>24, <1>26 DEF RefuseDuplicate, Silent, clientVars
<1>27. CASE RefuseBusy
  BY <1>24, <1>27 DEF RefuseBusy, Silent, clientVars
<1>28. CASE HandleCancelled
  <2>1. inbox # <<>> /\ inbox' = Tail(inbox) /\ UNCHANGED <<asked, answers>>
    BY <1>28 DEF HandleCancelled, Takes, clientVars
  <2>2. Moved(1)
    BY <1>6, <2>1
  <2>3. CASE UNCHANGED <<call, withdrawn>>
    BY <1>4, <1>9, <2>1, <2>2, <2>3
  <2>4. ASSUME NEW s \in Pending,
               call' = Settled({s}, {s}),
               withdrawn' = withdrawn \cup {call[s].request}
        PROVE  AnswerInv'
    <3>1. /\ s \in DOMAIN call /\ call[s].pending
          /\ SameCalls /\ ~call'[s].pending
      BY <1>8, <2>4 DEF Pending
    <3>2. PICK n \in Requests : n = call[s].request
      BY <1>0, <3>1
    <3>3. answers[n] = <<>> /\ n <= Len(asked)
      BY <3>1, <3>2 DEF AnswerInv, CallsOwed
    <3>4. LinesOwed'
      <4>1. \A i \in DOMAIN inbox', m \in Requests : Carries(i, m)' =>
              m # n /\ \A t \in DOMAIN call' : call'[t].request # m
        BY <2>2, <3>1, <3>2 DEF AnswerInv, LinesOwed, Carries
      <4>2. QED
        BY <1>1, <2>1, <2>2, <2>4, <3>2, <4>1
    <3>5. CallsOwed' /\ PendingIdsDiffer'
      <4>1. \A t \in DOMAIN call : call'[t].pending => call[t].request # n
        BY <3>1, <3>2 DEF AnswerInv, CallsOwed
      <4>2. QED
        BY <1>2, <2>1, <2>4, <3>1, <3>2, <4>1
    <3>6. WithdrawnNeverAnswered' /\ UnaskedUntouched'
      BY <1>0, <2>1, <2>4, <3>2, <3>3
      DEF AnswerInv, WithdrawnNeverAnswered, UnaskedUntouched
    <3>7. AnsweredAtMostOnce' /\ RightAnswer'
      BY <2>1 DEF AnswerInv, AnsweredAtMostOnce, RightAnswer
    <3>8. QED
      BY <3>4, <3>5, <3>6, <3>7 DEF AnswerInv
  <2>5. QED
    BY <1>28, <2>3, <2>4 DEF HandleCancelled
<1>29. CASE HandleDone
  <2>1. inbox # <<>> /\ inbox' = Tail(inbox) /\ UNCHANGED <<asked, withdrawn>>
    BY <1>29 DEF HandleDone, clientVars
  <2>2. CASE UNCHANGED <<call, answers>>
    BY <1>4, <1>6, <1>9, <2>1, <2>2
  <2>3. ASSUME NEW s \in AnsweredBy(Head(inbox).seq),
               call' = Settled({s}, {}),
               Send(call[s].request, [id |-> call[s].id, kind |-> "result",
                                      of |-> call[Head(inbox).seq].request])
        PROVE  AnswerInv'
    <3>1. /\ s \in DOMAIN call /\ call[s].pending /\ s = Head(inbox).seq
          /\ SameCalls /\ ~call'[s].pending
      BY <1>8, <2>3 DEF AnsweredBy, Pending
    <3>2. PICK n \in Requests : n = call[s].request
      BY <1>0, <3>1
    <3>3. answers[n] = <<>> /\ n \notin withdrawn /\ n <= Len(asked)
          /\ asked[n] = call[s].id
      BY <3>1, <3>2 DEF AnswerInv, CallsOwed
    <3>4. PICK r \in Reply : r = [id |-> call[s].id, kind |-> "result", of |-> n]
      BY <1>0, <3>1 DEF Reply, Call, AnyId
    <3>5. Send(n, r) /\ r.of = n /\ r.id = asked[n]
      BY <2>3, <3>1, <3>2, <3>3, <3>4
    <3>6. \A i \in DOMAIN inbox' : ~Carries(i, n)'
      <4>1. Moved(1)
        BY <1>6, <2>1
      <4>2. \A i \in DOMAIN inbox : ~Carries(i, n)
        BY <3>1, <3>2 DEF AnswerInv, LinesOwed
      <4>3. QED
        BY <4>1, <4>2 DEF Carries
    <3>7. \A t \in DOMAIN call : call'[t].pending => call[t].request # n
      BY <3>1, <3>2 DEF AnswerInv, CallsOwed
    <3>8. QED
      BY <1>23, <2>1, <3>1, <3>3, <3>5, <3>6, <3>7
  <2>4. QED
    BY <1>29, <2>2, <2>3 DEF HandleDone
<1>30. CASE AnswerOverdue
  <2> DEFINE late(n) == \E s \in Overdue : call[s].request = n
  <2>1. /\ SameCalls /\ \A s \in Overdue : ~call'[s].pending
        /\ UNCHANGED <<inbox, asked, withdrawn>>
    BY <1>8, <1>30 DEF AnswerOverdue, Overdue, Pending, clientVars
  <2>2. ASSUME NEW n \in Requests, ~late(n) PROVE answers'[n] = answers[n]
    BY <1>30, <2>2 DEF AnswerOverdue
  <2>3. ASSUME NEW n \in Requests, late(n)
        PROVE  /\ n \notin withdrawn /\ n <= Len(asked)
               /\ Len(answers'[n]) <= 1
               /\ \A i \in DOMAIN answers'[n] :
                    answers'[n][i].of = n /\ answers'[n][i].id = asked[n]
               /\ \A i \in DOMAIN inbox : ~Carries(i, n)
    <3>1. PICK s \in Overdue :
            /\ call[s].request = n
            /\ s = CHOOSE t \in Overdue : call[t].request = n
      BY <2>3
    <3>2. s \in DOMAIN call /\ call[s].pending
      BY <3>1 DEF Overdue, Pending
    <3>3. /\ n \notin withdrawn /\ n <= Len(asked) /\ answers[n] = <<>>
          /\ asked[n] = call[s].id
      BY <3>1, <3>2 DEF AnswerInv, CallsOwed
    <3> DEFINE r == [id |-> call[s].id, kind |-> "overdue", of |-> n]
               only == Append(answers[n], r)
    <3>4. answers'[n] = only
      BY <1>30, <2>3, <3>1 DEF AnswerOverdue
    <3>5. r \in Reply
      BY <1>0, <3>2 DEF Reply, Call, AnyId
    <3>6. Len(only) = 1 /\ DOMAIN only = {1} /\ only[1] = r
      <4>1. answers[n] \in Seq(Reply) /\ Len(answers[n]) = 0
        BY <3>3 DEF TypeOK
      <4>2. only \in Seq(Reply) /\ Len(only) = 1 /\ only[0 + 1] = r
        BY <3>5, <4>1, AppendProperties
      <4>3. QED
        BY <4>2, LenProperties
    <3> HIDE DEF only
    <3>7. Len(answers'[n]) = 1 /\ DOMAIN answers'[n] = {1} /\ answers'[n][1] = r
      BY <3>4, <3>6
    <3>8. \A i \in DOMAIN inbox : ~Carries(i, n)
      BY <3>1, <3>2 DEF AnswerInv, LinesOwed
    <3>9. QED
      BY <3>3, <3>7, <3>8
  <2>4. LinesOwed'
    <3>1. \A i \in DOMAIN inbox', n \in Requests : Carries(i, n)' =>
            ~late(n) /\ \A s \in DOMAIN call' : call'[s].request # n
      BY <2>1, <2>3 DEF AnswerInv, LinesOwed, Carries
    <3>2. QED
      BY <1>1, <1>7, <2>1, <2>2, <3>1
  <2>5. CallsOwed' /\ PendingIdsDiffer'
    <3>1. \A s \in DOMAIN call : call'[s].pending => ~late(call[s].request)
      BY <2>1 DEF AnswerInv, CallsOwed, Overdue, Pending
    <3>2. QED
      BY <1>0, <1>2, <2>1, <2>2, <3>1
  <2>6. AnsweredAtMostOnce' /\ RightAnswer'
    <3>1. ASSUME NEW n \in Requests
          PROVE  /\ Len(answers'[n]) <= 1
                 /\ \A i \in DOMAIN answers'[n] :
                      answers'[n][i].of = n /\ answers'[n][i].id = asked[n]
      <4>1. CASE late(n)
        BY <2>3, <4>1
      <4>2. CASE ~late(n)
        <5>1. answers'[n] = answers[n]
          BY <2>2, <4>2
        <5>2. QED
          BY <5>1 DEF AnswerInv, AnsweredAtMostOnce, RightAnswer
      <4>3. QED
        BY <4>1, <4>2
    <3>2. QED
      BY <2>1, <3>1 DEF AnsweredAtMostOnce, RightAnswer
  <2>7. WithdrawnNeverAnswered'
    <3>1. \A n \in withdrawn : n \in Requests /\ ~late(n)
      BY <2>3 DEF TypeOK
    <3>2. QED
      BY <2>1, <2>2, <3>1 DEF AnswerInv, WithdrawnNeverAnswered
  <2>8. UnaskedUntouched'
    BY <1>0, <2>1, <2>2, <2>3 DEF AnswerInv, UnaskedUntouched
  <2>9. QED
    BY <2>4, <2>5, <2>6, <2>7, <2>8 DEF AnswerInv
<1>31. QED
  BY <1>10, <1>11, <1>12, <1>13, <1>14, <1>15, <1>16, <1>17, <1>18, <1>19, <1>20,
     <1>21, <1>22, <1>25, <1>26, <1>27, <1>28, <1>29, <1>30
  DEF Next, Client, Threads, Loop, Check, Receive, Ended

LEMMA AnswersInvariant == Spec => []AnswerInv
<1>1. Init => AnswerInv
  <2> SUFFICES ASSUME Init PROVE AnswerInv
    OBVIOUS
  <2>1. inbox = <<>> /\ call = <<>> /\ DOMAIN inbox = {} /\ DOMAIN call = {}
    BY DEF Init
  <2>2. \A n \in Requests : answers[n] = <<>> /\ n \notin withdrawn
    BY DEF Init
  <2>3. \A n \in Requests : Len(answers[n]) <= 1 /\ DOMAIN answers[n] = {}
    BY <2>2
  <2>4. LinesOwed /\ CallsOwed /\ PendingIdsDiffer
    BY <2>1 DEF LinesOwed, CallsOwed, PendingIdsDiffer, Pending
  <2>5. QED
    BY <2>2, <2>3, <2>4 DEF Init, AnswerInv, UnaskedUntouched, AnsweredAtMostOnce,
       RightAnswer, WithdrawnNeverAnswered
<1>2. QED
  BY <1>1, AnswersStep, TypeCorrect, PTL DEF Spec

\* No request is answered twice, however results, deadlines and cancellations
\* race.
THEOREM AnsweredOnce == Spec => []AnsweredAtMostOnce
<1>1. AnswerInv => AnsweredAtMostOnce
  BY DEF AnswerInv
<1>2. QED
  BY <1>1, AnswersInvariant, PTL

\* A late result never answers a later request that reuses its id.
THEOREM AnswersAreRight == Spec => []RightAnswer
<1>1. AnswerInv => RightAnswer
  BY DEF AnswerInv
<1>2. QED
  BY <1>1, AnswersInvariant, PTL

\* What the client withdrew is never answered.
THEOREM WithdrawnStaysUnanswered == Spec => []WithdrawnNeverAnswered
<1>1. AnswerInv => WithdrawnNeverAnswered
  BY DEF AnswerInv
<1>2. QED
  BY <1>1, AnswersInvariant, PTL

\* A request is settled once: answered or withdrawn, and neither again, in any
\* order of results, deadlines and cancellations (mod.rs:105-139, 239-254).
THEOREM RequestsSettleOnce == Spec => []SettledOnce
<1>1. AnsweredAtMostOnce /\ WithdrawnNeverAnswered => SettledOnce
  BY DEF SettledOnce
<1>2. QED
  BY AnsweredOnce, WithdrawnStaysUnanswered, <1>1, PTL

\* A cancellation names one pending call at most.
THEOREM CancellationNamesOneCall == Spec => []PendingIdsDiffer
<1>1. AnswerInv => PendingIdsDiffer
  BY DEF AnswerInv
<1>2. QED
  BY <1>1, AnswersInvariant, PTL

-----------------------------------------------------------------------------
(***************************************************************************)
(* The session implements McpPromise.                                      *)
(***************************************************************************)
\* Nothing follows the end of the client's lines but reports of threads.
ChannelInv ==
  /\ \A i \in DOMAIN inbox : inbox[i] = Closed =>
       /\ ~reading
       /\ \A j \in DOMAIN inbox : j > i => inbox[j].tag # "line"
  /\ ~open => ~reading /\ \A i \in DOMAIN inbox : inbox[i].tag # "line"

\* A request that is owed an answer is on the channel or in a pending call, so
\* a loop with neither owes nothing.
IsOwed(n) == n <= Len(asked) /\ answers[n] = <<>> /\ n \notin withdrawn

OwedInv ==
  /\ Live => \A n \in Requests : IsOwed(n) =>
       \/ \E s \in Pending : call[s].request = n
       \/ \E i \in DOMAIN inbox : Carries(i, n)
  /\ phase = "exited" => \A n \in Requests : ~IsOwed(n)

\* A request line is no Closed event, and a Closed event is no line.
LEMMA ClosedIsNoLine == \A e : e = Closed => e.tag = "closed"
  BY DEF Closed

\* Every step preserves the order of the channel.
LEMMA ChannelStep == TypeOK /\ ChannelInv /\ [Next]_vars => ChannelInv'
<1> SUFFICES ASSUME TypeOK, ChannelInv, [Next]_vars PROVE ChannelInv'
  OBVIOUS
<1> USE SessionAssumption
<1>0. DOMAIN inbox = 1..Len(inbox) /\ Len(inbox) \in Nat
  BY LenProperties DEF TypeOK
<1>1. ASSUME UNCHANGED <<inbox, reading, open>> PROVE ChannelInv'
  BY <1>1 DEF ChannelInv
<1>2. ASSUME NEW e, inbox' = Append(inbox, e), UNCHANGED <<reading, open>>,
             e.tag = "done" \/ (e.tag = "line" /\ reading)
      PROVE  ChannelInv'
  <2>1. /\ DOMAIN inbox' = 1..(Len(inbox) + 1)
        /\ \A i \in 1..Len(inbox) : inbox'[i] = inbox[i]
        /\ inbox'[Len(inbox) + 1] = e
    BY <1>0, <1>2
  <2>2. e # Closed
    BY <1>2, ClosedIsNoLine
  <2>3. QED
    BY <1>0, <1>2, <2>1, <2>2 DEF ChannelInv
<1>3. ASSUME inbox # <<>>, inbox' = Tail(inbox), UNCHANGED <<reading, open>>
      PROVE  ChannelInv'
  <2>1. /\ DOMAIN inbox' \subseteq Nat
        /\ \A i \in DOMAIN inbox' : i + 1 \in DOMAIN inbox /\ inbox'[i] = inbox[i + 1]
    BY <1>3, AfterTake, HeadTailProperties, LenProperties DEF TypeOK
  <2>2. \A i, j \in DOMAIN inbox' : j > i => j + 1 > i + 1
    BY <2>1
  <2>3. QED
    BY <1>3, <2>1, <2>2 DEF ChannelInv
<1>4. CASE ReadEnd
  <2>1. /\ DOMAIN inbox' = 1..(Len(inbox) + 1)
        /\ \A i \in 1..Len(inbox) : inbox'[i] = inbox[i]
        /\ inbox'[Len(inbox) + 1] = Closed
    BY <1>0, <1>4 DEF ReadEnd
  <2>2. ~reading' /\ reading /\ UNCHANGED open
    BY <1>4 DEF ReadEnd
  <2>3. \A i \in 1..Len(inbox) : inbox[i] # Closed
    BY <1>0, <2>2 DEF ChannelInv
  <2>4. Closed.tag # "line"
    BY ClosedIsNoLine
  <2>5. QED
    BY <1>0, <2>1, <2>2, <2>3, <2>4 DEF ChannelInv
<1>5. CASE HandleClosed
  <2>1. /\ 1 \in DOMAIN inbox /\ inbox[1] = Closed
        /\ \A i \in DOMAIN inbox' : /\ i + 1 \in DOMAIN inbox /\ i + 1 # 1
                                   /\ inbox'[i] = inbox[i + 1]
    BY <1>5, AfterTake DEF HandleClosed
  <2>2. ~reading /\ \A j \in DOMAIN inbox : j > 1 => inbox[j].tag # "line"
    BY <2>1 DEF ChannelInv
  <2>3. \A i \in DOMAIN inbox' : inbox'[i].tag # "line"
    BY <1>0, <2>1, <2>2
  <2>4. \A i \in DOMAIN inbox' : inbox'[i] = Closed =>
          \A j \in DOMAIN inbox' : j > i => inbox'[j].tag # "line"
    BY <2>3
  <2>5. UNCHANGED reading
    BY <1>5 DEF HandleClosed, clientVars
  <2>6. QED
    BY <2>2, <2>3, <2>4, <2>5 DEF ChannelInv
<1>6. CASE Client
  <2>1. ASSUME NEW method \in Methods, NEW id \in Ids, ReadRequest(method, id)
        PROVE  ChannelInv'
    BY <1>2, <2>1 DEF ReadRequest
  <2>2. ASSUME NEW method \in Methods, NEW id \in Ids, ReadSilent(method, id)
        PROVE  ChannelInv'
    BY <1>2, <2>2 DEF ReadSilent, clientVars
  <2>3. QED
    BY <1>1, <1>4, <1>6, <2>1, <2>2 DEF Client, HangUp
<1>7. CASE Threads
  <2>1. ASSUME NEW s \in DOMAIN call, ThreadReports(s) PROVE ChannelInv'
    BY <1>2, <2>1 DEF ThreadReports, clientVars
  <2>2. QED
    BY <1>1, <1>7, <2>1 DEF Threads, ThreadReturns, clientVars
<1>8. CASE Tick \/ Check \/ RecvTimeout \/ Ended \/ UNCHANGED vars
  BY <1>1, <1>8 DEF Tick, Check, AnswerOverdue, FailOverdue, RecvTimeout, Ended,
     vars, clientVars
<1>9. CASE HandleAtOnce \/ HandleSilent \/ HandleCancelled \/ RefuseDuplicate
           \/ RefuseBusy \/ StartCall \/ HandleDone
  BY <1>3, <1>9 DEF HandleAtOnce, HandleSilent, HandleCancelled, RefuseDuplicate,
     RefuseBusy, StartCall, HandleDone, Takes, clientVars
<1>10. QED
  BY <1>5, <1>6, <1>7, <1>8, <1>9 DEF Next, Loop, Receive

\* Every step keeps what is owed on the channel or in a pending call.
LEMMA OwedStep ==
  TypeOK /\ TypeOK' /\ AnswerInv /\ ChannelInv /\ OwedInv /\ [Next]_vars => OwedInv'
<1> SUFFICES ASSUME TypeOK, TypeOK', AnswerInv, ChannelInv, OwedInv, [Next]_vars
             PROVE  OwedInv'
  OBVIOUS
<1> USE SessionAssumption
<1>0. /\ \A s \in DOMAIN call : call[s] \in Call
      /\ DOMAIN inbox = 1..Len(inbox) /\ Len(inbox) \in Nat /\ Len(asked) \in Nat
  BY LenProperties, ElementOfSeq DEF TypeOK
<1> DEFINE
  \* Somebody still holds request n.
  Held(n) == \/ \E s \in Pending : call[s].request = n
             \/ \E i \in DOMAIN inbox : Carries(i, n)
  PendingKept == \A s \in Pending : s \in Pending' /\ call'[s].request = call[s].request
  LinesKept == \A i \in DOMAIN inbox, n \in Requests :
                 Carries(i, n) => \E j \in DOMAIN inbox' : Carries(j, n)'
<1>1. ASSUME phase' = "failed" PROVE OwedInv'
  BY <1>1 DEF OwedInv, Live
<1>2. ASSUME Live, phase' # "exited",
             \A n \in Requests : IsOwed(n)' => (IsOwed(n) /\ (Held(n) => Held(n)')) \/ Held(n)'
      PROVE  OwedInv'
  BY <1>2 DEF OwedInv
<1>3. ASSUME Live, phase' # "exited", UNCHANGED <<asked, answers, withdrawn>>,
             PendingKept, LinesKept
      PROVE  OwedInv'
  BY <1>2, <1>3 DEF IsOwed
<1>4. ASSUME NEW e, inbox' = Append(inbox, e) PROVE LinesKept
  <2>1. \A i \in DOMAIN inbox : i \in DOMAIN inbox' /\ inbox'[i] = inbox[i]
    BY <1>0, <1>4
  <2>2. QED
    BY <2>1 DEF Carries
<1>5. ASSUME inbox # <<>>, inbox' = Tail(inbox), NEW i \in DOMAIN inbox,
             NEW n, Carries(i, n)
      PROVE  i = 1 \/ \E j \in DOMAIN inbox' : Carries(j, n)'
  <2>1. inbox' \in Seq(Event) /\ Len(inbox') = Len(inbox) - 1
        /\ \A j \in 1..Len(inbox') : inbox'[j] = inbox[j + 1]
    BY <1>5, HeadTailProperties DEF TypeOK
  <2>2. CASE i # 1
    <3>1. i - 1 \in DOMAIN inbox' /\ inbox'[i - 1] = inbox[(i - 1) + 1]
      BY <1>0, <2>1, <2>2, LenProperties
    <3>2. (i - 1) + 1 = i
      BY <1>0
    <3>3. Carries(i - 1, n)'
      BY <1>5, <3>1, <3>2 DEF Carries
    <3>4. QED
      BY <3>1, <3>3
  <2>3. QED
    BY <2>2
<1>6. ASSUME inbox # <<>>, inbox' = Tail(inbox),
             Head(inbox).tag # "line" \/ Head(inbox).request \notin Requests
      PROVE  LinesKept
  <2>1. inbox[1] = Head(inbox)
    BY <1>6, AfterTake
  <2>2. \A n \in Requests : ~Carries(1, n)
    BY <1>6, <2>1 DEF Carries
  <2>3. QED
    BY <1>5, <1>6, <2>2
<1>7. ASSUME UNCHANGED call PROVE PendingKept
  BY <1>7 DEF Pending
<1>8. ASSUME UNCHANGED inbox PROVE LinesKept
  BY <1>8 DEF Carries
<1>9. CASE UNCHANGED vars \/ Ended
  <2>1. UNCHANGED vars
    BY <1>9 DEF Ended
  <2>2. QED
    BY <2>1 DEF vars, OwedInv, Live, IsOwed, Pending, Carries
<1>10. ASSUME NEW method \in Methods, NEW id \in Ids, ReadRequest(method, id)
       PROVE  OwedInv'
  <2>1. /\ Live /\ UNCHANGED <<phase, answers, withdrawn, call>>
        /\ Len(asked') = Len(asked) + 1
    BY <1>10 DEF ReadRequest
  <2>2. PICK n0 \in Nat, k \in Nat : n0 = Len(asked) + 1 /\ k = Len(inbox) + 1
    BY <1>0
  <2>3. k \in DOMAIN inbox' /\ Carries(k, n0)'
    <3>1. PICK e : /\ inbox' = Append(inbox, e)
                   /\ e.tag = "line" /\ e.request = n0
      BY <1>10, <2>2 DEF ReadRequest
    <3>2. k \in DOMAIN inbox' /\ inbox'[k] = e
      BY <1>0, <2>2, <3>1
    <3>3. QED
      BY <3>1, <3>2 DEF Carries
  <2>4. PendingKept /\ LinesKept
    BY <1>4, <1>7, <1>10 DEF ReadRequest
  <2>5. ASSUME NEW n \in Requests, IsOwed(n)'
        PROVE  (IsOwed(n) /\ (Held(n) => Held(n)')) \/ Held(n)'
    <3>1. CASE n = n0
      BY <2>3, <3>1
    <3>2. CASE n # n0
      <4>1. IsOwed(n)
        BY <1>0, <2>1, <2>2, <2>5, <3>2 DEF IsOwed, Requests
      <4>2. QED
        BY <2>4, <4>1
    <3>3. QED
      BY <3>1, <3>2
  <2>6. QED
    BY <1>2, <2>1, <2>5 DEF Live
<1>11. ASSUME NEW method \in Methods, NEW id \in Ids, ReadSilent(method, id)
       PROVE  OwedInv'
  BY <1>3, <1>4, <1>7, <1>11 DEF ReadSilent, Live, clientVars
<1>12. CASE ReadEnd
  BY <1>3, <1>4, <1>7, <1>12 DEF ReadEnd, Live
<1>13. CASE HangUp
  BY <1>3, <1>7, <1>8, <1>13 DEF HangUp, Live
<1>14. ASSUME NEW s \in DOMAIN call, ThreadReturns(s) PROVE OwedInv'
  <2>1. PendingKept
    BY <1>0, <1>14 DEF ThreadReturns, Pending, Call
  <2>2. QED
    BY <1>3, <1>8, <1>14, <2>1 DEF ThreadReturns, Live, clientVars
<1>15. ASSUME NEW s \in DOMAIN call, ThreadReports(s) PROVE OwedInv'
  <2>1. PendingKept
    BY <1>0, <1>15 DEF ThreadReports, Pending, Call
  <2>2. QED
    BY <1>3, <1>4, <1>15, <2>1 DEF ThreadReports, Live, clientVars
<1>16. CASE Tick
  <2>1. PendingKept
    BY <1>0, <1>16 DEF Tick, Pending, Call
  <2>2. QED
    BY <1>3, <1>8, <1>16, <2>1 DEF Tick, Live, clientVars
<1>17. CASE RecvTimeout
  BY <1>3, <1>7, <1>8, <1>17 DEF RecvTimeout, Live, clientVars
<1>18. ASSUME NEW s \in DOMAIN call, FailOverdue(s) PROVE OwedInv'
  BY <1>1, <1>18 DEF FailOverdue
<1>19. CASE HandleSilent
  <2>1. Head(inbox).request \notin Requests
    BY <1>19, TypeOfLines DEF HandleSilent, Takes, Line, Requests
  <2>2. QED
    BY <1>3, <1>6, <1>7, <1>19, <2>1 DEF HandleSilent, Takes, Live, clientVars
<1>20. CASE HandleClosed
  <2>1. Head(inbox).tag # "line"
    BY <1>20, ClosedIsNoLine DEF HandleClosed
  <2>2. QED
    BY <1>3, <1>6, <1>7, <1>20, <2>1 DEF HandleClosed, Live, clientVars
<1>21. ASSUME inbox # <<>>, inbox' = Tail(inbox), Live,
              NEW n \in Requests, NEW r, Send(n, r),
              Head(inbox).tag = "line" => Head(inbox).request = n,
              UNCHANGED <<asked, withdrawn>>,
              \A s \in Pending : call[s].request = n
                \/ (s \in Pending' /\ call'[s].request = call[s].request)
       PROVE  OwedInv'
  <2>1. CASE phase' = "failed"
    BY <1>1, <2>1
  <2>2. CASE phase' # "failed"
    <3>1. phase' = "check" /\ answers' = [answers EXCEPT ![n] = Append(@, r)]
      BY <1>21, <2>2 DEF Send
    <3>2. answers'[n] # <<>>
      <4>1. Append(answers[n], r) # <<>>
        <5>1. answers[n] \in Seq(Reply \cup {r})
          BY SeqMonotonic DEF TypeOK
        <5>2. QED
          BY <5>1, AppendProperties
      <4>2. QED
        BY <3>1, <4>1 DEF TypeOK
    <3>3. \A m \in Requests : m # n => answers'[m] = answers[m]
      BY <3>1 DEF TypeOK
    <3>4. ASSUME NEW m \in Requests, IsOwed(m)' PROVE IsOwed(m) /\ (Held(m) => Held(m)')
      <4>1. m # n /\ IsOwed(m)
        BY <1>21, <3>2, <3>3, <3>4 DEF IsOwed
      <4>2. ~Carries(1, m)
        <5>1. inbox[1] = Head(inbox)
          BY <1>21, AfterTake
        <5>2. QED
          BY <1>21, <4>1, <5>1 DEF Carries
      <4>3. QED
        BY <1>5, <1>21, <4>1, <4>2
    <3>5. QED
      BY <1>2, <1>21, <3>1, <3>4
  <2>3. QED
    BY <2>1, <2>2
<1>22. ASSUME NEW kinds, Takes(kinds), kinds \cap Silent = {}, NEW r,
              Send(Head(inbox).request, r), UNCHANGED <<call, asked, withdrawn>>
       PROVE  OwedInv'
  <2>1. Head(inbox).request \in Requests
    BY <1>22, TypeOfLines DEF Takes, Line
  <2>2. PICK n \in Requests : n = Head(inbox).request
    BY <2>1
  <2>3. PendingKept /\ inbox # <<>> /\ inbox' = Tail(inbox) /\ Live /\ Send(n, r)
    BY <1>7, <1>22, <2>2 DEF Takes, Live
  <2>4. QED
    BY <1>21, <1>22, <2>2, <2>3
<1>23. CASE HandleAtOnce
  <2>1. PICK r : Send(Head(inbox).request, r)
    BY <1>23 DEF HandleAtOnce
  <2>2. QED
    BY <1>22, <1>23, <2>1 DEF HandleAtOnce, AtOnce, Anonymous, Silent, clientVars
<1>24. CASE RefuseDuplicate
  <2>1. PICK r : Send(Head(inbox).request, r)
    BY <1>24 DEF RefuseDuplicate
  <2>2. QED
    BY <1>22, <1>24, <2>1 DEF RefuseDuplicate, Silent, clientVars
<1>25. CASE RefuseBusy
  <2>1. PICK r : Send(Head(inbox).request, r)
    BY <1>25 DEF RefuseBusy
  <2>2. QED
    BY <1>22, <1>25, <2>1 DEF RefuseBusy, Silent, clientVars
<1>26. CASE StartCall
  <2>1. /\ Head(inbox) \in Line /\ Head(inbox).method = "tools/call"
        /\ inbox # <<>> /\ inbox' = Tail(inbox)
        /\ UNCHANGED <<asked, answers, withdrawn>> /\ phase' = "check" /\ Live
    BY <1>26, TypeOfLines DEF StartCall, Takes, Live, clientVars
  <2>2. Head(inbox).request \in Requests /\ Head(inbox).id \in Ids
        /\ inbox[1] = Head(inbox)
    BY <2>1, AfterTake DEF Line, Anonymous, Silent
  <2>3. PICK n \in Requests, new \in Call, c \in Nat :
          /\ n = Head(inbox).request /\ new.request = n /\ new.pending
          /\ call' = Append(call, new) /\ c = Len(call) + 1
    <3> DEFINE new == [request |-> Head(inbox).request, id |-> Head(inbox).id,
                       left |-> Patience, pending |-> TRUE,
                       cancelled |-> FALSE, thread |-> "running"]
    <3>1. new \in Call /\ call' = Append(call, new)
      BY <1>26, <2>2 DEF StartCall, Call
    <3>2. new.request = Head(inbox).request /\ new.pending
      OBVIOUS
    <3>3. Len(call) + 1 \in Nat
      BY LenProperties DEF TypeOK
    <3>4. QED
      BY <2>2, <3>1, <3>2, <3>3
  <2>4. /\ DOMAIN call' = DOMAIN call \cup {c}
        /\ \A s \in DOMAIN call : call'[s] = call[s]
        /\ call'[c] = new
    BY <2>3, StartedCall DEF TypeOK
  <2>5. PendingKept /\ c \in Pending' /\ call'[c].request = n
    BY <2>3, <2>4 DEF Pending
  <2>6. ASSUME NEW m \in Requests, Held(m) PROVE Held(m)'
    <3>1. CASE m = n
      BY <2>5, <3>1
    <3>2. CASE m # n
      <4>1. ~Carries(1, m)
        BY <2>2, <2>3, <3>2 DEF Carries
      <4>2. QED
        BY <1>5, <2>1, <2>5, <2>6, <4>1
    <3>3. QED
      BY <3>1, <3>2
  <2>7. QED
    BY <1>2, <2>1, <2>6 DEF IsOwed
<1>27. ASSUME NEW S, NEW C, call' = Settled(S, C)
       PROVE  \A s \in Pending : s \in S \/ (s \in Pending' /\ call'[s].request = call[s].request)
  <2>1. /\ DOMAIN call' = DOMAIN call
        /\ \A s \in DOMAIN call : call'[s].request = call[s].request
    BY <1>27, SettledCalls DEF TypeOK
  <2>2. \A s \in DOMAIN call : call'[s].pending = (call[s].pending /\ s \notin S)
    BY <1>27, SettledCalls DEF TypeOK
  <2>3. \A s \in DOMAIN call : call[s].pending => s \in S \/ call'[s].pending
    BY <2>2
  <2>4. QED
    BY <2>1, <2>3 DEF Pending
<1>28. CASE HandleCancelled
  <2>1. /\ inbox # <<>> /\ inbox' = Tail(inbox) /\ Live /\ phase' = "check"
        /\ UNCHANGED <<asked, answers>>
    BY <1>28 DEF HandleCancelled, Takes, Live, clientVars
  <2>2. LinesKept
    <3>1. Head(inbox) \in Line /\ Head(inbox).method = "notifications/cancelled"
      BY <1>28, TypeOfLines DEF HandleCancelled, Takes
    <3>2. Head(inbox).request \notin Requests
      BY <3>1 DEF Line, Silent, Requests
    <3>3. QED
      BY <1>6, <2>1, <3>2
  <2>3. CASE UNCHANGED <<call, withdrawn>>
    BY <1>3, <1>7, <2>1, <2>2, <2>3
  <2>4. ASSUME NEW s \in Pending, call' = Settled({s}, {s}),
               withdrawn' = withdrawn \cup {call[s].request}
        PROVE  OwedInv'
    <3>1. \A t \in Pending : t = s \/ (t \in Pending' /\ call'[t].request = call[t].request)
      <4>1. \A t \in Pending : t \in {s} \/ (t \in Pending' /\ call'[t].request = call[t].request)
        BY <1>27, <2>4
      <4>2. QED
        BY <4>1
    <3>2. ASSUME NEW m \in Requests, IsOwed(m)' PROVE IsOwed(m) /\ (Held(m) => Held(m)')
      <4>1. IsOwed(m) /\ m # call[s].request
        BY <2>1, <2>4, <3>2 DEF IsOwed
      <4>2. QED
        BY <2>2, <3>1, <4>1
    <3>3. QED
      BY <1>2, <2>1, <3>2
  <2>5. QED
    BY <1>28, <2>3, <2>4 DEF HandleCancelled
<1>29. CASE HandleDone
  <2>1. /\ inbox # <<>> /\ inbox' = Tail(inbox) /\ Live /\ Head(inbox).tag = "done"
        /\ UNCHANGED <<asked, withdrawn>>
    BY <1>29 DEF HandleDone, Live, clientVars
  <2>2. CASE UNCHANGED <<call, answers>> /\ phase' = "check"
    <3>1. LinesKept
      BY <1>6, <2>1
    <3>2. QED
      BY <1>3, <1>7, <2>1, <2>2, <3>1
  <2>3. ASSUME NEW s \in AnsweredBy(Head(inbox).seq), call' = Settled({s}, {}),
               NEW r, Send(call[s].request, r)
        PROVE  OwedInv'
    <3>1. s \in Pending /\ call[s].request \in Requests
      BY <1>0, <2>3 DEF AnsweredBy, Pending, Call
    <3>2. PICK n \in Requests : n = call[s].request
      BY <3>1
    <3>3. \A t \in Pending : t = s \/ (t \in Pending' /\ call'[t].request = call[t].request)
      <4>1. \A t \in Pending : t \in {s} \/ (t \in Pending' /\ call'[t].request = call[t].request)
        BY <1>27, <2>3
      <4>2. QED
        BY <4>1
    <3>4. QED
      BY <1>21, <2>1, <2>3, <3>2, <3>3
  <2>4. QED
    BY <1>29, <2>2, <2>3 DEF HandleDone
<1>30. CASE AnswerOverdue
  <2>1. /\ phase = "check" /\ call' = Settled(Overdue, Overdue)
        /\ phase' = AfterCheck(Pending \ Overdue)
        /\ UNCHANGED <<inbox, asked, withdrawn>>
    BY <1>30 DEF AnswerOverdue, clientVars
  <2>2. ASSUME NEW m \in Requests, IsOwed(m)'
        PROVE  IsOwed(m) /\ \A s \in Overdue : call[s].request # m
    <3>1. CASE \E s \in Overdue : call[s].request = m
      <4>1. PICK r : answers'[m] = Append(answers[m], r)
        BY <1>30, <3>1 DEF AnswerOverdue
      <4>2. answers[m] \in Seq(Reply \cup {r})
        BY SeqMonotonic DEF TypeOK
      <4>3. Append(answers[m], r) # <<>>
        BY <4>2, AppendProperties
      <4>4. answers'[m] # <<>>
        BY <4>1, <4>3
      <4>5. QED
        BY <2>2, <4>4 DEF IsOwed
    <3>2. CASE ~ \E s \in Overdue : call[s].request = m
      <4>1. answers'[m] = answers[m]
        BY <1>30, <3>2 DEF AnswerOverdue
      <4>2. QED
        BY <2>1, <2>2, <3>2, <4>1 DEF IsOwed
    <3>3. QED
      BY <3>1, <3>2
  <2>3. \A s \in Pending : s \in Overdue \/ (s \in Pending' /\ call'[s].request = call[s].request)
    BY <1>27, <2>1
  <2>4. LinesKept
    BY <1>8, <2>1
  <2>5. CASE phase' # "exited"
    BY <1>2, <2>1, <2>2, <2>3, <2>4, <2>5 DEF Live
  <2>6. CASE phase' = "exited"
    <3>1. ~open /\ Pending \ Overdue = {}
      BY <2>1, <2>6 DEF AfterCheck
    <3>2. \A i \in DOMAIN inbox, n \in Requests : ~Carries(i, n)
      BY <3>1 DEF ChannelInv, Carries
    <3>3. \A n \in Requests : ~IsOwed(n)'
      BY <2>1, <2>2, <3>1, <3>2 DEF OwedInv, Live
    <3>4. QED
      BY <2>6, <3>3 DEF OwedInv, Live
  <2>7. QED
    BY <2>5, <2>6
<1>31. QED
  BY <1>9, <1>10, <1>11, <1>12, <1>13, <1>14, <1>15, <1>16, <1>17, <1>18, <1>19,
     <1>20, <1>23, <1>24, <1>25, <1>26, <1>28, <1>29, <1>30
  DEF Next, Client, Threads, Loop, Check, Receive

-----------------------------------------------------------------------------
\* The initial state of the loop maps to that of the promise.
LEMMA InitRefines == Init => Promise!Init
<1> SUFFICES ASSUME Init PROVE Promise!Init
  OBVIOUS
<1>1. \A n \in Requests : StatusOf(n) = "unsent"
  BY SessionAssumption DEF Init, StatusOf, Requests
<1>2. SessionNow = "asking"
  BY DEF Init, SessionNow
<1>3. QED
  BY <1>1, <1>2 DEF Promise!Init, Promise!Requests, Requests

\* Every step of the loop maps to a step of the promise, or to none.
LEMMA StepRefines ==
  TypeOK /\ TypeOK' /\ AnswerInv /\ ChannelInv /\ OwedInv /\ OwedInv' /\ [Next]_vars
    => [Promise!Next]_Promise!vars
<1> SUFFICES ASSUME TypeOK, TypeOK', AnswerInv, ChannelInv, OwedInv, OwedInv',
                    [Next]_vars
             PROVE  [Promise!Next]_Promise!vars
  OBVIOUS
<1> USE SessionAssumption DEF Promise!Requests
<1>0. /\ \A s \in DOMAIN call : call[s] \in Call /\ call[s].request \in Requests
      /\ \A n \in Requests : n \in Nat
      /\ Len(asked) \in Nat
  <2>1. \A s \in DOMAIN call : call[s] \in Call
    BY ElementOfSeq, LenProperties DEF TypeOK
  <2>2. QED
    BY <2>1, LenProperties DEF TypeOK, Call, Requests
<1> DEFINE st == [n \in Requests |-> StatusOf(n)]
<1>1. \A n \in Requests : st[n] = "owed" <=> IsOwed(n)
  BY <1>0 DEF StatusOf, IsOwed
<1>2. ASSUME UNCHANGED <<asked, answers, withdrawn>> PROVE st' = st
  BY <1>2 DEF StatusOf
<1>3. ASSUME st' = st, SessionNow' = SessionNow
      PROVE  [Promise!Next]_Promise!vars
  BY <1>3 DEF Promise!vars, Requests
<1>4. ASSUME UNCHANGED <<asked, answers, withdrawn, reading>>,
             phase \in {"check", "recv"}, phase' \in {"check", "recv"}
      PROVE  [Promise!Next]_Promise!vars
  <2>1. SessionNow' = SessionNow
    BY <1>4 DEF SessionNow
  <2>2. QED
    BY <1>2, <1>3, <1>4, <2>1
<1>5. ASSUME UNCHANGED <<asked, answers, withdrawn>>, Live, phase' = "failed"
      PROVE  Promise!Break
  <2>1. SessionNow' = "broken" /\ SessionNow \in {"asking", "closed"}
    BY <1>5 DEF SessionNow, Live
  <2>2. st' = st
    BY <1>2, <1>5
  <2>3. QED
    BY <2>1, <2>2 DEF Promise!Break, Promise!Going, Requests
<1>6. ASSUME NEW n \in Requests, IsOwed(n), Live, UNCHANGED <<asked, withdrawn, reading>>,
             NEW r \in Reply, Send(n, r)
      PROVE  Promise!Next
  <2>1. CASE ~listening
    BY <1>5, <1>6, <2>1 DEF Send, Promise!Next
  <2>2. CASE listening
    <3>1. /\ answers'[n] # <<>> /\ phase' = "check"
          /\ \A m \in Requests : m # n => answers'[m] = answers[m]
      <4>1. answers' = [answers EXCEPT ![n] = Append(@, r)] /\ phase' = "check"
        BY <1>6, <2>2 DEF Send
      <4>2. answers[n] \in Seq(Reply)
        BY DEF TypeOK
      <4>3. Append(answers[n], r) # <<>>
        BY <4>2, AppendProperties
      <4>4. QED
        BY <4>1, <4>3 DEF TypeOK
    <3>2. SessionNow' = SessionNow /\ SessionNow \in {"asking", "closed"}
      BY <1>6, <3>1 DEF SessionNow, Live
    <3>3. st'[n] = "answered" /\ st[n] = "owed"
      BY <1>0, <1>1, <1>6, <3>1 DEF StatusOf, IsOwed
    <3>4. \A m \in Requests : m # n => st'[m] = st[m]
      BY <1>6, <3>1 DEF StatusOf
    <3>5. Promise!Answer({n})
      BY <3>2, <3>3, <3>4 DEF Promise!Answer, Promise!Going, Promise!Owed, Requests
    <3>6. QED
      BY <3>5 DEF Promise!Next, Requests
  <2>3. QED
    BY <2>1, <2>2 DEF Send
<1>7. ASSUME NEW method \in Methods, NEW id \in Ids, ReadRequest(method, id)
      PROVE  Promise!Next
  <2>1. PICK n \in Requests : n = Len(asked) + 1
    BY <1>0, <1>7 DEF ReadRequest, Requests
  <2>2. /\ Len(asked') = n /\ UNCHANGED <<answers, withdrawn, reading, phase>>
        /\ Live /\ reading
    BY <1>7, <2>1 DEF ReadRequest
  <2>3. answers[n] = <<>> /\ n \notin withdrawn
    BY <1>0, <2>1 DEF AnswerInv, UnaskedUntouched
  <2>4. SessionNow = "asking" /\ SessionNow' = SessionNow
    BY <2>2 DEF SessionNow, Live
  <2>5. st[n] = "unsent" /\ st'[n] = "owed"
    BY <1>0, <2>1, <2>2, <2>3 DEF StatusOf
  <2>6. \A m \in Requests : m # n => st'[m] = st[m]
    BY <1>0, <2>1, <2>2 DEF StatusOf
  <2>7. \A m \in Requests : m < n => st[m] # "unsent"
    BY <1>0, <2>1 DEF StatusOf
  <2>8. Promise!Ask(n)
    BY <2>4, <2>5, <2>6, <2>7 DEF Promise!Ask, Requests
  <2>9. QED
    BY <2>8 DEF Promise!Next, Requests
<1>8. CASE ReadEnd
  <2>1. SessionNow = "asking" /\ SessionNow' = "closed"
    BY <1>8 DEF ReadEnd, SessionNow, Live
  <2>2. st' = st
    BY <1>2, <1>8 DEF ReadEnd
  <2>3. Promise!Close
    BY <2>1, <2>2 DEF Promise!Close, Requests
  <2>4. QED
    BY <2>3 DEF Promise!Next
<1>9. ASSUME NEW kinds, Takes(kinds), kinds \cap Silent = {},
             NEW kind \in {"busy", "direct"},
             Send(Head(inbox).request, [id |-> Head(inbox).id, kind |-> kind,
                                        of |-> Head(inbox).request]),
             UNCHANGED <<asked, withdrawn, reading>>
      PROVE  Promise!Next
  <2>1. /\ Head(inbox) \in Line /\ Head(inbox).method \in kinds /\ Live
        /\ inbox # <<>> /\ inbox' = Tail(inbox)
    BY <1>9, TypeOfLines DEF Takes, Live
  <2>2. /\ Head(inbox).request \in Requests /\ Head(inbox).id \in AnyId
        /\ Head(inbox).tag = "line"
    BY <1>9, <2>1 DEF Line
  <2>3. PICK n \in Requests, r \in Reply : n = Head(inbox).request /\ Send(n, r)
    BY <1>9, <2>2 DEF Reply
  <2>4. IsOwed(n)
    <3>1. 1 \in DOMAIN inbox /\ Carries(1, n)
      BY <2>1, <2>2, <2>3, AfterTake DEF Carries
    <3>2. QED
      BY <3>1 DEF AnswerInv, LinesOwed, IsOwed
  <2>5. QED
    BY <1>6, <1>9, <2>1, <2>3, <2>4
<1>10. CASE HandleAtOnce
  BY <1>9, <1>10 DEF HandleAtOnce, AtOnce, Anonymous, Silent, clientVars
<1>11. CASE RefuseDuplicate
  BY <1>9, <1>11 DEF RefuseDuplicate, Silent, clientVars
<1>12. CASE RefuseBusy
  BY <1>9, <1>12 DEF RefuseBusy, Silent, clientVars
<1>13. CASE HandleCancelled
  <2>1. /\ phase = "recv" /\ phase' = "check" /\ UNCHANGED <<asked, answers, reading>>
    BY <1>13 DEF HandleCancelled, Takes, clientVars
  <2>2. CASE UNCHANGED withdrawn
    BY <1>4, <2>1, <2>2
  <2>3. ASSUME NEW s \in Pending, withdrawn' = withdrawn \cup {call[s].request}
        PROVE  Promise!Next
    <3>1. PICK n \in Requests : n = call[s].request
      BY <1>0 DEF Pending
    <3>2. IsOwed(n)
      BY <3>1 DEF AnswerInv, CallsOwed, Pending, IsOwed
    <3>3. st[n] = "owed" /\ st'[n] = "withdrawn"
      BY <1>0, <1>1, <2>1, <2>3, <3>1, <3>2 DEF StatusOf, IsOwed
    <3>4. \A m \in Requests : m # n => st'[m] = st[m]
      BY <2>1, <2>3, <3>1 DEF StatusOf
    <3>5. SessionNow' = SessionNow /\ SessionNow \in {"asking", "closed"}
      BY <2>1 DEF SessionNow
    <3>6. Promise!Withdraw(n)
      BY <3>3, <3>4, <3>5 DEF Promise!Withdraw, Promise!Going, Promise!Owed, Requests
    <3>7. QED
      BY <3>6 DEF Promise!Next, Requests
  <2>4. QED
    BY <1>13, <2>2, <2>3 DEF HandleCancelled
<1>14. CASE HandleDone
  <2>1. phase = "recv" /\ UNCHANGED <<asked, withdrawn, reading>> /\ Live
    BY <1>14 DEF HandleDone, clientVars, Live
  <2>2. CASE phase' = "check" /\ UNCHANGED answers
    BY <1>4, <2>1, <2>2
  <2>3. ASSUME NEW s \in AnsweredBy(Head(inbox).seq),
               Send(call[s].request, [id |-> call[s].id, kind |-> "result",
                                      of |-> call[Head(inbox).seq].request])
        PROVE  Promise!Next
    <3>1. s \in DOMAIN call /\ call[s].pending /\ s = Head(inbox).seq
      BY <2>3 DEF AnsweredBy, Pending
    <3>2. PICK n \in Requests, r \in Reply : n = call[s].request /\ Send(n, r)
      BY <1>0, <2>3, <3>1 DEF Reply, Call, AnyId
    <3>3. IsOwed(n)
      BY <3>1, <3>2 DEF AnswerInv, CallsOwed, IsOwed
    <3>4. QED
      BY <1>6, <2>1, <3>2, <3>3
  <2>4. QED
    BY <1>14, <2>2, <2>3 DEF HandleDone
<1>15. CASE AnswerOverdue
  <2> DEFINE late == {n \in Requests : \E s \in Overdue : call[s].request = n}
  <2>1. /\ phase = "check" /\ phase' = AfterCheck(Pending \ Overdue)
        /\ UNCHANGED <<inbox, asked, withdrawn, reading>>
    BY <1>15 DEF AnswerOverdue, clientVars
  <2>2. ASSUME NEW n \in late PROVE st[n] = "owed" /\ st'[n] = "answered"
    <3>1. IsOwed(n)
      BY <2>2 DEF Overdue, Pending, AnswerInv, CallsOwed, IsOwed
    <3>2. PICK r : answers'[n] = Append(answers[n], r)
      BY <1>15, <2>2 DEF AnswerOverdue
    <3>3. answers[n] \in Seq(Reply \cup {r})
      BY <2>2, SeqMonotonic DEF TypeOK
    <3>4. Append(answers[n], r) # <<>>
      BY <3>3, AppendProperties
    <3>5. answers'[n] # <<>>
      BY <3>2, <3>4
    <3>6. QED
      BY <1>0, <1>1, <2>1, <3>1, <3>5 DEF StatusOf, IsOwed
  <2>3. ASSUME NEW n \in Requests, n \notin late PROVE st'[n] = st[n]
    <3>1. answers'[n] = answers[n]
      BY <1>15, <2>3 DEF AnswerOverdue
    <3>2. QED
      BY <2>1, <3>1 DEF StatusOf
  <2>4. st' = [n \in Requests |-> IF n \in late THEN "answered" ELSE st[n]]
    BY <2>2, <2>3
  <2>5. late \subseteq {n \in Requests : st[n] = "owed"}
    BY <2>2
  <2>6. SessionNow \in {"asking", "closed"}
    BY <2>1 DEF SessionNow
  <2>7. CASE phase' = "recv"
    <3>1. SessionNow' = SessionNow
      BY <2>1, <2>7 DEF SessionNow
    <3>2. Promise!Answer(late)
      BY <2>4, <2>5, <2>6, <3>1 DEF Promise!Answer, Promise!Going, Promise!Owed, Requests
    <3>3. QED
      BY <3>2 DEF Promise!Next, Requests
  <2>8. CASE phase' = "exited"
    <3>1. ~open
      BY <2>1, <2>8 DEF AfterCheck
    <3>2. SessionNow' = "over" /\ SessionNow = "closed"
      BY <2>1, <2>8, <3>1 DEF SessionNow, ChannelInv
    <3>3. \A n \in Requests : ~IsOwed(n)'
      BY <2>8 DEF OwedInv
    <3>4. \A n \in Requests : st[n] = "owed" => n \in late
      BY <1>1, <2>1, <3>3, <2>3 DEF StatusOf, IsOwed
    <3>5. late = {n \in Requests : st[n] = "owed"}
      BY <2>5, <3>4
    <3>6. Promise!Answer(late)
      BY <2>4, <2>5, <3>2, <3>5 DEF Promise!Answer, Promise!Going, Promise!Owed, Requests
    <3>7. QED
      BY <3>6 DEF Promise!Next, Requests
  <2>9. QED
    BY <2>1, <2>7, <2>8 DEF AfterCheck
<1>16. ASSUME NEW s \in DOMAIN call, FailOverdue(s) PROVE Promise!Next
  BY <1>5, <1>16 DEF FailOverdue, Live, clientVars, Promise!Next
<1>17. CASE UNCHANGED vars \/ Ended
  <2>1. UNCHANGED vars
    BY <1>17 DEF Ended
  <2>2. st' = st /\ SessionNow' = SessionNow
    BY <1>2, <2>1 DEF vars, SessionNow
  <2>3. QED
    BY <1>3, <2>2
<1>18. ASSUME Tick \/ RecvTimeout \/ HangUp \/ HandleSilent \/ HandleClosed \/ StartCall
              \/ (\E method \in Methods, id \in Ids : ReadSilent(method, id)) \/ Threads
       PROVE  [Promise!Next]_Promise!vars
  BY <1>4, <1>18 DEF Tick, RecvTimeout, HangUp, HandleSilent, HandleClosed, StartCall,
     ReadSilent, Threads, ThreadReturns, ThreadReports, Takes, Live, clientVars
<1>19. QED
  BY <1>7, <1>8, <1>10, <1>11, <1>12, <1>13, <1>14, <1>15, <1>16, <1>17, <1>18
  DEF Next, Client, Loop, Check, Receive

LEMMA OwedInvariant == Spec => [](ChannelInv /\ OwedInv)
<1>1. Init => ChannelInv /\ OwedInv
  BY SessionAssumption DEF Init, ChannelInv, OwedInv, IsOwed, Requests
<1>2. QED
  BY <1>1, ChannelStep, OwedStep, TypeCorrect, AnswersInvariant, PTL DEF Spec

\* The session ends by itself only when every request is answered or withdrawn.
THEOREM NothingIsOwedAtExit == Spec => []NothingOwedAtExit
<1>1. TypeOK /\ OwedInv /\ Len(asked) <= MaxRequests => NothingOwedAtExit
  <2> SUFFICES ASSUME TypeOK, OwedInv, Len(asked) <= MaxRequests, phase = "exited",
                      NEW n \in 1..Len(asked)
               PROVE  answers[n] # <<>> \/ n \in withdrawn
    BY DEF NothingOwedAtExit
  <2>1. n \in Requests /\ n <= Len(asked)
    BY SessionAssumption, LenProperties DEF TypeOK, Requests
  <2>2. QED
    BY <2>1 DEF OwedInv, IsOwed
<1>2. Init => Len(asked) <= MaxRequests
  BY SessionAssumption DEF Init
<1>3. TypeOK /\ Len(asked) <= MaxRequests /\ [Next]_vars => (Len(asked) <= MaxRequests)'
  <2> SUFFICES ASSUME TypeOK, Len(asked) <= MaxRequests, [Next]_vars
               PROVE  Len(asked') <= MaxRequests
    OBVIOUS
  <2>1. UNCHANGED asked \/ \E method \in Methods, id \in Ids : ReadRequest(method, id)
    BY DEF Next, Client, ReadSilent, ReadEnd, HangUp, Threads, ThreadReturns,
       ThreadReports, Tick, Loop, Check, AnswerOverdue, FailOverdue, Receive,
       RecvTimeout, HandleAtOnce, HandleSilent, HandleCancelled, RefuseDuplicate,
       RefuseBusy, StartCall, HandleClosed, HandleDone, Ended, clientVars, vars
  <2>2. ASSUME NEW method \in Methods, NEW id \in Ids, ReadRequest(method, id)
        PROVE  Len(asked') <= MaxRequests
    <3>1. Len(asked) \in Nat /\ Len(asked') = Len(asked) + 1 /\ Len(asked) < MaxRequests
      BY <2>2, LenProperties DEF ReadRequest, TypeOK
    <3>2. QED
      BY <3>1, SessionAssumption
  <2>3. QED
    BY <2>1, <2>2
<1>4. QED
  BY <1>1, <1>2, <1>3, TypeCorrect, OwedInvariant, PTL DEF Spec

\* The session loop implements its promise.
THEOREM SessionKeepsPromise == Spec => KeepsPromise
<1>1. QED
  BY InitRefines, StepRefines, TypeCorrect, AnswersInvariant, OwedInvariant, PTL
  DEF Spec, KeepsPromise, Promise!Spec

-----------------------------------------------------------------------------
(* The tools.                                                             *)

\* A set of naturals has a least element.
LEMMA LeastNatural ==
  ASSUME NEW T \in SUBSET Nat, T # {}
  PROVE  \E n \in T : \A k \in T : n <= k
<1>1. \E n \in T : \A k \in T : ~(<<k, n>> \in OpToRel(<, Nat))
  <2> T \subseteq Nat
    OBVIOUS
  <2> QED BY NatLessThanWellFounded, WFMin, Zenon
<1>2. ASSUME NEW k \in Nat, NEW n \in Nat, k < n PROVE <<k, n>> \in OpToRel(<, Nat)
  BY <1>2, Zenon DEF OpToRel
<1>3. \E n \in T : \A k \in T : ~(k < n)
  BY <1>1, <1>2, Zenon
<1> QED BY <1>3

\* The sums of the first of some sizes are built up one size at a time, since
\* sums of fewer can always be continued.
LEMMA TotalIs ==
  ASSUME NEW sizes \in Seq(Nat)
  PROVE  /\ Total(sizes) \in Nat
         /\ Len(sizes) = 0 => Total(sizes) = 0
         /\ Len(sizes) = 1 => Total(sizes) = sizes[1]
<1> DEFINE D == 0..Len(sizes)
           sums(f, m) == f \in [0..m -> Nat] /\ \A n \in 0..m : f[n] = IF n = 0 THEN 0 ELSE f[n - 1] + sizes[n]
           missing == {m \in D : ~\E f : sums(f, m)}
<1>1. \A m \in D : \E f : sums(f, m)
  <2> SUFFICES ASSUME missing # {} PROVE FALSE
    OBVIOUS
  <2>1. missing \in SUBSET Nat
    OBVIOUS
  <2> HIDE DEF missing
  <2>2. PICK m \in missing : \A k \in missing : m <= k
    BY <2>1, LeastNatural
  <2>3. m \in D /\ ~\E f : sums(f, m)
    BY <2>2 DEF missing
  <2>4. CASE m = 0
    <3> DEFINE f == [n \in 0..0 |-> 0]
    <3>1. sums(f, 0)
      OBVIOUS
    <3>2. QED
      BY <2>3, <2>4, <3>1
  <2>5. CASE m # 0
    <3>1. m - 1 \in D /\ m - 1 \notin missing
      BY <2>1, <2>2, <2>3, <2>5
    <3>2. PICK g : sums(g, m - 1)
      BY <3>1 DEF missing
    <3> DEFINE f == [n \in 0..m |-> IF n = m THEN g[m - 1] + sizes[m] ELSE g[n]]
    <3>3. g[m - 1] \in Nat /\ sizes[m] \in Nat
      BY <2>3, <2>5, <3>2
    <3>4. f \in [0..m -> Nat]
      BY <2>3, <2>5, <3>2, <3>3
    <3>5. \A n \in 0..m : f[n] = IF n = 0 THEN 0 ELSE f[n - 1] + sizes[n]
      BY <2>3, <2>5, <3>2, <3>3
    <3>6. QED
      BY <2>3, <3>4, <3>5
  <2>6. QED
    BY <2>4, <2>5
<1>2. Len(sizes) \in D
  OBVIOUS
<1>3. PICK g : sums(g, Len(sizes))
  <2> HIDE DEF sums
  <2>1. QED
    BY <1>1, <1>2
<1> DEFINE sum == CHOOSE f : f = [n \in D |-> IF n = 0 THEN 0 ELSE f[n - 1] + sizes[n]]
<1>4. g = [n \in D |-> IF n = 0 THEN 0 ELSE g[n - 1] + sizes[n]]
  BY <1>3
<1>5. sum = [n \in D |-> IF n = 0 THEN 0 ELSE sum[n - 1] + sizes[n]]
  BY <1>4
<1>6. Total(sizes) = sum[Len(sizes)]
  BY DEF Total
<1> HIDE DEF sum
<1>7. \A n \in D : sum[n] = IF n = 0 THEN 0 ELSE sum[n - 1] + sizes[n]
  BY <1>5
<1> DEFINE strange == {n \in D : sum[n] \notin Nat}
<1>8. \A n \in D : sum[n] \in Nat
  <2> SUFFICES ASSUME strange # {} PROVE FALSE
    OBVIOUS
  <2>1. strange \in SUBSET Nat
    OBVIOUS
  <2> HIDE DEF strange
  <2>2. PICK m \in strange : \A k \in strange : m <= k
    BY <2>1, LeastNatural
  <2>3. m \in D /\ sum[m] \notin Nat
    BY <2>2 DEF strange
  <2>4. m # 0
    BY <1>7, <2>3
  <2>5. m - 1 \in D /\ m - 1 \notin strange
    BY <2>1, <2>2, <2>3, <2>4
  <2>6. sum[m - 1] \in Nat /\ sizes[m] \in Nat
    BY <2>3, <2>4, <2>5 DEF strange
  <2>7. QED
    BY <1>7, <2>3, <2>4, <2>6
<1>9. Len(sizes) = 1 => sum[0] = 0 /\ sum[1] = sum[0] + sizes[1] /\ sizes[1] \in Nat
  <2> SUFFICES ASSUME Len(sizes) = 1 PROVE sum[0] = 0 /\ sum[1] = sum[0] + sizes[1] /\ sizes[1] \in Nat
    OBVIOUS
  <2>1. 0 \in D /\ 1 \in D
    OBVIOUS
  <2>2. sizes[1] \in Nat
    <3> HIDE DEF D, strange, sums
    <3>1. 1 \in 1..Len(sizes)
      OBVIOUS
    <3>2. QED
      BY <3>1, ElementOfSeq, Zenon
  <2> HIDE DEF D
  <2>3. sum[0] = 0 /\ sum[1] = sum[1 - 1] + sizes[1]
    BY <1>7, <2>1
  <2>4. QED
    BY <2>2, <2>3
<1>10. QED
  BY <1>2, <1>6, <1>7, <1>8, <1>9

\* A stretch of a sequence, which may be empty.
LEMMA StretchIs ==
  ASSUME NEW S, NEW s \in Seq(S), NEW m \in Nat \ {0}, NEW n \in Nat, n <= Len(s)
  PROVE  /\ SubSeq(s, m, n) \in Seq(S)
         /\ Len(SubSeq(s, m, n)) = IF m <= n THEN n - m + 1 ELSE 0
         /\ \A i \in 1..Len(SubSeq(s, m, n)) : SubSeq(s, m, n)[i] = s[m + i - 1]
<1>1. CASE m <= n
  BY <1>1
<1>2. CASE ~(m <= n)
  <2>1. SubSeq(s, m, n) = <<>>
    BY <1>2
  <2>2. QED
    BY <1>2, <2>1
<1>3. QED
  BY <1>1, <1>2

\* An answer with the leading n of the items.
Cut(n, bytes, tool, sizes, more) ==
  [tool |-> tool, kind |-> "result", items |-> [i \in 1..n |-> i], of |-> Len(sizes),
   truncated |-> n < Len(sizes) \/ more, cells |-> <<>>, bytes |-> bytes]
IsCut(answer, tool, rest, sizes, more) ==
  \E n \in 0..Len(sizes), bytes \in Int :
    /\ answer = Cut(n, bytes, tool, sizes, more)
    /\ bytes <= MaxBytes
    /\ n = 0 /\ Len(sizes) > 0 => sizes[1] > Room(rest)

\* A result keeps the leading items that fit, and leaves out the next because it does not.
LEMMA ResultIsCut ==
  ASSUME ToolsAssumption, NEW tool, NEW rest \in Nat, NEW sizes \in Seq(Nat), NEW more \in BOOLEAN
  PROVE  \/ Result(tool, rest, sizes, more) = Refusal(tool, "too_large")
         \/ IsCut(Result(tool, rest, sizes, more), tool, rest, sizes, more)
<1> SUFFICES ASSUME ~(Room(rest) < 0)
             PROVE  IsCut(Result(tool, rest, sizes, more), tool, rest, sizes, more)
  BY DEF Result
<1> DEFINE first(n) == SubSeq(sizes, 1, n)
           fits(n) == Total(first(n)) <= Room(rest)
           too == {n \in 0..Len(sizes) : ~fits(n)}
           right(n) == fits(n) /\ (n < Len(sizes) => ~fits(n + 1))
           kept == CHOOSE n \in 0..Len(sizes) : right(n)
<1>1. MaxBytes \in Nat /\ NoteRoom \in Nat /\ Room(rest) \in Int /\ Room(rest) >= 0
      /\ Room(rest) = MaxBytes - (rest + NoteRoom)
  BY DEF ToolsAssumption, Room
<1>2. Len(sizes) \in Nat /\ \A n \in 0..Len(sizes) :
        first(n) \in Seq(Nat) /\ Len(first(n)) = n /\ \A i \in 1..n : first(n)[i] = sizes[i]
  OBVIOUS
<1>3. \A n \in 0..Len(sizes) : Total(first(n)) \in Nat
  BY <1>2, TotalIs
<1>4. fits(0)
  <2>1. first(0) \in Seq(Nat) /\ Len(first(0)) = 0
    BY <1>2
  <2> HIDE DEF first
  <2>2. Total(first(0)) = 0
    BY <2>1, TotalIs
  <2>3. QED
    BY <1>1, <2>2
<1>5. \E n \in 0..Len(sizes) : right(n)
  <2>1. CASE too = {}
    <3>1. fits(Len(sizes)) /\ Len(sizes) \in 0..Len(sizes)
      BY <1>2, <2>1
    <3>2. QED
      BY <3>1
  <2>2. CASE too # {}
    <3>1. too \in SUBSET Nat
      OBVIOUS
    <3> HIDE DEF too
    <3>2. PICK m \in too : \A k \in too : m <= k
      BY <2>2, <3>1, LeastNatural
    <3>3. m \in 0..Len(sizes) /\ ~fits(m)
      BY <3>2 DEF too
    <3>4. m # 0
      BY <1>4, <3>3
    <3>5. m - 1 \in 0..Len(sizes) /\ m - 1 \notin too /\ (m - 1) + 1 = m
      BY <1>2, <3>1, <3>2, <3>3, <3>4
    <3>6. fits(m - 1)
      BY <3>5 DEF too
    <3>7. QED
      BY <3>3, <3>5, <3>6
  <2>3. QED
    BY <2>1, <2>2
<1>6. kept \in 0..Len(sizes) /\ right(kept)
  BY <1>5
<1>7. Fit(rest, sizes) = [i \in 1..kept |-> i]
  BY DEF Fit
<1> HIDE DEF kept, fits
<1> DEFINE f == [i \in 1..kept |-> i]
           cut == kept < Len(sizes) \/ more
           bytes == rest + Total(first(kept)) + (IF cut THEN NoteRoom ELSE 0)
<1>8. Len(f) = kept /\ DOMAIN f = 1..kept /\ [i \in DOMAIN f |-> sizes[f[i]]] = first(kept)
  <2>1. f \in Seq(Nat) /\ Len(f) = kept /\ DOMAIN f = 1..kept
    BY <1>6
  <2>2. [i \in DOMAIN f |-> sizes[f[i]]] = [i \in 1..kept |-> sizes[i]]
    BY <2>1
  <2>3. first(kept) = [i \in 1..kept |-> sizes[i]]
    BY <1>2, <1>6
  <2>4. QED
    BY <2>1, <2>2, <2>3
<1>9. Result(tool, rest, sizes, more) = Cut(kept, bytes, tool, sizes, more)
  <2>1. Result(tool, rest, sizes, more) =
          [tool |-> tool, kind |-> "result", items |-> f, of |-> Len(sizes),
           truncated |-> Len(f) < Len(sizes) \/ more, cells |-> <<>>,
           bytes |-> rest + Total([i \in DOMAIN f |-> sizes[f[i]]])
                       + (IF Len(f) < Len(sizes) \/ more THEN NoteRoom ELSE 0)]
    BY <1>7 DEF Result
  <2>2. QED
    BY <1>8, <2>1 DEF Cut
<1>10. bytes \in Int /\ bytes <= MaxBytes
  <2>1. Total(first(kept)) \in Nat /\ Total(first(kept)) <= Room(rest)
    BY <1>3, <1>6 DEF fits
  <2>2. QED
    BY <1>1, <2>1
<1>11. kept = 0 /\ Len(sizes) > 0 => sizes[1] > Room(rest)
  <2> SUFFICES ASSUME kept = 0, Len(sizes) > 0 PROVE sizes[1] > Room(rest)
    OBVIOUS
  <2>1. ~(Total(first(1)) <= Room(rest))
    BY <1>6 DEF fits
  <2>2. Total(first(1)) = sizes[1] /\ sizes[1] \in Nat
    <3>1. first(1) \in Seq(Nat) /\ Len(first(1)) = 1 /\ first(1)[1] = sizes[1] /\ sizes[1] \in Nat
      BY <1>2
    <3> HIDE DEF first
    <3>2. QED
      BY <3>1, TotalIs
  <2>3. QED
    BY <1>1, <2>1, <2>2
<1>12. QED
  BY <1>6, <1>9, <1>10, <1>11 DEF IsCut

-----------------------------------------------------------------------------
\* What the agent has is the table's rows from the first on, and an answer is true.
Paged ==
  /\ \E k \in 0..Len(about.rows) : paged = [i \in 1..k |-> i]
  /\ over => Len(paged) = Len(about.rows)
NothingFits ==
  answered.tool = "preview" /\ answered.truncated /\ answered.items = <<>> =>
    \E i \in DOMAIN about.rows : about.rows[i] > Room(Frame + Header(Len(about.columns)))
AnswerIsTrue == NothingFits /\ WithinTheCaps /\ CellsAreTheColumns
ToolsInv == toolServer \in Servers /\ about \in ToolTables /\ Paged /\ AnswerIsTrue

LEMMA TableIs ==
  ASSUME ToolsAssumption, about \in ToolTables
  PROVE  /\ about.rows \in Seq(Nat \ {0}) /\ about.rows \in Seq(Nat)
         /\ about.width \in Nat /\ Len(about.columns) \in Nat \ {0}
         /\ Header(Len(about.columns)) \in Nat /\ Header(1) \in Nat /\ Frame \in Nat
         /\ Header(1) <= Header(Len(about.columns))
<1>1. /\ about.rows \in Seq(Nat \ {0}) /\ about.width \in Nat /\ Frame \in Nat
      /\ about.columns \in Seq(Seq([nulls : Nat, low : Int, high : Int, stats : BOOLEAN,
                                    recorded : Nat \cup {NoNumber}]))
      /\ about.columns # <<>>
  BY DEF ToolsAssumption
<1>2. Len(about.columns) \in Nat \ {0}
  BY <1>1, EmptySeq
<1>3. about.rows \in Seq(Nat)
  BY <1>1
<1> DEFINE w == about.width
           k == Len(about.columns)
<1>4. w * k \in Nat /\ w * 1 = w /\ w <= w * k
  <2> HIDE DEF w, k
  <2>1. w \in Nat /\ k \in Nat \ {0}
    BY <1>1, <1>2 DEF w, k
  <2>2. QED
    BY <2>1
<1>5. QED
  BY <1>1, <1>2, <1>3, <1>4 DEF Header

\* An answer that refuses says nothing.
LEMMA RefusalIsTrue ==
  ASSUME NEW tool, NEW kind, kind # "result", answered' = Refusal(tool, kind)
  PROVE  AnswerIsTrue'
BY DEF AnswerIsTrue, NothingFits, WithinTheCaps, CellsAreTheColumns, Refusal, NoResult

\* Within its root a server answers of what is in there.
Inside(tool) ==
  toolServer.root => /\ tool # "catalog_ls" /\ about.place.in
                     /\ tool # "list" => about.place.members

\* A result that is cut to what fits is true, if it is of what may be read and has no
\* more rows than a result may have.
LEMMA CutIsTrue ==
  ASSUME ToolsAssumption, NEW tool, NEW rest \in Nat, NEW sizes \in Seq(Nat), NEW more \in BOOLEAN,
         answered' = Result(tool, rest, sizes, more), UNCHANGED <<toolServer, about>>,
         Inside(tool), tool \in {"preview", "query"} => Len(sizes) <= MaxResultRows,
         tool = "preview" /\ (Len(sizes) > 0 => sizes[1] > Room(rest)) /\ (Len(sizes) > 0 \/ more) =>
           \E i \in DOMAIN about.rows : about.rows[i] > Room(Frame + Header(Len(about.columns)))
  PROVE  AnswerIsTrue'
<1>1. CASE answered' = Refusal(tool, "too_large")
  BY <1>1, RefusalIsTrue
<1>2. CASE IsCut(answered', tool, rest, sizes, more)
  <2>1. PICK n \in 0..Len(sizes), bytes \in Int :
               /\ answered' = Cut(n, bytes, tool, sizes, more)
               /\ bytes <= MaxBytes
               /\ n = 0 /\ Len(sizes) > 0 => sizes[1] > Room(rest)
    BY <1>2 DEF IsCut
  <2> DEFINE f == [i \in 1..n |-> i]
  <2>2. Len(sizes) \in Nat /\ f \in Seq(Nat) /\ Len(f) = n /\ (f = <<>> => n = 0)
    OBVIOUS
  <2>3. /\ answered'.tool = tool /\ answered'.kind = "result" /\ answered'.items = f
        /\ answered'.of = Len(sizes) /\ answered'.truncated = (n < Len(sizes) \/ more)
        /\ answered'.cells = <<>> /\ answered'.bytes = bytes
    BY <2>1 DEF Cut
  <2> HIDE DEF f
  <2>4. NothingFits'
    <3> SUFFICES ASSUME tool = "preview", n < Len(sizes) \/ more, f = <<>>
                 PROVE  \E i \in DOMAIN about.rows : about.rows[i] > Room(Frame + Header(Len(about.columns)))
      BY <2>3 DEF NothingFits, Room, Header
    <3>1. n = 0 /\ (Len(sizes) > 0 \/ more)
      BY <2>2
    <3>2. QED
      BY <2>1, <3>1
  <2>5. WithinTheCaps'
    <3>1. bytes <= MaxBytes /\ (tool \in {"preview", "query"} => n <= MaxResultRows)
      BY <2>1, <2>2 DEF ToolsAssumption
    <3>2. QED
      BY <2>2, <2>3, <3>1 DEF WithinTheCaps, Inside
  <2>6. CellsAreTheColumns'
    BY <2>3 DEF CellsAreTheColumns
  <2>7. QED
    BY <2>4, <2>5, <2>6 DEF AnswerIsTrue
<1>3. QED
  BY <1>1, <1>2, ResultIsCut

\* What is read is in the root.
LEMMA ReadsInside ==
  ASSUME NEW tool, Offers(tool), tool # "list" => Open(about.place) = "read",
         tool = "list" => Confined(about.place)
  PROVE  Inside(tool)
BY DEF Inside, Offers, Open, Confined

LEMMA OpenRefuses ==
  ASSUME Open(about.place) # "read"
  PROVE  Open(about.place) # "result"
BY DEF Open

LEMMA DescribeIsTrue ==
  ASSUME ToolsAssumption, ToolsInv, NEW tool \in {"describe", "profile"},
         CallTool(tool, Result(tool, Frame, ColumnSizes, FALSE))
  PROVE  AnswerIsTrue'
<1>1. ColumnSizes \in Seq(Nat) /\ Frame \in Nat
  <2> DEFINE width == about.width
             columns == about.columns
  <2>1. width \in Nat /\ Frame \in Nat
    BY TableIs DEF ToolsInv
  <2>2. Len(columns) \in Nat /\ DOMAIN columns = 1..Len(columns)
    BY DEF ToolsInv, ToolsAssumption
  <2> HIDE DEF width, columns
  <2>3. [c \in DOMAIN columns |-> width] \in Seq(Nat)
    BY <2>1, <2>2
  <2>4. QED
    BY <2>1, <2>3 DEF ColumnSizes, width, columns
<1>2. CASE Open(about.place) # "read"
  BY <1>2, OpenRefuses, RefusalIsTrue DEF CallTool
<1>3. CASE Open(about.place) = "read"
  <2>1. Offers(tool) /\ Inside(tool)
    BY <1>3, ReadsInside DEF CallTool
  <2>2. answered' = Result(tool, Frame, ColumnSizes, FALSE) /\ UNCHANGED <<toolServer, about>>
    BY <1>3 DEF CallTool
  <2>3. QED
    BY <1>1, <2>1, <2>2, CutIsTrue
<1>4. QED
  BY <1>2, <1>3

\* The number of rows asked for is within the bounds.
LEMMA CapIs ==
  ASSUME ToolsAssumption, NEW n \in Counts, NEW default \in {PreviewRows, QueryRows}
  PROVE  /\ Clamp(Given(n, default), 1, MaxResultRows) \in Nat \ {0}
         /\ Clamp(Given(n, default), 1, MaxResultRows) <= MaxResultRows
BY DEF ToolsAssumption, Clamp, Given, Lesser

\* What the footer is said to say of a column is so, where every group records all.
LEMMA StatisticsAreTrue ==
  ASSUME ToolsAssumption, about \in ToolTables
  PROVE  \A c \in DOMAIN about.columns :
           RecordsAll(about.columns[c]) => \A what \in {"nulls", "min", "max"} : SaidOf(about, c, what)
<1> SUFFICES ASSUME NEW c \in DOMAIN about.columns, RecordsAll(about.columns[c]),
                    NEW what \in {"nulls", "min", "max"}
             PROVE  SaidOf(about, c, what)
  OBVIOUS
<1> DEFINE groups == about.columns[c]
           said == FooterColumn(groups)
           true == Truth(groups)
<1>1. \A g \in DOMAIN groups :
        /\ groups[g].stats /\ groups[g].recorded = groups[g].nulls /\ groups[g].recorded # NoNumber
  BY DEF ToolsAssumption, RecordsAll
<1> HIDE DEF groups
<1>2. \A g \in DOMAIN groups : GroupNulls(groups[g]) = groups[g].nulls /\ GroupNulls(groups[g]) # NoNumber
  BY <1>1 DEF GroupNulls, Given
<1>3. {g \in DOMAIN groups : Kept(groups)[g]} = {g \in DOMAIN groups : groups[g].low # Null}
  BY <1>1 DEF Kept
<1>4. [g \in DOMAIN groups |-> GroupNulls(groups[g])] = [g \in DOMAIN groups |-> groups[g].nulls]
  BY <1>2
<1>5. said.nulls = true.nulls /\ said.min = true.min /\ said.max = true.max
  BY <1>2, <1>3, <1>4 DEF FooterColumn, Truth
<1>6. /\ Described(groups).nulls \in {NoNumber, true.nulls}
      /\ Described(groups).min = true.min /\ Described(groups).max = true.max
  <2>1. \E nulls, min, max, any : said = [nulls |-> nulls, min |-> min, max |-> max, any |-> any]
    BY DEF FooterColumn
  <2> HIDE DEF said, true
  <2>2. Described(groups) =
          [said EXCEPT !.nulls = IF said.min # NoNumber \/ said.max # NoNumber \/ @ > 0 THEN @ ELSE NoNumber]
    BY DEF Described, said
  <2>3. QED
    BY <1>5, <2>1, <2>2
<1>7. Described(groups)[what] \in {NoNumber, true[what]}
  BY <1>6 DEF Truth
<1>8. CASE HasFooter(about)
  <2>1. Statistics(about)[c] = Described(groups)
    BY <1>8 DEF Statistics, groups
  <2>2. QED
    BY <1>7, <2>1 DEF SaidOf, groups
<1>9. CASE ~HasFooter(about)
  <2>1. Statistics(about)[c] = [nulls |-> NoNumber, min |-> NoNumber, max |-> NoNumber, any |-> FALSE]
    BY <1>9 DEF Statistics
  <2>2. Statistics(about)[c][what] = NoNumber
    BY <2>1
  <2>3. QED
    BY <2>2 DEF SaidOf
<1>10. QED
  BY <1>8, <1>9

\* A row is put together again from its cells where no two columns have one name.
LEMMA CellsComeBack ==
  ASSUME ToolsAssumption, NEW result \in Results, NEW row \in [DOMAIN result.names -> Int]
  PROVE  CellsOf(result.names, row) = row
<1> DEFINE names == result.names
           known(i) == {j \in DOMAIN names : names[j] = names[i] /\ row[j] # Null}
<1>1. IsInjective(names)
  BY DEF ToolsAssumption
<1>2. ASSUME NEW i \in DOMAIN names
      PROVE  (IF known(i) = {} THEN Null ELSE row[Max(known(i))]) = row[i]
  <2>1. known(i) = IF row[i] = Null THEN {} ELSE {i}
    BY <1>1 DEF IsInjective
  <2>2. i \in Int
    <3>1. names \in Seq(STRING)
      BY DEF ToolsAssumption
    <3>2. DOMAIN names = 1..Len(names)
      BY <3>1
    <3>3. QED
      BY <3>2
  <2>3. Max({i}) = i
    BY <2>2 DEF Max
  <2>4. QED
    BY <2>1, <2>3
<1>3. CellsOf(names, row) = [i \in DOMAIN names |-> IF known(i) = {} THEN Null ELSE row[Max(known(i))]]
  BY DEF CellsOf
<1>4. QED
  BY <1>2, <1>3

\* A page is a stretch of the table's rows, with one more if there are more, and the
\* answer has the leading ones that fit.
LEMMA PreviewIsTrue ==
  ASSUME ToolsAssumption, ToolsInv, NEW n \in Counts, NEW offset \in Nat, NEW all \in BOOLEAN,
         Preview(n, offset, all)
  PROVE  AnswerIsTrue' /\ Paged'
<1> DEFINE cap == Clamp(Given(n, PreviewRows), 1, MaxResultRows)
           rows == about.rows
           to == Lesser(offset + cap + 1, Len(rows))
           read == SubSeq(rows, offset + 1, to)
           sizes == [i \in DOMAIN read |-> IF all THEN read[i] ELSE 1]
           columns == IF all THEN Len(about.columns) ELSE 1
           shown == SubSeq(sizes, 1, Lesser(cap, Len(sizes)))
           rest == Frame + Header(columns)
           answer == Result("preview", rest, shown, Len(sizes) > cap)
<1>1. /\ CallTool("preview", answer)
      /\ IF answered' = answer /\ answer.kind = "result" /\ all /\ offset = Len(paged)
         THEN /\ paged' = paged \o [i \in DOMAIN answer.items |-> offset + answer.items[i]]
              /\ over' = ~answer.truncated
         ELSE UNCHANGED <<paged, over>>
  BY DEF Preview, Window, RowsResult
<1> HIDE DEF answer
<1>2. /\ rows \in Seq(Nat \ {0}) /\ rows \in Seq(Nat) /\ Len(rows) \in Nat
      /\ Header(Len(about.columns)) \in Nat /\ Header(1) \in Nat /\ Frame \in Nat
      /\ Header(1) <= Header(Len(about.columns))
      /\ cap \in Nat \ {0} /\ cap <= MaxResultRows
  BY TableIs, CapIs DEF ToolsInv
<1> HIDE DEF cap
<1>3. /\ to \in Nat /\ to <= Len(rows) /\ to <= offset + cap + 1
      /\ to = Len(rows) \/ to = offset + cap + 1
  BY <1>2 DEF Lesser
<1> HIDE DEF to
<1>4. /\ read \in Seq(Nat \ {0}) /\ Len(read) \in Nat
      /\ Len(read) = IF offset + 1 <= to THEN to - offset ELSE 0
      /\ \A i \in 1..Len(read) : read[i] = rows[offset + i] /\ offset + i \in DOMAIN rows
  <2> DEFINE from == offset + 1
             Bytes == Nat \ {0}
  <2>1. from \in Nat \ {0} /\ rows \in Seq(Bytes) /\ to \in Nat /\ to <= Len(rows)
    BY <1>2, <1>3
  <2> HIDE DEF rows, from, Bytes
  <2>2. /\ SubSeq(rows, from, to) \in Seq(Bytes)
        /\ Len(SubSeq(rows, from, to)) = IF from <= to THEN to - from + 1 ELSE 0
        /\ \A i \in 1..Len(SubSeq(rows, from, to)) : SubSeq(rows, from, to)[i] = rows[from + i - 1]
    BY <2>1, StretchIs
  <2> HIDE DEF read
  <2>3. read = SubSeq(rows, from, to)
    BY DEF read, from
  <2>4. /\ read \in Seq(Nat \ {0})
        /\ Len(read) = IF offset + 1 <= to THEN to - (offset + 1) + 1 ELSE 0
        /\ \A i \in 1..Len(read) : read[i] = rows[(offset + 1) + i - 1]
    BY <2>2, <2>3 DEF from, Bytes
  <2>5. Len(read) \in Nat /\ Len(read) = IF offset + 1 <= to THEN to - offset ELSE 0
    BY <1>3, <2>4
  <2>6. ASSUME NEW i \in 1..Len(read) PROVE read[i] = rows[offset + i] /\ offset + i \in DOMAIN rows
    <3>1. offset + i = (offset + 1) + i - 1 /\ offset + i \in 1..Len(rows)
      BY <1>2, <1>3, <2>5
    <3>2. DOMAIN rows = 1..Len(rows)
      BY <1>2
    <3>3. read[i] = rows[(offset + 1) + i - 1]
      BY <2>4, Zenon
    <3>4. QED
      BY <3>1, <3>2, <3>3
  <2>7. QED
    BY <2>4, <2>5, <2>6
<1> HIDE DEF read
<1>5. /\ sizes \in Seq(Nat) /\ Len(sizes) = Len(read)
      /\ \A i \in 1..Len(read) : sizes[i] = IF all THEN read[i] ELSE 1
  BY <1>4
<1> HIDE DEF sizes
<1>6. /\ shown \in Seq(Nat) /\ Len(shown) = Lesser(cap, Len(sizes)) /\ Len(sizes) \in Nat
      /\ Len(shown) > 0 => shown[1] = sizes[1] /\ Len(read) > 0
  <2> DEFINE least == Lesser(cap, Len(sizes))
  <2>1. least \in Nat /\ least <= Len(sizes) /\ Len(sizes) \in Nat
    BY <1>2, <1>5 DEF Lesser
  <2> HIDE DEF least
  <2>2. /\ SubSeq(sizes, 1, least) \in Seq(Nat) /\ Len(SubSeq(sizes, 1, least)) = least
        /\ least > 0 => SubSeq(sizes, 1, least)[1] = sizes[1]
    BY <1>5, <2>1
  <2>3. shown = SubSeq(sizes, 1, least) /\ least = Lesser(cap, Len(sizes))
    BY DEF least, shown
  <2>4. Len(shown) > 0 => least > 0 /\ Len(read) > 0
    BY <1>5, <2>1, <2>2, <2>3
  <2>5. QED
    BY <2>1, <2>2, <2>3, <2>4
<1> HIDE DEF shown
<1>7. rest \in Nat /\ rest <= Frame + Header(Len(about.columns))
  <2>1. rest = Frame + Header(Len(about.columns)) \/ rest = Frame + Header(1)
    OBVIOUS
  <2> HIDE DEF rest
  <2>2. QED
    BY <1>2, <2>1
<1>8. Len(shown) > 0 /\ shown[1] > Room(rest) =>
        \E i \in DOMAIN rows : rows[i] > Room(Frame + Header(Len(about.columns)))
  <2> SUFFICES ASSUME Len(shown) > 0, shown[1] > Room(rest)
               PROVE  \E i \in DOMAIN rows : rows[i] > Room(Frame + Header(Len(about.columns)))
    OBVIOUS
  <2>1. offset + 1 \in DOMAIN rows /\ rows[offset + 1] \in Nat \ {0} /\ shown[1] = IF all THEN rows[offset + 1] ELSE 1
    <3>1. 1 \in 1..Len(read)
      BY <1>4, <1>6
    <3>2. offset + 1 \in DOMAIN rows /\ read[1] = rows[offset + 1] /\ sizes[1] = IF all THEN read[1] ELSE 1
      BY <1>4, <1>5, <3>1
    <3>3. rows[offset + 1] \in Nat \ {0}
      BY <1>2, <3>2
    <3>4. QED
      BY <1>6, <3>2, <3>3
  <2> DEFINE wide == Frame + Header(Len(about.columns))
  <2>2. wide \in Nat /\ rest <= wide
    BY <1>2, <1>7
  <2> HIDE DEF rest, wide
  <2>3. rows[offset + 1] > Room(wide)
    <3>1. MaxBytes \in Nat /\ NoteRoom \in Nat
      BY DEF ToolsAssumption
    <3>2. Room(wide) \in Int /\ Room(rest) \in Int /\ Room(wide) <= Room(rest)
      BY <1>7, <2>2, <3>1 DEF Room
    <3>3. shown[1] \in Nat /\ shown[1] <= rows[offset + 1]
      BY <2>1
    <3>4. QED
      BY <2>1, <3>2, <3>3
  <2>4. QED
    BY <2>1, <2>3 DEF wide
<1>9. AnswerIsTrue'
  <2>1. CASE Open(about.place) # "read"
    BY <1>1, <2>1, OpenRefuses, RefusalIsTrue DEF CallTool
  <2>2. CASE Open(about.place) = "read"
    <3>1. Inside("preview") /\ answered' = answer /\ UNCHANGED <<toolServer, about>>
      BY <1>1, <2>2, ReadsInside DEF CallTool
    <3>2. Len(shown) <= MaxResultRows
      BY <1>2, <1>6 DEF Lesser, ToolsAssumption
    <3>3. Len(sizes) > cap => Len(shown) > 0
      BY <1>2, <1>6 DEF Lesser
    <3>4. rest \in Nat /\ (Len(sizes) > cap) \in BOOLEAN
      BY <1>7
    <3> HIDE DEF rest
    <3>5. "preview" = "preview" /\ (Len(shown) > 0 => shown[1] > Room(rest)) /\ (Len(shown) > 0 \/ Len(sizes) > cap) =>
            \E i \in DOMAIN about.rows : about.rows[i] > Room(Frame + Header(Len(about.columns)))
      BY <1>8, <3>3
    <3>6. answered' = Result("preview", rest, shown, Len(sizes) > cap)
      BY <3>1 DEF answer
    <3>7. QED
      BY <1>6, <3>1, <3>2, <3>4, <3>5, <3>6, CutIsTrue, Zenon
  <2>3. QED
    BY <2>1, <2>2
<1>10. about' = about
  BY <1>1 DEF CallTool
<1>11. CASE answered' = answer /\ answer.kind = "result" /\ all /\ offset = Len(paged)
  <2>1. IsCut(answer, "preview", rest, shown, Len(sizes) > cap)
    <3>1. Refusal("preview", "too_large").kind # "result"
      BY DEF Refusal, NoResult
    <3>2. rest \in Nat /\ (Len(sizes) > cap) \in BOOLEAN
      BY <1>7
    <3> HIDE DEF rest
    <3>3. answer = Result("preview", rest, shown, Len(sizes) > cap)
      BY DEF answer
    <3>4. \/ answer = Refusal("preview", "too_large")
          \/ IsCut(answer, "preview", rest, shown, Len(sizes) > cap)
      BY <1>6, <3>2, <3>3, ResultIsCut, Zenon
    <3>5. QED
      BY <1>11, <3>1, <3>4
  <2>2. PICK m \in 0..Len(shown), bytes \in Int : answer = Cut(m, bytes, "preview", shown, Len(sizes) > cap)
    BY <2>1 DEF IsCut
  <2>3. answer.items = [i \in 1..m |-> i] /\ answer.truncated = (m < Len(shown) \/ Len(sizes) > cap)
    BY <2>2 DEF Cut
  <2>4. PICK k \in 0..Len(rows) : paged = [i \in 1..k |-> i]
    BY DEF ToolsInv, Paged
  <2>5. paged \in Seq(Nat) /\ Len(paged) = k /\ offset = k
    BY <1>2, <1>11, <2>4
  <2> DEFINE more == [i \in DOMAIN answer.items |-> offset + answer.items[i]]
  <2>6. more \in Seq(Nat) /\ Len(more) = m /\ \A i \in 1..m : more[i] = k + i
    BY <1>6, <2>3, <2>5
  <2>7. paged' = paged \o more /\ over' = ~answer.truncated
    BY <1>1, <1>11
  <2> HIDE DEF more
  <2>8. paged' \in Seq(Nat) /\ Len(paged') = k + m /\ \A i \in 1..(k + m) : paged'[i] = i
    <3>1. m \in Nat /\ k \in Nat /\ \A i \in 1..k : paged[i] = i
      BY <1>2, <1>6, <2>4
    <3>2. paged \o more \in Seq(Nat) /\ Len(paged \o more) = k + m
      BY <2>5, <2>6
    <3>3. \A i \in 1..(k + m) : (paged \o more)[i] = IF i <= k THEN paged[i] ELSE more[i - k]
      BY <2>5, <2>6, <3>1
    <3>4. ASSUME NEW i \in 1..(k + m) PROVE (paged \o more)[i] = i
      <4>1. CASE i <= k
        <5>1. i \in 1..k /\ paged[i] = i
          BY <3>1, <4>1
        <5>2. (paged \o more)[i] = paged[i]
          BY <3>3, <4>1
        <5>3. QED
          BY <5>1, <5>2
      <4>2. CASE ~(i <= k)
        <5>1. i - k \in 1..m /\ k + (i - k) = i
          BY <3>1, <4>2
        <5>2. more[i - k] = k + (i - k)
          BY <2>6, <5>1
        <5>3. QED
          BY <3>3, <4>2, <5>1, <5>2
      <4>3. QED
        BY <4>1, <4>2
    <3>5. QED
      BY <2>7, <3>2, <3>4
  <2>9. paged' = [i \in 1..(k + m) |-> i]
    BY <2>8
  <2>10. Len(shown) <= Len(read) /\ m <= Len(read) /\ k + m <= Len(rows)
    <3>1. Len(shown) \in Nat /\ Len(shown) <= Len(read) /\ m <= Len(shown) /\ m \in Nat /\ Len(read) \in Nat
      BY <1>2, <1>5, <1>6, <2>2 DEF Lesser
    <3>2. k \in Nat /\ k <= Len(rows) /\ offset = k
      BY <1>2, <2>4, <2>5
    <3>3. Len(read) = IF k + 1 <= to THEN to - k ELSE 0
      BY <1>4, <3>2
    <3>4. Len(rows) \in Nat /\ to \in Nat /\ to <= Len(rows)
      BY <1>2, <1>3
    <3> HIDE DEF rows
    <3>5. m <= Len(read)
      BY <1>6, <3>1
    <3>6. k + m <= Len(rows)
      BY <3>1, <3>2, <3>3, <3>4, <3>5
    <3>7. QED
      BY <3>1, <3>5, <3>6
  <2>11. over' => k + m = Len(rows)
    <3> SUFFICES ASSUME ~(m < Len(shown)), ~(Len(sizes) > cap) PROVE k + m = Len(rows)
      BY <2>3, <2>7
    <3>1. m = Len(read) /\ Len(read) <= cap
      BY <1>2, <1>4, <1>5, <1>6 DEF Lesser
    <3>2. QED
      BY <1>2, <1>3, <1>4, <2>4, <2>5, <3>1
  <2>12. k + m \in 0..Len(rows)
    BY <1>2, <1>6, <2>4, <2>10
  <2>13. Paged'
    BY <1>10, <2>8, <2>9, <2>11, <2>12 DEF Paged
  <2>14. QED
    BY <1>9, <2>13
<1>12. CASE UNCHANGED <<paged, over>>
  BY <1>9, <1>10, <1>12 DEF ToolsInv, Paged
<1>13. QED
  BY <1>1, <1>9, <1>11, <1>12

\* A query's rows are cut like a table's, and each is what the engine answered.
LEMMA QueryIsTrue ==
  ASSUME ToolsAssumption, ToolsInv, NEW n \in Counts, NEW result \in Results, NEW named \in BOOLEAN,
         Query(n, result, named)
  PROVE  AnswerIsTrue'
<1> DEFINE cap == Clamp(Given(n, QueryRows), 1, MaxResultRows)
           read == SubSeq(result.rows, 1, Lesser(Len(result.rows), cap + 1))
           sizes == [i \in DOMAIN read |-> Len(result.names)]
           shown == SubSeq(sizes, 1, Lesser(cap, Len(sizes)))
           rest == Frame + Len(result.names)
           answer == Result("query", rest, shown, Len(sizes) > cap)
           cells(a) == [i \in DOMAIN a.items |-> [of |-> read[i], in |-> CellsOf(result.names, read[i])]]
<1>1. CallTool("query", IF ~named THEN Refusal("query", "invalid_arguments")
                        ELSE [answer EXCEPT !.cells = cells(answer)])
  BY DEF Query, RowsResult
<1>2. /\ result.names \in Seq(STRING) /\ result.rows \in Seq([DOMAIN result.names -> Int])
      /\ Len(result.names) \in Nat /\ Len(result.rows) \in Nat /\ rest \in Nat
      /\ cap \in Nat \ {0} /\ cap <= MaxResultRows
  <2>1. result.names \in Seq(STRING) /\ result.rows \in Seq([DOMAIN result.names -> Int]) /\ Frame \in Nat
    BY DEF ToolsAssumption
  <2>2. cap \in Nat \ {0} /\ cap <= MaxResultRows
    BY CapIs
  <2> HIDE DEF cap
  <2>3. QED
    BY <2>1, <2>2
<1> HIDE DEF cap
<1>3. /\ read \in Seq([DOMAIN result.names -> Int]) /\ Len(read) \in Nat
      /\ \A i \in 1..Len(read) : read[i] \in [DOMAIN result.names -> Int]
  <2> DEFINE to == Lesser(Len(result.rows), cap + 1)
             row == [DOMAIN result.names -> Int]
  <2>1. to \in Nat /\ to <= Len(result.rows)
    BY <1>2 DEF Lesser
  <2>2. result.rows \in Seq(row) /\ 1 \in Nat \ {0}
    BY <1>2
  <2> HIDE DEF to, row
  <2>3. SubSeq(result.rows, 1, to) \in Seq(row)
    BY <2>1, <2>2, StretchIs
  <2>4. read \in Seq(row) /\ Len(read) \in Nat /\ \A i \in 1..Len(read) : read[i] \in row
    BY <2>3, ElementOfSeq DEF to
  <2>5. QED
    BY <2>4 DEF row
<1> HIDE DEF read
<1>4. sizes \in Seq(Nat) /\ Len(sizes) = Len(read)
  <2> DEFINE width == Len(result.names)
  <2>1. width \in Nat /\ DOMAIN read = 1..Len(read) /\ Len(read) \in Nat
    BY <1>2, <1>3
  <2> HIDE DEF width
  <2>2. [i \in 1..Len(read) |-> width] \in Seq(Nat) /\ Len([i \in 1..Len(read) |-> width]) = Len(read)
    BY <2>1
  <2>3. QED
    BY <2>1, <2>2 DEF width
<1> HIDE DEF sizes
<1>5. shown \in Seq(Nat) /\ Len(shown) \in Nat /\ Len(shown) <= cap /\ Len(shown) <= Len(read)
  <2> DEFINE least == Lesser(cap, Len(sizes))
  <2>1. least \in Nat /\ least <= Len(sizes) /\ least <= cap
    BY <1>2, <1>3, <1>4 DEF Lesser
  <2> HIDE DEF least
  <2>2. SubSeq(sizes, 1, least) \in Seq(Nat) /\ Len(SubSeq(sizes, 1, least)) = least
    BY <1>4, <2>1
  <2>3. QED
    BY <1>4, <2>1, <2>2 DEF least
<1> HIDE DEF shown, rest, answer
<1>6. \/ answer = Refusal("query", "too_large")
      \/ IsCut(answer, "query", rest, shown, Len(sizes) > cap)
  <2>1. (Len(sizes) > cap) \in BOOLEAN
    OBVIOUS
  <2>2. QED
    BY <1>2, <1>5, <2>1, ResultIsCut DEF answer
<1>7. CASE Open(about.place) # "read"
  BY <1>1, <1>7, OpenRefuses, RefusalIsTrue DEF CallTool
<1>8. CASE Open(about.place) = "read" /\ ~named
  BY <1>1, <1>8, RefusalIsTrue DEF CallTool
<1>9. CASE Open(about.place) = "read" /\ named
  <2>1. /\ Inside("query") /\ UNCHANGED <<toolServer, about>>
        /\ answered' = [answer EXCEPT !.cells = cells(answer)]
    BY <1>1, <1>9, ReadsInside DEF CallTool
  <2>2. CASE answer = Refusal("query", "too_large")
    <3>1. /\ answered'.tool = "query" /\ answered'.kind = "too_large"
          /\ answered'.cells = [i \in DOMAIN <<>> |-> [of |-> read[i], in |-> CellsOf(result.names, read[i])]]
      BY <2>1, <2>2 DEF Refusal, NoResult
    <3>2. QED
      BY <3>1 DEF AnswerIsTrue, NothingFits, WithinTheCaps, CellsAreTheColumns
  <2>3. CASE IsCut(answer, "query", rest, shown, Len(sizes) > cap)
    <3>1. PICK m \in 0..Len(shown), bytes \in Int :
                 answer = Cut(m, bytes, "query", shown, Len(sizes) > cap) /\ bytes <= MaxBytes
      BY <2>3 DEF IsCut
    <3> DEFINE f == [i \in 1..m |-> i]
    <3>2. f \in Seq(Nat) /\ Len(f) = m /\ DOMAIN f = 1..m
      BY <1>5
    <3>3. /\ answered'.tool = "query" /\ answered'.kind = "result" /\ answered'.items = f
          /\ answered'.of = Len(shown) /\ answered'.truncated = (m < Len(shown) \/ Len(sizes) > cap)
          /\ answered'.bytes = bytes
          /\ answered'.cells = [i \in DOMAIN f |-> [of |-> read[i], in |-> CellsOf(result.names, read[i])]]
      BY <2>1, <3>1 DEF Cut
    <3> HIDE DEF f
    <3>4. NothingFits'
      BY <3>3 DEF NothingFits
    <3>5. WithinTheCaps'
      <4>1. m <= MaxResultRows
        BY <1>2, <1>5 DEF ToolsAssumption
      <4>2. QED
        BY <2>1, <3>1, <3>2, <3>3, <4>1 DEF WithinTheCaps, Inside
    <3>6. CellsAreTheColumns'
      <4> SUFFICES ASSUME NEW i \in 1..m
                   PROVE  CellsOf(result.names, read[i]) = read[i]
        BY <3>2, <3>3 DEF CellsAreTheColumns
      <4>1. read[i] \in [DOMAIN result.names -> Int]
        BY <1>3, <1>5
      <4>2. QED
        BY <4>1, CellsComeBack
    <3>7. QED
      BY <3>4, <3>5, <3>6 DEF AnswerIsTrue
  <2>4. QED
    BY <1>6, <2>2, <2>3
<1>10. QED
  BY <1>7, <1>8, <1>9

\* A listing is within the root, and cut as rows are.
LEMMA ListIsTrue ==
  ASSUME ToolsAssumption, ToolsInv, NEW tool \in {"list", "catalog_ls"}, NEW more \in BOOLEAN,
         List(tool, about.rows, more)
  PROVE  AnswerIsTrue'
<1>1. about.rows \in Seq(Nat) /\ Frame \in Nat
  BY TableIs DEF ToolsInv
<1>2. CASE tool = "list" /\ ~Confined(about.place)
  BY <1>2, RefusalIsTrue DEF List
<1>3. CASE ~(tool = "list" /\ ~Confined(about.place))
  <2>1. answered' = Result(tool, Frame, about.rows, more) /\ UNCHANGED <<toolServer, about>> /\ Offers(tool)
    BY <1>3 DEF List
  <2>2. Inside(tool)
    BY <1>3, <2>1 DEF Inside, Offers, Confined
  <2>3. QED
    BY <1>1, <2>1, <2>2, CutIsTrue
<1>4. QED
  BY <1>2, <1>3

LEMMA ProfileIsTrue ==
  ASSUME ToolsAssumption, ToolsInv, NEW n \in Counts, Profile(n)
  PROVE  AnswerIsTrue'
<1>1. \/ CallTool("profile", Refusal("profile", "failed"))
      \/ CallTool("profile", Result("profile", Frame, ColumnSizes, FALSE))
  BY DEF Profile
<1>2. CASE CallTool("profile", Refusal("profile", "failed"))
  BY <1>2, OpenRefuses, RefusalIsTrue DEF CallTool
<1>3. QED
  BY <1>1, <1>2, DescribeIsTrue

\* A call that fails, or is refused for its arguments.
LEMMA FailureIsTrue ==
  ASSUME ToolsAssumption, ToolsInv, NEW tool, Failing(tool) \/ Invalid(tool)
  PROVE  AnswerIsTrue'
<1>1. CASE Failing(tool)
  <2>1. PICK kind \in Failures : CallTool(tool, Refusal(tool, kind))
    BY <1>1 DEF Failing
  <2>2. kind # "result"
    BY DEF Failures
  <2>3. QED
    BY <2>1, <2>2, OpenRefuses, RefusalIsTrue DEF CallTool
<1>2. CASE Invalid(tool)
  BY <1>2, RefusalIsTrue DEF Invalid
<1>3. QED
  BY <1>1, <1>2

LEMMA ToolsInitInv == ASSUME ToolsAssumption, ToolsInit PROVE ToolsInv
<1>1. about \in ToolTables /\ toolServer \in Servers /\ paged = <<>> /\ over = FALSE /\ answered = NoResult
  BY DEF ToolsInit
<1>2. AnswerIsTrue
  BY <1>1 DEF AnswerIsTrue, NothingFits, WithinTheCaps, CellsAreTheColumns, NoResult
<1>3. Len(about.rows) \in Nat
  BY <1>1, TableIs
<1>4. 0 \in 0..Len(about.rows) /\ paged = [i \in 1..0 |-> i]
  BY <1>1, <1>3
<1>5. QED
  BY <1>1, <1>2, <1>4 DEF ToolsInv, Paged

LEMMA ToolsNextInv == ASSUME ToolsAssumption, ToolsInv, [ToolsNext]_toolVars PROVE ToolsInv'
<1>1. CASE UNCHANGED toolVars
  BY <1>1 DEF toolVars, ToolsInv, Paged, AnswerIsTrue, NothingFits, WithinTheCaps, CellsAreTheColumns,
              Room, Header
<1>2. ASSUME UNCHANGED <<about, paged, over>> PROVE Paged'
  BY <1>2 DEF ToolsInv, Paged
<1>3. CASE Describe
  <2>1. AnswerIsTrue'
    BY <1>3, DescribeIsTrue DEF Describe
  <2>2. UNCHANGED <<toolServer, about, paged, over>>
    BY <1>3 DEF Describe, CallTool
  <2>3. QED
    BY <1>2, <2>1, <2>2 DEF ToolsInv
<1>4. CASE \E n \in Counts : Profile(n)
  <2>1. PICK n \in Counts : Profile(n)
    BY <1>4
  <2>2. UNCHANGED <<toolServer, about, paged, over>>
    BY <2>1 DEF Profile, CallTool
  <2>3. QED
    BY <1>2, <2>1, <2>2, ProfileIsTrue DEF ToolsInv
<1>5. CASE \E n \in Counts, offset \in Offsets \cup {Len(paged)}, all \in BOOLEAN : Preview(n, offset, all)
  <2>1. PICK n \in Counts, offset \in Offsets \cup {Len(paged)}, all \in BOOLEAN : Preview(n, offset, all)
    BY <1>5
  <2>2. PICK k \in 0..Len(about.rows) : paged = [i \in 1..k |-> i]
    BY DEF ToolsInv, Paged
  <2>3. Len(about.rows) \in Nat
    BY TableIs DEF ToolsInv
  <2>4. Len(paged) \in Nat
    BY <2>2, <2>3
  <2>5. offset \in Nat
    BY <2>1, <2>4 DEF ToolsAssumption
  <2>6. UNCHANGED <<toolServer, about>>
    BY <2>1 DEF Preview, CallTool
  <2>7. QED
    BY <2>1, <2>5, <2>6, PreviewIsTrue DEF ToolsInv
<1>6. CASE \E n \in Counts, result \in Results, named \in BOOLEAN : Query(n, result, named)
  <2>1. PICK n \in Counts, result \in Results, named \in BOOLEAN : Query(n, result, named)
    BY <1>6
  <2>2. UNCHANGED <<toolServer, about, paged, over>>
    BY <2>1 DEF Query, CallTool
  <2>3. QED
    BY <1>2, <2>1, <2>2, QueryIsTrue DEF ToolsInv
<1>7. CASE \E more \in BOOLEAN : List("list", about.rows, FALSE) \/ List("catalog_ls", about.rows, more)
  <2>1. PICK tool \in {"list", "catalog_ls"}, more \in BOOLEAN : List(tool, about.rows, more)
    BY <1>7
  <2>2. UNCHANGED <<toolServer, about, paged, over>>
    BY <2>1 DEF List
  <2>3. QED
    BY <1>2, <2>1, <2>2, ListIsTrue DEF ToolsInv
<1>8. CASE \E tool \in {"list", "describe", "preview", "profile", "query", "catalog_ls"} : Failing(tool) \/ Invalid(tool)
  <2>1. PICK tool : Failing(tool) \/ Invalid(tool)
    BY <1>8
  <2>2. UNCHANGED <<toolServer, about, paged, over>>
    BY <2>1 DEF Failing, Invalid, CallTool
  <2>3. QED
    BY <1>2, <2>1, <2>2, FailureIsTrue DEF ToolsInv
<1>9. QED
  BY <1>1, <1>3, <1>4, <1>5, <1>6, <1>7, <1>8 DEF ToolsNext

LEMMA ToolsInvIsTrue == ASSUME ToolsAssumption, ToolsInv PROVE ToolsAreTrue
<1>1. PICK k \in 0..Len(about.rows) : paged = [i \in 1..k |-> i]
  BY DEF ToolsInv, Paged
<1>2. paged = [i \in DOMAIN paged |-> i]
  BY <1>1
<1>3. PagesAreTheTable
  BY <1>2 DEF ToolsInv, Paged, AnswerIsTrue, NothingFits, PagesAreTheTable
<1>4. StatisticsAreExact
  BY StatisticsAreTrue DEF ToolsInv, StatisticsAreExact
<1>5. QED
  BY <1>3, <1>4 DEF ToolsInv, AnswerIsTrue, ToolsAreTrue

\* The pages that an agent has are the table's rows from the first on, each once, and a
\* result is within its caps and says when it was cut; the rows of a query and the
\* statistics of a footer are what they were (Tools of mcp/tools.rs).
THEOREM ToolsAreTrueAlways == ToolsAssumption /\ ToolsSpec => []ToolsAreTrue
<1> SUFFICES ASSUME ToolsAssumption PROVE ToolsSpec => []ToolsAreTrue
  OBVIOUS
<1>1. ToolsInit => ToolsInv
  BY ToolsInitInv
<1>2. ToolsInv /\ [ToolsNext]_toolVars => ToolsInv'
  BY ToolsNextInv
<1>3. ToolsInv => ToolsAreTrue
  BY ToolsInvIsTrue
<1>4. QED
  BY <1>1, <1>2, <1>3, PTL DEF ToolsSpec
=============================================================================
