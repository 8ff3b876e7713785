------------------------------ MODULE McpPromise ------------------------------
(***************************************************************************)
(* What `lakeleto mcp` promises its client about the requests of a         *)
(* session, whatever the threads, the deadlines and the channel do: each   *)
(* is answered once or, if the client cancelled it, never, and the session *)
(* ends only when the client has closed it and nothing is owed.  McpSession *)
(* implements this specification.                                          *)
(***************************************************************************)
EXTENDS Naturals

CONSTANT MaxRequests

VARIABLES
  status,   \* what has become of each request
  session   \* "asking", "closed" by the client, "over", or "broken"

vars == <<status, session>>

Requests == 1..MaxRequests
Owed == {n \in Requests : status[n] = "owed"}
Going == session \in {"asking", "closed"}

Init ==
  /\ status = [n \in Requests |-> "unsent"]
  /\ session = "asking"

\* The client sends its next request.
Ask(n) ==
  /\ session = "asking" /\ status[n] = "unsent"
  /\ \A m \in Requests : m < n => status[m] # "unsent"
  /\ status' = [status EXCEPT ![n] = "owed"]
  /\ UNCHANGED session

\* The client sends nothing more.
Close ==
  /\ session = "asking"
  /\ session' = "closed"
  /\ UNCHANGED status

\* Some requests are answered at once; when none is left and the client has
\* closed the session, it may be over.
Answer(S) ==
  /\ Going /\ S \subseteq Owed
  /\ status' = [n \in Requests |-> IF n \in S THEN "answered" ELSE status[n]]
  /\ \/ UNCHANGED session
     \/ session = "closed" /\ S = Owed /\ session' = "over"

\* The client cancels one of its requests.
Withdraw(n) ==
  /\ Going /\ n \in Owed
  /\ status' = [status EXCEPT ![n] = "withdrawn"]
  /\ UNCHANGED session

\* The client no longer reads: nothing more can be said to it.
Break ==
  /\ Going
  /\ session' = "broken"
  /\ UNCHANGED status

Next ==
  \/ \E n \in Requests : Ask(n) \/ Withdraw(n)
  \/ \E S \in SUBSET Requests : Answer(S)
  \/ Close
  \/ Break

Spec == Init /\ [][Next]_vars
=============================================================================
