----------------------------- MODULE CatalogLogin -----------------------------
(***************************************************************************)
(* How the calls of one REST catalog client share its login                *)
(* (src/src/catalog/rest.rs: send, bearer, exchange).                      *)
(*                                                                         *)
(* The client logs in with client credentials and keeps one token, behind  *)
(* a mutex that is held for single accesses only.  Calls run concurrently  *)
(* (table reads, listings, and the renewal of vended credentials), and     *)
(* every await is a point where the others, the clock and the catalog may  *)
(* move.  A token is due for replacement after nine tenths of its life;    *)
(* the catalog may stop taking a token at any time, due or not.            *)
(***************************************************************************)
EXTENDS Naturals

CONSTANTS
  Calls,      \* calls on the client
  MaxTokens   \* bound: the tokens the identity provider can issue

ASSUME LoginAssumption == MaxTokens \in Nat

\* The provider never issues a token twice: the n-th one issued is n.
Tokens == 1..MaxTokens
NoToken == 0

VARIABLES
  kept,     \* State.token: the token the client keeps
  issued,   \* how many tokens have been issued
  due,      \* the tokens past nine tenths of a life that is known
  dead,     \* the tokens the catalog no longer takes
  at,       \* where each call is
  holds,    \* the token each call last took
  renewed,  \* whether the call has dropped a token already
  dropped,  \* history: the tokens each call was refused with and has dropped
  logins    \* history: the logins of each call

shared == <<kept, issued, due, dead>>
vars == <<shared, at, holds, renewed, dropped, logins>>

Places == {"idle", "bearer", "login", "store", "send", "refused", "done", "unauthorized",
           "failed"}
Ended == {"done", "unauthorized", "failed"}

\* Among the rest, a call logs in twice at most.
TypeOK ==
  /\ kept \in Tokens \cup {NoToken}
  /\ issued \in 0..MaxTokens /\ due \in SUBSET (1..issued) /\ dead \in SUBSET (1..issued)
  /\ at \in [Calls -> Places]
  /\ holds \in [Calls -> Tokens \cup {NoToken}]
  /\ renewed \in [Calls -> BOOLEAN]
  /\ dropped \in [Calls -> SUBSET Tokens]
  /\ logins \in [Calls -> 0..2]

Init ==
  /\ kept = NoToken /\ issued = 0 /\ due = {} /\ dead = {}
  /\ at = [c \in Calls |-> "idle"]
  /\ holds = [c \in Calls |-> NoToken]
  /\ renewed = [c \in Calls |-> FALSE]
  /\ dropped = [c \in Calls |-> {}]
  /\ logins = [c \in Calls |-> 0]

Go(c, place) == at' = [at EXCEPT ![c] = place]

Start(c) ==
  /\ at[c] = "idle"
  /\ Go(c, "bearer")
  /\ UNCHANGED <<shared, holds, renewed, dropped, logins>>

\* The kept token may be sent: it is not due.
Usable == kept # NoToken /\ kept \notin due

\* `bearer` with a token at hand.
TakeKept(c) ==
  /\ at[c] = "bearer" /\ Usable
  /\ holds' = [holds EXCEPT ![c] = kept]
  /\ Go(c, "send")
  /\ UNCHANGED <<shared, renewed, dropped, logins>>

\* `bearer` without one: the login request goes out.  The mutex is not held,
\* so several calls may log in at once.
LogIn(c) ==
  /\ at[c] = "bearer" /\ ~Usable
  /\ logins' = [logins EXCEPT ![c] = @ + 1]
  /\ Go(c, "login")
  /\ UNCHANGED <<shared, holds, renewed, dropped>>

\* The identity provider issues a token, and its answer is on its way.
Issue(c) ==
  /\ at[c] = "login"
  /\ issued < MaxTokens
  /\ issued' = issued + 1
  /\ holds' = [holds EXCEPT ![c] = issued']
  /\ Go(c, "store")
  /\ UNCHANGED <<kept, due, dead, renewed, dropped, logins>>

\* The answer is read, and its token kept, whatever was kept meanwhile.
Store(c) ==
  /\ at[c] = "store"
  /\ kept' = holds[c]
  /\ Go(c, "send")
  /\ UNCHANGED <<issued, due, dead, holds, renewed, dropped, logins>>

\* The catalog takes the request, or answers 401 or 419.
Serve(c) ==
  /\ at[c] = "send"
  /\ Go(c, IF holds[c] \in dead THEN "refused" ELSE "done")
  /\ UNCHANGED <<shared, holds, renewed, dropped, logins>>

\* A login or a request that has no answer in time, or a refused login.
Fail(c) ==
  /\ at[c] \in {"login", "send"}
  /\ Go(c, "failed")
  /\ UNCHANGED <<shared, holds, renewed, dropped, logins>>

\* Mutant: the client tries again with the token it keeps.
RetryKept(c) ==
  /\ at[c] = "refused" /\ ~renewed[c]
  /\ renewed' = [renewed EXCEPT ![c] = TRUE]
  /\ dropped' = [dropped EXCEPT ![c] = @ \cup {holds[c]}]
  /\ Go(c, "bearer")
  /\ UNCHANGED <<shared, holds, logins>>

\* Mutant: the client does not note that it has tried again.
RetryForever(c) ==
  /\ at[c] = "refused"
  /\ kept' = NoToken
  /\ dropped' = [dropped EXCEPT ![c] = @ \cup {holds[c]}]
  /\ Go(c, "bearer")
  /\ UNCHANGED <<issued, due, dead, holds, renewed, logins>>

\* Mutant: the client does neither.
RetrySame(c) ==
  /\ at[c] = "refused"
  /\ Go(c, "bearer")
  /\ UNCHANGED <<shared, holds, renewed, dropped, logins>>

\* The first refusal drops the kept token, whichever it is by now.
Retry(c) ==
  /\ at[c] = "refused" /\ ~renewed[c]
  /\ kept' = NoToken
  /\ renewed' = [renewed EXCEPT ![c] = TRUE]
  /\ dropped' = [dropped EXCEPT ![c] = @ \cup {holds[c]}]
  /\ Go(c, "bearer")
  /\ UNCHANGED <<issued, due, dead, holds, logins>>

\* The second is the call's answer.
GiveUp(c) ==
  /\ at[c] = "refused" /\ renewed[c]
  /\ Go(c, "unauthorized")
  /\ UNCHANGED <<shared, holds, renewed, dropped, logins>>

\* Nine tenths of a token's life have passed.
FallDue(token) ==
  /\ token \in (1..issued) \ due
  /\ due' = due \cup {token}
  /\ UNCHANGED <<kept, issued, dead, at, holds, renewed, dropped, logins>>

\* A token expires, or the catalog no longer takes it.
Die(token) ==
  /\ token \in (1..issued) \ dead
  /\ dead' = dead \cup {token}
  /\ UNCHANGED <<kept, issued, due, at, holds, renewed, dropped, logins>>

Quiet == (\A c \in Calls : at[c] \in Ended) /\ UNCHANGED vars

Step(c) ==
  \/ TakeKept(c) \/ LogIn(c) \/ Issue(c) \/ Store(c) \/ Serve(c) \/ Fail(c)
  \/ Retry(c) \/ GiveUp(c)

Next ==
  \/ \E c \in Calls : Start(c) \/ Step(c)
  \/ \E token \in Tokens : FallDue(token) \/ Die(token)
  \/ Quiet

\* A call that has started goes on: an exchange ends at its deadline at the
\* latest.  Nothing is assumed of the clock, the provider or the catalog.
Spec == Init /\ [][Next]_vars
FairSpec == Spec /\ \A c \in Calls : WF_vars(Step(c))

-----------------------------------------------------------------------------
\* A token that was refused is not tried again by the same call: its second
\* request goes out with another one, though other calls log in, keep and drop
\* tokens in between ("replaced once and the request sent again", rest.rs:465).
RetryUsesAnother ==
  \A c \in Calls : at[c] = "send" => holds[c] \notin dropped[c]

\* Calls that log in at once do not undo a refusal: a token that one of them
\* was refused with, and dropped, is never kept again (rest.rs:495, 563).
DroppedStaysDropped == \A c \in Calls : kept \notin dropped[c]

\* A refused token is neither sent again nor kept again.
RefusedStaysRefused == RetryUsesAnother /\ DroppedStaysDropped

\* Every call ends, though every token it gets may be refused (rest.rs:474-500).
EveryCallEnds == \A c \in Calls : at[c] = "bearer" ~> at[c] \in Ended
=============================================================================
