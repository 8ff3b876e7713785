------------------------------ MODULE Catalogs_proofs ------------------------------
(***************************************************************************)
(* Proofs about catalogs and stores, each part on its own: the shared login *)
(* of a REST catalog client, for any number of calls and tokens; reads of  *)
(* objects in a store, for any number of readers, of any options, and of   *)
(* replacements; what a location is listed and opened as, for any files    *)
(* and objects; and what is configured, for any file and variables.        *)
(***************************************************************************)
EXTENDS CatalogLogin, ObjectReads, Locations, CatalogSettings, TLAPS

-----------------------------------------------------------------------------
(* The shared login. *)

\* The state, but for the number of logins, is of its type.
Typed ==
  /\ kept \in 0..MaxTokens
  /\ issued \in 0..MaxTokens /\ due \in SUBSET (1..issued) /\ dead \in SUBSET (1..issued)
  /\ at \in [Calls -> Places]
  /\ holds \in [Calls -> 0..MaxTokens]
  /\ renewed \in [Calls -> BOOLEAN]
  /\ dropped \in [Calls -> SUBSET (1..MaxTokens)]
  /\ logins \in [Calls -> Nat]

\* Nobody has a token that has not been issued, and whoever sends one has one.
OnlyIssued ==
  /\ kept <= issued
  /\ \A c \in Calls :
       /\ holds[c] <= issued
       /\ \A token \in dropped[c] : token <= issued
       /\ at[c] \in {"store", "send", "refused"} => holds[c] # NoToken

\* An answer of the identity provider that has not been read carries a token
\* that nobody keeps, holds or has dropped.
AnswersAreNew ==
  \A c \in Calls : at[c] = "store" =>
    /\ kept # holds[c]
    /\ \A d \in Calls : /\ holds[c] \notin dropped[d]
                        /\ d # c => holds[d] # holds[c]

\* A call logs in once for each time it needs a token.
LoginsCounted ==
  \A c \in Calls :
    logins[c] <= (IF renewed[c] THEN 1 ELSE 0) + (IF at[c] \in {"idle", "bearer"} THEN 0 ELSE 1)

\* The inductive invariant: that tokens are refused for good rests on answers
\* being new, which rests on tokens being issued once.
Inv ==
  /\ Typed /\ OnlyIssued /\ AnswersAreNew /\ LoginsCounted
  /\ DroppedStaysDropped /\ RetryUsesAnother

LEMMA InitInv == Init => Inv
  BY LoginAssumption DEF Init, Inv, Typed, OnlyIssued, AnswersAreNew, LoginsCounted,
     DroppedStaysDropped, RetryUsesAnother, NoToken, Places

LEMMA NextTyped == Inv /\ [Next]_vars => Typed'
<1> SUFFICES ASSUME Inv, [Next]_vars PROVE Typed'
  OBVIOUS
<1> USE LoginAssumption DEF Inv, Typed, Places, NoToken, Tokens
<1>1. ASSUME NEW c \in Calls, Start(c) \/ TakeKept(c) \/ LogIn(c) \/ Serve(c) \/ Fail(c) \/ GiveUp(c)
      PROVE  Typed'
  <2>1. CASE Start(c) \/ Fail(c) \/ GiveUp(c)
    BY <2>1 DEF Start, Fail, GiveUp, Go, shared
  <2>2. CASE TakeKept(c)
    BY <2>2 DEF TakeKept, Go, shared
  <2>3. CASE LogIn(c)
    BY <2>3 DEF LogIn, Go, shared
  <2>4. CASE Serve(c)
    BY <2>4 DEF Serve, Go, shared
  <2>5. QED
    BY <1>1, <2>1, <2>2, <2>3, <2>4
<1>2. ASSUME NEW c \in Calls, Issue(c) PROVE Typed'
  BY <1>2 DEF Issue, Go
<1>3. ASSUME NEW c \in Calls, Store(c) PROVE Typed'
  BY <1>3 DEF Store, Go
<1>4. ASSUME NEW c \in Calls, Retry(c) PROVE Typed'
  <2>1. holds[c] \in 1..MaxTokens
    BY <1>4 DEF Retry, OnlyIssued
  <2>2. dropped[c] \cup {holds[c]} \in SUBSET (1..MaxTokens)
    BY <2>1
  <2>3. QED
    BY <1>4, <2>2 DEF Retry, Go
<1>5. ASSUME NEW token \in Tokens, FallDue(token) \/ Die(token) PROVE Typed'
  BY <1>5 DEF FallDue, Die
<1>6. CASE UNCHANGED vars
  BY <1>6 DEF vars, shared
<1>7. QED
  BY <1>1, <1>2, <1>3, <1>4, <1>5, <1>6 DEF Next, Step, Quiet

LEMMA NextOnlyIssued == Inv /\ [Next]_vars => OnlyIssued'
<1> SUFFICES ASSUME Inv, [Next]_vars PROVE OnlyIssued'
  OBVIOUS
<1> USE LoginAssumption DEF Inv, Typed, OnlyIssued, Places, NoToken, Tokens
<1>1. ASSUME NEW c \in Calls, Start(c) \/ LogIn(c) \/ Serve(c) \/ Fail(c) \/ GiveUp(c)
      PROVE  OnlyIssued'
  BY <1>1 DEF Start, LogIn, Serve, Fail, GiveUp, Go, shared
<1>2. ASSUME NEW c \in Calls, TakeKept(c) PROVE OnlyIssued'
  BY <1>2 DEF TakeKept, Usable, Go, shared
<1>3. ASSUME NEW c \in Calls, Issue(c) PROVE OnlyIssued'
  BY <1>3 DEF Issue, Go
<1>4. ASSUME NEW c \in Calls, Store(c) PROVE OnlyIssued'
  BY <1>4 DEF Store, Go
<1>5. ASSUME NEW c \in Calls, Retry(c) PROVE OnlyIssued'
  BY <1>5 DEF Retry, Go
<1>6. ASSUME NEW token \in Tokens, FallDue(token) \/ Die(token) PROVE OnlyIssued'
  BY <1>6 DEF FallDue, Die
<1>7. CASE UNCHANGED vars
  BY <1>7 DEF vars, shared
<1>8. QED
  BY <1>1, <1>2, <1>3, <1>4, <1>5, <1>6, <1>7 DEF Next, Step, Quiet

LEMMA NextAnswersAreNew == Inv /\ [Next]_vars => AnswersAreNew'
<1> SUFFICES ASSUME Inv, [Next]_vars PROVE AnswersAreNew'
  OBVIOUS
<1> USE LoginAssumption DEF Inv, Typed, AnswersAreNew, Places, NoToken, Tokens
<1>1. ASSUME NEW c \in Calls, Start(c) \/ LogIn(c) \/ Serve(c) \/ Fail(c) \/ GiveUp(c)
      PROVE  AnswersAreNew'
  BY <1>1 DEF Start, LogIn, Serve, Fail, GiveUp, Go, shared
\* The token taken is the kept one, which no unread answer carries.
<1>2. ASSUME NEW c \in Calls, TakeKept(c) PROVE AnswersAreNew'
  BY <1>2 DEF TakeKept, Usable, Go, shared
\* The token issued is beyond all that were.
<1>3. ASSUME NEW c \in Calls, Issue(c) PROVE AnswersAreNew'
  BY <1>3 DEF Issue, Go, OnlyIssued
<1>4. ASSUME NEW c \in Calls, Store(c) PROVE AnswersAreNew'
  BY <1>4 DEF Store, Go
<1>5. ASSUME NEW c \in Calls, Retry(c) PROVE AnswersAreNew'
  BY <1>5 DEF Retry, Go, OnlyIssued
<1>6. ASSUME NEW token \in Tokens, FallDue(token) \/ Die(token) PROVE AnswersAreNew'
  BY <1>6 DEF FallDue, Die
<1>7. CASE UNCHANGED vars
  BY <1>7 DEF vars, shared
<1>8. QED
  BY <1>1, <1>2, <1>3, <1>4, <1>5, <1>6, <1>7 DEF Next, Step, Quiet

LEMMA NextLoginsCounted == Inv /\ [Next]_vars => LoginsCounted'
<1> SUFFICES ASSUME Inv, [Next]_vars PROVE LoginsCounted'
  OBVIOUS
<1> USE DEF Inv, Typed, LoginsCounted, Places
<1>1. ASSUME NEW c \in Calls, Start(c) \/ TakeKept(c) \/ Serve(c) \/ Fail(c) \/ GiveUp(c)
      PROVE  LoginsCounted'
  BY <1>1 DEF Start, TakeKept, Serve, Fail, GiveUp, Go, shared
<1>2. ASSUME NEW c \in Calls, LogIn(c) PROVE LoginsCounted'
  BY <1>2 DEF LogIn, Go, shared
<1>3. ASSUME NEW c \in Calls, Issue(c) \/ Store(c) PROVE LoginsCounted'
  BY <1>3 DEF Issue, Store, Go
<1>4. ASSUME NEW c \in Calls, Retry(c) PROVE LoginsCounted'
  BY <1>4 DEF Retry, Go
<1>5. ASSUME NEW token \in Tokens, FallDue(token) \/ Die(token) PROVE LoginsCounted'
  BY <1>5 DEF FallDue, Die
<1>6. CASE UNCHANGED vars
  BY <1>6 DEF vars, shared
<1>7. QED
  BY <1>1, <1>2, <1>3, <1>4, <1>5, <1>6 DEF Next, Step, Quiet

\* The two properties themselves: what is kept, and what is sent, changes only
\* to an unread answer's token, to the kept one, or to none.
LEMMA NextRefusals == Inv /\ [Next]_vars => DroppedStaysDropped' /\ RetryUsesAnother'
<1> SUFFICES ASSUME Inv, [Next]_vars PROVE DroppedStaysDropped' /\ RetryUsesAnother'
  OBVIOUS
<1> USE DEF Inv, Typed, DroppedStaysDropped, RetryUsesAnother, Places, NoToken
<1>1. ASSUME NEW c \in Calls, Start(c) \/ TakeKept(c) \/ LogIn(c) \/ Serve(c) \/ Fail(c) \/ GiveUp(c)
      PROVE  DroppedStaysDropped' /\ RetryUsesAnother'
  BY <1>1 DEF Start, TakeKept, LogIn, Serve, Fail, GiveUp, Go, shared
<1>2. ASSUME NEW c \in Calls, Issue(c) PROVE DroppedStaysDropped' /\ RetryUsesAnother'
  BY <1>2 DEF Issue, Go
<1>3. ASSUME NEW c \in Calls, Store(c) PROVE DroppedStaysDropped' /\ RetryUsesAnother'
  BY <1>3 DEF Store, Go, AnswersAreNew
<1>4. ASSUME NEW c \in Calls, Retry(c) PROVE DroppedStaysDropped' /\ RetryUsesAnother'
  BY <1>4 DEF Retry, Go, OnlyIssued
<1>5. ASSUME NEW token \in Tokens, FallDue(token) \/ Die(token)
      PROVE  DroppedStaysDropped' /\ RetryUsesAnother'
  BY <1>5 DEF FallDue, Die
<1>6. CASE UNCHANGED vars
  BY <1>6 DEF vars, shared
<1>7. QED
  BY <1>1, <1>2, <1>3, <1>4, <1>5, <1>6 DEF Next, Step, Quiet

LEMMA Invariance == Spec => []Inv
<1>1. Inv /\ [Next]_vars => Inv'
  BY NextTyped, NextOnlyIssued, NextAnswersAreNew, NextLoginsCounted, NextRefusals DEF Inv
<1>2. QED
  BY InitInv, <1>1, PTL DEF Spec

\* The client's state is of its type, and no call logs in more than twice,
\* however many tokens are refused (rest.rs:465-500).
THEOREM TypeCorrect == Spec => []TypeOK
<1>1. Inv => TypeOK
  <2> SUFFICES ASSUME Inv PROVE TypeOK
    OBVIOUS
  <2>1. logins \in [Calls -> 0..2]
    BY DEF Inv, Typed, LoginsCounted
  <2>2. QED
    BY <2>1, LoginAssumption DEF Inv, Typed, TypeOK, Tokens, NoToken
<1>2. QED
  BY Invariance, <1>1, PTL

\* No call sends again the token it was refused with, whatever the other calls
\* log in for, keep and drop meanwhile (rest.rs:491-499).
THEOREM RefusedIsNotSentAgain == Spec => []RetryUsesAnother
<1>1. Inv => RetryUsesAnother
  BY DEF Inv
<1>2. QED
  BY Invariance, <1>1, PTL

\* A token that was refused and dropped is never kept again by any of the
\* calls that were logging in at the time (rest.rs:495, 563).
THEOREM DroppedForGood == Spec => []DroppedStaysDropped
<1>1. Inv => DroppedStaysDropped
  BY DEF Inv
<1>2. QED
  BY Invariance, <1>1, PTL

\* A token that was refused is neither sent again by the call nor kept again by
\* any other (rest.rs:491-499, 563).
THEOREM RefusedForGood == Spec => []RefusedStaysRefused
<1>1. RetryUsesAnother /\ DroppedStaysDropped => RefusedStaysRefused
  BY DEF RefusedStaysRefused
<1>2. QED
  BY RefusedIsNotSentAgain, DroppedForGood, <1>1, PTL

-----------------------------------------------------------------------------
(* Reads of an object. *)

Fact == [version : Nat, by : Options]
Took == [version : Nat, at : Nat]
Read == [at : {"idle", "plan", "stream", "resume", "done", "failed"}, options : Options, version : Nat,
         pass : Passes, from : Nat, to : Nat, pos : Nat, serves : Nat, arrived : BOOLEAN, took : Seq(Took),
         layout : {Nothing} \cup Fact, schema : {Nothing} \cup Fact]

\* What has arrived is of one version, and each byte of it once.
Consecutive(read) ==
  /\ read.pos = read.from + Len(read.took)
  /\ \A i \in 1..Len(read.took) : read.took[i] = [version |-> read.version, at |-> read.from + i - 1]
  /\ read.at = "stream" => read.serves = read.version
  /\ read.at = "idle" => read.took = <<>> /\ read.layout = Nothing /\ read.schema = Nothing

\* What a read goes by was learned of its version, by a reader of its identity.
LearnedFor(fact, identity, version) ==
  fact \in Fact /\ fact.version = version /\ ScopeId(fact.by) = identity
GoesBy(read, fact) == fact = Nothing \/ LearnedFor(fact, ScopeId(read.options), read.version)
ReadIsTrue(read) == Consecutive(read) /\ GoesBy(read, read.layout) /\ GoesBy(read, read.schema)

\* What is remembered is filed under what it was learned of.
Filed(cache) == \A k \in DOMAIN cache : LearnedFor(cache[k], k.identity, k.version)

\* The inductive invariant.
ObjectInv ==
  /\ object \in Nat /\ reading \in [Readers -> Read]
  /\ \A r \in Readers : ReadIsTrue(reading[r])
  /\ Filed(layouts) /\ Filed(schemas)

\* Who reads under one scope is one principal.
LEMMA ScopesTell == ASSUME NEW o \in Options, NEW p \in Options, ScopeId(o) = ScopeId(p) PROVE SamePrincipal(o, p)
<1> USE ObjectAssumption DEF Private, ScopeId, SamePrincipal
<1>1. CASE o.declared # NoScope
  <2>1. p.declared # NoScope
    BY <1>1
  <2>2. QED
    BY <1>1, <2>1
<1>2. CASE o.declared = NoScope /\ o.material # NoScope
  <2>1. p.declared = NoScope
    BY <1>2
  <2>2. p.material # NoScope
    BY <1>2, <2>1
  <2>3. QED
    BY <1>2, <2>1, <2>2
<1>3. CASE o.declared = NoScope /\ o.material = NoScope
  <2>1. p.declared = NoScope
    BY <1>3
  <2>2. p.material = NoScope
    BY <1>3, <2>1
  <2>3. QED
    BY <1>3, <2>1, <2>2
<1>4. QED
  BY <1>1, <1>2, <1>3

LEMMA RememberFiled ==
  ASSUME NEW cache, Filed(cache), NEW key, NEW fact, LearnedFor(fact, key.identity, key.version)
  PROVE  Filed(Remember(cache, key, fact))
  BY DEF Filed, Remember

LEMMA OneRead ==
  ASSUME ObjectInv, NEW r \in Readers, NEW read \in Read, reading' = [reading EXCEPT ![r] = read], ReadIsTrue(read),
         object' = object, Filed(layouts)', Filed(schemas)'
  PROVE  ObjectInv'
<1>1. \A c \in Readers : reading'[c] = IF c = r THEN read ELSE reading[c]
  BY DEF ObjectInv
<1>2. QED
  BY <1>1 DEF ObjectInv

LEMMA ObjectInit_Inv == ObjectInit => ObjectInv
<1> SUFFICES ASSUME ObjectInit PROVE ObjectInv
  OBVIOUS
<1>1. ASSUME NEW o \in Options PROVE NotReading(o) \in Read /\ ReadIsTrue(NotReading(o))
  <2>1. <<>> \in Seq(Took) /\ Len(<<>>) = 0
    OBVIOUS
  <2>2. NotReading(o) \in Read
    BY <2>1 DEF NotReading, Read, Passes
  <2>3. ReadIsTrue(NotReading(o))
    BY <2>1 DEF NotReading, ReadIsTrue, Consecutive, GoesBy
  <2>4. QED
    BY <2>2, <2>3
<1>2. Filed(<<>>)
  BY DEF Filed
<1>3. QED
  BY <1>1, <1>2 DEF ObjectInit, ObjectInv

\* Asking for what is left: an answer is of the version that was looked up.
LEMMA RequestTrue ==
  ASSUME ObjectInv, NEW r \in Readers, NEW read \in Read, ReadIsTrue(read), read.at # "idle",
         Request(r, read), UNCHANGED <<object, layouts, schemas>>
  PROVE  ObjectInv'
<1> DEFINE asked == [read EXCEPT !.at = "stream", !.serves = object, !.arrived = FALSE]
           refused == [read EXCEPT !.at = "failed"]
<1>1. object \in Nat /\ Filed(layouts)' /\ Filed(schemas)'
  BY DEF ObjectInv
<1>2. CASE Answers(read.version)
  <2>1. reading' = [reading EXCEPT ![r] = asked]
    BY <1>2 DEF Request, Becomes
  <2>2. asked \in Read
    BY <1>1 DEF Read
  <2>3. ReadIsTrue(asked)
    BY <1>2 DEF Read, ReadIsTrue, Consecutive, GoesBy, Answers
  <2> HIDE DEF asked
  <2>4. QED
    BY <1>1, <2>1, <2>2, <2>3, OneRead
<1>3. CASE ~Answers(read.version)
  <2>1. reading' = [reading EXCEPT ![r] = refused]
    BY <1>3 DEF Request, Becomes
  <2>2. refused \in Read
    BY DEF Read
  <2>3. ReadIsTrue(refused)
    BY DEF Read, ReadIsTrue, Consecutive, GoesBy
  <2> HIDE DEF refused
  <2>4. QED
    BY <1>1, <2>1, <2>2, <2>3, OneRead
<1>4. QED
  BY <1>2, <1>3

LEMMA ReadStep_Inv == ASSUME ObjectInv, NEW r \in Readers, ReadStep(r) PROVE ObjectInv'
<1> DEFINE read == reading[r]
<1>0. read \in Read /\ ReadIsTrue(read) /\ object \in Nat /\ Filed(layouts) /\ Filed(schemas)
  BY DEF ObjectInv
<1>1. CASE Lookup(r)
  <2> DEFINE next == [read EXCEPT !.at = "plan", !.version = object]
  <2>3. next \in Read
    BY <1>0 DEF Read
  <2>4. ReadIsTrue(next)
    <3>1. read.took = <<>> /\ Len(read.took) = 0 /\ read.layout = Nothing /\ read.schema = Nothing
      BY <1>0, <1>1 DEF Lookup, ReadIsTrue, Consecutive
    <3>2. QED
      BY <1>0, <3>1 DEF Read, ReadIsTrue, Consecutive, GoesBy
  <2>1. next \in Read /\ ReadIsTrue(next)
    BY <2>3, <2>4
  <2>2. QED
    BY <1>0, <1>1, <2>1, OneRead DEF Lookup, Becomes
<1>2. CASE UseLayout(r)
  <2> DEFINE next == [read EXCEPT !.pass = "schema", !.layout = layouts[KeyOf(r)]]
  <2>1. LearnedFor(layouts[KeyOf(r)], ScopeId(read.options), read.version)
    BY <1>0, <1>2 DEF UseLayout, Filed, KeyOf
  <2>2. next \in Read
    BY <1>0, <2>1 DEF Read, LearnedFor, Passes
  <2>3. ReadIsTrue(next)
    BY <1>0, <1>2, <2>1 DEF Read, ReadIsTrue, Consecutive, GoesBy, UseLayout
  <2>4. QED
    BY <1>0, <1>2, <2>2, <2>3, OneRead DEF UseLayout, Becomes
<1>3. CASE UseSchema(r)
  <2> DEFINE next == [read EXCEPT !.pass = "rows", !.schema = schemas[KeyOf(r)]]
  <2>1. LearnedFor(schemas[KeyOf(r)], ScopeId(read.options), read.version)
    BY <1>0, <1>3 DEF UseSchema, Filed, KeyOf
  <2>2. next \in Read
    BY <1>0, <2>1 DEF Read, LearnedFor, Passes
  <2>3. ReadIsTrue(next)
    BY <1>0, <1>3, <2>1 DEF Read, ReadIsTrue, Consecutive, GoesBy, UseSchema
  <2>4. QED
    BY <1>0, <1>3, <2>2, <2>3, OneRead DEF UseSchema, Becomes
<1>4. CASE Open(r)
  <2> DEFINE from == RangeOf(read).from
             next == [read EXCEPT !.from = from, !.to = RangeOf(read).to, !.pos = from, !.took = <<>>]
  <2>1. read.layout.version \in Nat
    BY <1>0 DEF Read, Fact, Nothing
  <2>2. from \in Nat /\ RangeOf(read).to \in Nat
    BY <2>1, ObjectAssumption DEF RangeOf, MemberStart
  <2>3. <<>> \in Seq(Took) /\ Len(<<>>) = 0
    OBVIOUS
  <2> HIDE DEF from
  <2>4. next \in Read /\ next.at = "plan"
    BY <1>0, <1>4, <2>2, <2>3 DEF Read, Open
  <2>5. ReadIsTrue(next)
    BY <1>0, <1>4, <2>2, <2>3 DEF Read, ReadIsTrue, Consecutive, GoesBy, Open
  <2>6. Request(r, next) /\ UNCHANGED <<object, layouts, schemas>>
    BY <1>4 DEF Open, from
  <2> HIDE DEF next
  <2>7. QED
    BY <2>4, <2>5, <2>6, RequestTrue
<1>5. CASE Unanswered(r)
  <2> DEFINE next == [read EXCEPT !.at = "failed"]
  <2>1. next \in Read /\ ReadIsTrue(next)
    BY <1>0, <1>5 DEF Read, ReadIsTrue, Consecutive, GoesBy
  <2>2. QED
    BY <1>0, <1>5, <2>1, OneRead DEF Unanswered, Becomes
<1>6. CASE Arrive(r)
  <2> DEFINE byte == [version |-> read.serves, at |-> read.pos]
             next == [read EXCEPT !.pos = @ + 1, !.arrived = TRUE, !.took = Append(@, byte)]
  <2>1. byte \in Took /\ read.took \in Seq(Took) /\ read.at = "stream" /\ read.pos \in Nat /\ read.from \in Nat
    BY <1>0, <1>6 DEF Read, Took, Arrive
  <2>2. byte = [version |-> read.version, at |-> read.from + Len(read.took)]
    BY <1>0, <2>1 DEF ReadIsTrue, Consecutive
  <2> HIDE DEF byte
  <2>10. Append(read.took, byte) \in Seq(Took) /\ read.pos + 1 \in Nat
    BY <2>1
  <2>3. next \in Read
    BY <1>0, <2>10 DEF Read
  <2>4. /\ next.pos = read.pos + 1 /\ next.took = Append(read.took, byte) /\ next.from = read.from /\ next.at = read.at
        /\ next.version = read.version /\ next.serves = read.serves /\ next.options = read.options
        /\ next.layout = read.layout /\ next.schema = read.schema
    BY <1>0 DEF Read
  <2> HIDE DEF next
  <2>5. /\ Len(next.took) = Len(read.took) + 1
        /\ \A i \in 1..Len(next.took) : next.took[i] = IF i = Len(read.took) + 1 THEN byte ELSE read.took[i]
    BY <2>1, <2>4
  <2>6. \A i \in 1..Len(next.took) : next.took[i] = [version |-> next.version, at |-> next.from + i - 1]
    <3> SUFFICES ASSUME NEW i \in 1..Len(next.took)
                 PROVE  next.took[i] = [version |-> next.version, at |-> next.from + i - 1]
      OBVIOUS
    <3>1. CASE i = Len(read.took) + 1
      BY <2>1, <2>2, <2>4, <2>5, <3>1
    <3>2. CASE i # Len(read.took) + 1
      BY <1>0, <2>1, <2>4, <2>5, <3>2, SMTT(20) DEF ReadIsTrue, Consecutive
    <3>3. QED
      BY <3>1, <3>2
  <2>7. ReadIsTrue(next)
    BY <1>0, <2>1, <2>4, <2>5, <2>6, SMTT(20) DEF ReadIsTrue, Consecutive, GoesBy
  <2>8. reading' = [reading EXCEPT ![r] = next] /\ UNCHANGED <<object, layouts, schemas>>
    BY <1>6 DEF Arrive, Becomes, next, byte
  <2>9. QED
    BY <1>0, <2>3, <2>7, <2>8, OneRead
<1>7. CASE TimeOut(r)
  <2> DEFINE next == [read EXCEPT !.at = IF read.arrived /\ read.pos < read.to THEN "resume" ELSE "failed"]
  <2>1. next \in Read /\ ReadIsTrue(next)
    BY <1>0, <1>7 DEF Read, ReadIsTrue, Consecutive, GoesBy
  <2>2. QED
    BY <1>0, <1>7, <2>1, OneRead DEF TimeOut, Becomes
<1>8. CASE Resume(r)
  BY <1>0, <1>8, RequestTrue DEF Resume
<1>9. ASSUME NEW pass \in Passes, Enough(r, pass)
      PROVE  Learned(r) \in Fact /\ LearnedFor(Learned(r), KeyOf(r).identity, KeyOf(r).version)
             /\ LearnedFor(Learned(r), ScopeId(read.options), read.version) /\ read.at = "stream"
  <2>1. /\ read.took \in Seq(Took) /\ read.pos > read.from /\ read.pos = read.from + Len(read.took)
        /\ read.from \in Nat /\ read.version \in Nat /\ read.options \in Options /\ read.at = "stream"
    BY <1>0, <1>9 DEF Enough, Read, ReadIsTrue, Consecutive
  <2>2. Len(read.took) >= 1 /\ Head(read.took) = read.took[1]
    BY <2>1
  <2>5. read.took[1] = [version |-> read.version, at |-> read.from + 1 - 1]
    BY <1>0, <2>1, <2>2 DEF ReadIsTrue, Consecutive
  <2>3. Head(read.took).version = read.version
    BY <2>2, <2>5
  <2>4. QED
    BY <2>1, <2>3 DEF Learned, LearnedFor, Fact, KeyOf
<1>10. CASE EndLayout(r)
  <2> DEFINE next == [read EXCEPT !.at = "plan", !.pass = "schema", !.layout = Learned(r)]
  <2>1. /\ Learned(r) \in Fact /\ LearnedFor(Learned(r), KeyOf(r).identity, KeyOf(r).version)
        /\ LearnedFor(Learned(r), ScopeId(read.options), read.version) /\ read.at = "stream"
    BY <1>9, <1>10 DEF EndLayout, Passes
  <2>2. next \in Read
    BY <1>0, <2>1 DEF Read, Passes
  <2>3. ReadIsTrue(next)
    BY <1>0, <2>1 DEF Read, ReadIsTrue, Consecutive, GoesBy
  <2>4. Filed(layouts)' /\ Filed(schemas)'
    BY <1>0, <1>10, <2>1, RememberFiled DEF EndLayout
  <2>5. QED
    BY <1>10, <2>2, <2>3, <2>4, OneRead DEF EndLayout, Becomes
<1>11. CASE EndSchema(r)
  <2> DEFINE next == [read EXCEPT !.at = "plan", !.pass = "rows", !.schema = Learned(r)]
  <2>1. /\ Learned(r) \in Fact /\ LearnedFor(Learned(r), KeyOf(r).identity, KeyOf(r).version)
        /\ LearnedFor(Learned(r), ScopeId(read.options), read.version) /\ read.at = "stream"
    BY <1>9, <1>11 DEF EndSchema, Passes
  <2>2. next \in Read
    BY <1>0, <2>1 DEF Read, Passes
  <2>3. ReadIsTrue(next)
    BY <1>0, <2>1 DEF Read, ReadIsTrue, Consecutive, GoesBy
  <2>4. Filed(layouts)' /\ Filed(schemas)'
    BY <1>0, <1>11, <2>1, RememberFiled DEF EndSchema
  <2>5. QED
    BY <1>11, <2>2, <2>3, <2>4, OneRead DEF EndSchema, Becomes
<1>12. CASE EndRows(r)
  <2> DEFINE next == [read EXCEPT !.at = "done"]
  <2>1. next \in Read /\ ReadIsTrue(next)
    BY <1>0, <1>12 DEF Read, ReadIsTrue, Consecutive, GoesBy
  <2>2. QED
    BY <1>0, <1>12, <2>1, OneRead DEF EndRows, Becomes
<1>13. QED
  BY <1>1, <1>2, <1>3, <1>4, <1>5, <1>6, <1>7, <1>8, <1>10, <1>11, <1>12 DEF ReadStep

LEMMA ObjectNext_Inv == ObjectInv /\ [ObjectNext]_objectVars => ObjectInv'
<1> SUFFICES ASSUME ObjectInv, [ObjectNext]_objectVars PROVE ObjectInv'
  OBVIOUS
<1>1. CASE Replace
  BY <1>1 DEF Replace, ObjectInv
<1>2. CASE UNCHANGED objectVars
  BY <1>2 DEF objectVars, ObjectInv
<1>3. QED
  BY <1>1, <1>2, ReadStep_Inv DEF ObjectNext

\* Reads are true, ReadsAreTrue: of any object, however often it is replaced, for any
\* readers whose scopes tell them apart.
THEOREM ReadsAreTrueAlways == ObjectSpec => []ReadsAreTrue
<1>1. ObjectInv => ReadsAreTrue
  <2> SUFFICES ASSUME ObjectInv PROVE ReadsAreTrue
    OBVIOUS
  <2>1. ASSUME NEW r \in Readers
        PROVE  /\ \A i \in DOMAIN reading[r].took :
                    reading[r].took[i] = [version |-> reading[r].version, at |-> reading[r].from + i - 1]
               /\ reading[r].layout.version \in {0, reading[r].version}
               /\ reading[r].schema.version \in {0, reading[r].version}
               /\ \A fact \in {reading[r].layout, reading[r].schema} :
                    fact # Nothing => SamePrincipal(reading[r].options, fact.by)
    <3>1. reading[r] \in Read /\ ReadIsTrue(reading[r])
      BY DEF ObjectInv
    <3>2. DOMAIN reading[r].took = 1..Len(reading[r].took)
      BY <3>1 DEF Read
    <3>3. \A fact \in {reading[r].layout, reading[r].schema} :
            /\ fact.version \in {0, reading[r].version}
            /\ fact # Nothing => SamePrincipal(reading[r].options, fact.by)
      BY <3>1, ScopesTell DEF Read, ReadIsTrue, GoesBy, LearnedFor, Nothing, Fact
    <3>4. QED
      BY <3>1, <3>2, <3>3 DEF ReadIsTrue, Consecutive
  <2>2. QED
    BY <2>1 DEF ReadsAreTrue, ReadsOneVersion, LearnsOnItsOwn
<1>2. QED
  BY <1>1, ObjectInit_Inv, ObjectNext_Inv, PTL DEF ObjectSpec

-----------------------------------------------------------------------------
(* Places. *)

\* The places that are listed and opened.
Segments == Seq(STRING)
PlaceType == [where : {"disk", "bucket", "catalog", "database", "none"}, path : Seq(Segments)]

\* An entry is labelled as what its place opens as.
EntryIsTrue(e) ==
  /\ e.place \in PlaceType /\ e.place.where \in {"disk", "bucket"}
  /\ e.format # None => LoadTable(e.place).format = e.format
  /\ e.format = None /\ e.place.where = "disk" => LoadTable(e.place).format \in {"parquet", "refused"}

\* What has been opened is what its place opens as.
AnswerIsTrue ==
  answer.of # Nowhere => answer.source = WithJsonPath(ResolveSource(answer.of, answer.given), answer.records)

\* The inductive invariant.
PlacesInv ==
  /\ world \in Worlds /\ listed.of \in PlaceType /\ \A e \in listed.entries : EntryIsTrue(e)
  /\ AnswerIsTrue /\ AsksAsTheCaller

LEMMA WorldSound ==
  ASSUME world \in Worlds, NEW e \in world
  PROVE  /\ e.where \in {"disk", "bucket"} /\ (e.where = "bucket" => e.kind # "dir")
         /\ e.path \in Seq(Segments) /\ e.path # <<>> /\ Len(e.path) \in Nat /\ Len(e.path) > 0
<1>1. e.path \in Seq(Segments) /\ e.path # <<>>
  BY LocationsAssumption DEF Segments
<1>2. Len(e.path) \in Nat /\ Len(e.path) > 0
  BY <1>1
<1>3. QED
  BY <1>1, <1>2, LocationsAssumption

LEMMA KnownSound == ASSUME world \in Worlds PROVE Known \subseteq PlaceType
<1>1. ASSUME NEW e \in world PROVE [where |-> e.where, path |-> e.path] \in PlaceType
  BY <1>1, WorldSound DEF PlaceType
<1>2. ASSUME NEW e \in world, Len(e.path) > 1 PROVE [where |-> e.where, path |-> Front(e.path)] \in PlaceType
  <2>1. e.path \in Seq(Segments) /\ Len(e.path) \in Nat /\ e.where \in {"disk", "bucket"}
    BY WorldSound
  <2>2. Front(e.path) \in Seq(Segments)
    BY <2>1, <1>2 DEF Front
  <2>3. QED
    BY <2>1, <2>2 DEF PlaceType
<1>3. Elsewhere \subseteq PlaceType
  BY LocationsAssumption DEF PlaceType, Segments
<1>4. QED
  BY <1>1, <1>2, <1>3 DEF Known

\* A directory of the disk opens as it is labelled.
LEMMA DirectoryOpens ==
  ASSUME NEW p, p.where = "disk", IsDir(p)
  PROVE  /\ Label(p) # None => LoadTable(p).format = Label(p)
         /\ Label(p) = None => LoadTable(p).format \in {"parquet", "refused"}
<1>1. LoadTable(p) = LoadDirectory(p)
  BY DEF LoadTable, NeedsProbe
<1>2. CASE IsDir(Under(p, DeltaLog))
  BY <1>1, <1>2 DEF LoadDirectory, Label, Source, None
<1>3. CASE ~IsDir(Under(p, DeltaLog)) /\ IsDir(Under(p, Metadata))
  BY <1>1, <1>3 DEF LoadDirectory, Label, Source, None
<1>4. CASE ~IsDir(Under(p, DeltaLog)) /\ ~IsDir(Under(p, Metadata))
  BY <1>1, <1>4 DEF LoadDirectory, Label, Source, NotASource, None
<1>5. QED
  BY <1>2, <1>3, <1>4

\* A file with a name that says what it is opens as that.
LEMMA FileOpens ==
  ASSUME NEW p, p.where \in {"disk", "bucket"}, ~IsDir(p), FormatFromName(Name(p)).format # None
  PROVE  LoadTable(p).format = FormatFromName(Name(p)).format
<1>1. LoadTable(p) = Source(FormatFromName(Name(p)).format, FormatFromName(Name(p)).codec)
  BY DEF LoadTable, NeedsProbe
<1>2. QED
  BY <1>1 DEF Source

LEMMA DirectoryIsTrue ==
  ASSUME world \in Worlds, NEW place, place.where = "disk", NEW e \in ListDirectory(place)
  PROVE  EntryIsTrue(e)
<1> DEFINE children == {p \in {[where |-> f.where, path |-> f.path] : f \in {g \in world : Child(place, g)}} : ~Hidden(p)}
           files == {p \in children : ~IsDir(p) /\ FormatFromName(Name(p)).format # None}
<1>1. ASSUME NEW p \in children PROVE p \in PlaceType /\ p.where = "disk"
  <2>1. PICK f \in world : Child(place, f) /\ p = [where |-> f.where, path |-> f.path]
    OBVIOUS
  <2>2. QED
    BY <2>1, WorldSound DEF Child, PlaceType
<1>2. e \in {Listed(p, "dir", Label(p)) : p \in {q \in children : IsDir(q)}}
        \cup {Listed(p, "file", FormatFromName(Name(p)).format) : p \in files}
  BY DEF ListDirectory
<1> HIDE DEF children
<1>3. ASSUME NEW p \in children, IsDir(p), e = Listed(p, "dir", Label(p)) PROVE EntryIsTrue(e)
  <2>1. e.place = p /\ e.format = Label(p)
    BY <1>3 DEF Listed
  <2>2. QED
    BY <1>1, <1>3, <2>1, DirectoryOpens DEF EntryIsTrue
<1>4. ASSUME NEW p \in children, ~IsDir(p), FormatFromName(Name(p)).format # None,
             e = Listed(p, "file", FormatFromName(Name(p)).format)
      PROVE  EntryIsTrue(e)
  <2>1. e.place = p /\ e.format = FormatFromName(Name(p)).format
    BY <1>4 DEF Listed
  <2>2. QED
    BY <1>1, <1>4, <2>1, FileOpens DEF EntryIsTrue
<1>5. QED
  BY <1>2, <1>3, <1>4

LEMMA ListingIsTrue ==
  ASSUME world \in Worlds, NEW place \in PlaceType, place.where = "bucket", NEW e \in BuildListing(place)
  PROVE  EntryIsTrue(e)
<1> DEFINE names == {f.path[Len(place.path) + 1] : f \in Below(place)}
           objects == {n \in names : At(Under(place, n)) # {} /\ n[1] # "" /\ FormatFromName(n).format # None}
           prefixes == {n \in names : Below(Under(place, n)) # {}}
<1>1. place.path \in Seq(Segments) /\ Len(place.path) \in Nat
  BY DEF PlaceType
<1>2. ASSUME NEW n \in names PROVE n \in Segments
  <2>1. PICK f \in Below(place) : n = f.path[Len(place.path) + 1]
    OBVIOUS
  <2>2. f \in world /\ IsStrictPrefix(place.path, f.path)
    BY DEF Below
  <2>3. f.path \in Seq(Segments) /\ Len(f.path) \in Nat
    BY <2>2, WorldSound
  <2>4. Len(place.path) < Len(f.path)
    <3> DEFINE s == place.path
               t == f.path
    <3>1. s \in Seq(Segments) /\ t \in Seq(Segments) /\ s # t /\ Len(s) <= Len(t)
          /\ SubSeq(s, 1, Len(s)) = SubSeq(t, 1, Len(s))
      BY <1>1, <2>2, <2>3 DEF IsStrictPrefix, IsPrefix
    <3> HIDE DEF s, t
    <3>2. ASSUME Len(s) = Len(t) PROVE FALSE
      <4>1. \A i \in 1 .. Len(s) : SubSeq(s, 1, Len(s))[i] = s[i] /\ SubSeq(t, 1, Len(t))[i] = t[i]
        BY <3>1, <3>2
      <4>2. \A i \in 1 .. Len(s) : s[i] = t[i]
        BY <3>1, <3>2, <4>1
      <4>3. s = t
        BY <3>1, <3>2, <4>2
      <4>4. QED
        BY <3>1, <4>3
    <3>3. Len(s) \in Nat /\ Len(t) \in Nat
      BY <3>1
    <3>4. QED
      BY <3>1, <3>2, <3>3 DEF s, t
  <2>5. QED
    BY <1>1, <2>1, <2>3, <2>4
<1>3. ASSUME NEW n \in names
      PROVE  /\ Under(place, n) \in PlaceType /\ Under(place, n).where = "bucket" /\ Name(Under(place, n)) = n
             /\ ~IsDir(Under(place, n))
  <2>1. Append(place.path, n) \in Seq(Segments) /\ Append(place.path, n)[Len(Append(place.path, n))] = n
    BY <1>1, <1>2
  <2>2. Under(place, n) = [where |-> "bucket", path |-> Append(place.path, n)]
    BY DEF Under, PlaceType
  <2>3. Name(Under(place, n)) = n
    BY <2>1, <2>2 DEF Name, Last
  <2>4. ~IsDir(Under(place, n))
    BY <2>2, WorldSound DEF IsDir, At
  <2>5. QED
    BY <2>1, <2>2, <2>3, <2>4 DEF PlaceType
<1>4. e \in {Listed(Under(place, n), "dir", None) : n \in prefixes}
        \cup {Listed(Under(place, n), "file", FormatFromName(n).format) : n \in objects}
  BY DEF BuildListing
<1> HIDE DEF names
<1>5. ASSUME NEW n \in names, e = Listed(Under(place, n), "dir", None) PROVE EntryIsTrue(e)
  <2>1. e.place = Under(place, n) /\ e.format = None
    BY <1>5 DEF Listed
  <2>2. QED
    BY <1>3, <2>1 DEF EntryIsTrue
<1>6. ASSUME NEW n \in names, FormatFromName(n).format # None,
             e = Listed(Under(place, n), "file", FormatFromName(n).format)
      PROVE  EntryIsTrue(e)
  <2>1. e.place = Under(place, n) /\ e.format = FormatFromName(n).format
    BY <1>6 DEF Listed
  <2>2. LoadTable(Under(place, n)).format = FormatFromName(n).format
    BY <1>3, <1>6, FileOpens
  <2>3. QED
    BY <1>3, <1>6, <2>1, <2>2 DEF EntryIsTrue
<1>7. QED
  BY <1>4, <1>5, <1>6

-----------------------------------------------------------------------------
\* What a step leaves alone when only the listing, the answer and the sent change.
LEMMA StaysTrue ==
  ASSUME posture' = posture, world' = world, vended' = vended
  PROVE  /\ \A e : EntryIsTrue(e)' = EntryIsTrue(e)
         /\ \A p, given, records : WithJsonPath(ResolveSource(p, given), records)' = WithJsonPath(ResolveSource(p, given), records)
  BY DEF EntryIsTrue, LoadTable, NeedsProbe, MayProbe, MayList, LooksLikeIceberg, LoadDirectory, IsDir, At, Below,
         ListParquetFiles, SniffMagic, WithJsonPath, ResolveSource

\* A store is asked as whom the posture lets it be asked, and about what no one has named.
LEMMA AskIsTrue ==
  ASSUME AsksAsTheCaller, posture' = posture, vended' = vended, NEW probe \in BOOLEAN, NEW given,
         sent' = sent \/ Asks(probe, given), sent' # sent => MayList /\ (probe => posture # "never" /\ given = None)
  PROVE  AsksAsTheCaller'
<1> DEFINE asked == [as |-> Identity, probe |-> probe, given |-> given]
<1>1. CASE sent' = sent
  BY <1>1 DEF AsksAsTheCaller
<1>2. CASE sent' # sent
  <2>1. sent' = sent \cup {asked}
    BY <1>2 DEF Asks
  <2>2. /\ asked.as = IF vended THEN "caller" ELSE "process"
        /\ asked.as = "process" => posture # "vended only"
        /\ asked.probe => posture # "never" /\ asked.given = None
    BY <1>2 DEF Identity, MayList
  <2> HIDE DEF asked
  <2>3. QED
    BY <2>1, <2>2 DEF AsksAsTheCaller
<1>3. QED
  BY <1>1, <1>2

LEMMA ListPlaceKeepsInv ==
  ASSUME PlacesInv, NEW place \in PlaceType, ListPlace(place)
  PROVE  PlacesInv'
<1>1. posture' = posture /\ world' = world /\ vended' = vended /\ answer' = NotAsked
  BY DEF ListPlace
<1>2. NotListed.of \in PlaceType /\ NotListed.entries = {}
  <2>1. <<>> \in Seq(Segments)
    OBVIOUS
  <2>2. QED
    BY <2>1 DEF NotListed, Nowhere, PlaceType, None
<1>3. listed'.of \in PlaceType /\ \A e \in listed'.entries : EntryIsTrue(e)
  <2>1. CASE place.where = "disk" /\ IsDir(place)
    <3>1. listed' = [of |-> place, entries |-> ListDirectory(place)]
      BY <2>1 DEF ListPlace
    <3>2. QED
      BY <2>1, <3>1, DirectoryIsTrue DEF PlacesInv
  <2>2. CASE place.where = "bucket" /\ MayList
    <3>1. listed' = [of |-> place, entries |-> BuildListing(place)]
      BY <2>2 DEF ListPlace
    <3>2. QED
      BY <2>2, <3>1, ListingIsTrue DEF PlacesInv
  <2>3. CASE ~(place.where = "disk" /\ IsDir(place)) /\ ~(place.where = "bucket" /\ MayList)
    <3>1. listed' = NotListed
      BY <2>3 DEF ListPlace
    <3>2. QED
      BY <1>2, <3>1
  <2>4. QED
    BY <2>1, <2>2, <2>3
<1>4. \A e \in listed'.entries : EntryIsTrue(e)'
  BY <1>1, <1>3, StaysTrue
<1>5. AnswerIsTrue'
  BY <1>1 DEF AnswerIsTrue, NotAsked
<1>6. AsksAsTheCaller'
  <2>1. sent' = sent \/ (Asks(FALSE, None) /\ MayList)
    BY DEF ListPlace
  <2>2. QED
    BY <1>1, <2>1, AskIsTrue DEF PlacesInv
<1>7. QED
  BY <1>1, <1>3, <1>4, <1>5, <1>6 DEF PlacesInv

LEMMA OpenKeepsInv ==
  ASSUME PlacesInv, NEW place, NEW given, NEW records, OpenHere(place, given, records) \/ OpenElsewhere(place, given, records)
  PROVE  PlacesInv'
<1>1. posture' = posture /\ world' = world /\ vended' = vended /\ listed' = listed
  BY DEF OpenHere, OpenElsewhere
<1>2. AnswerIsTrue'
  <2>1. CASE OpenHere(place, given, records)
    <3>1. answer' = [of |-> place, given |-> given, records |-> records,
                     source |-> WithJsonPath(ResolveSource(place, given), records)]
      BY <2>1 DEF OpenHere
    <3>2. WithJsonPath(ResolveSource(place, given), records)' = WithJsonPath(ResolveSource(place, given), records)
      BY <1>1, StaysTrue
    <3>3. QED
      BY <3>1, <3>2 DEF AnswerIsTrue
  <2>2. CASE OpenElsewhere(place, given, records)
    BY <2>2 DEF AnswerIsTrue, OpenElsewhere
  <2>3. QED
    BY <2>1, <2>2
<1>3. AsksAsTheCaller'
  <2>1. sent' = sent \/ (Asks(TRUE, given) /\ given = None /\ MayProbe)
    BY DEF OpenHere, OpenElsewhere
  <2>2. QED
    BY <1>1, <2>1, AskIsTrue DEF PlacesInv, MayProbe
<1>4. \A e \in listed'.entries : EntryIsTrue(e)'
  BY <1>1, StaysTrue DEF PlacesInv
<1>5. QED
  BY <1>1, <1>2, <1>3, <1>4 DEF PlacesInv

LEMMA PlacesInitInv == LocationsInit => PlacesInv
<1> SUFFICES ASSUME LocationsInit PROVE PlacesInv
  OBVIOUS
<1>1. <<>> \in Seq(Segments)
  OBVIOUS
<1>2. QED
  BY <1>1 DEF LocationsInit, PlacesInv, NotListed, NotAsked, Nowhere, None, PlaceType, AnswerIsTrue, AsksAsTheCaller

LEMMA PlacesStep == PlacesInv /\ [LocationsNext]_placeVars => PlacesInv'
<1> SUFFICES ASSUME PlacesInv, [LocationsNext]_placeVars PROVE PlacesInv'
  OBVIOUS
<1>1. ASSUME NEW place \in Known, ListPlace(place) PROVE PlacesInv'
  BY <1>1, ListPlaceKeepsInv, KnownSound DEF PlacesInv
<1>2. ASSUME NEW place \in Known, NEW given, NEW records,
             OpenHere(place, given, records) \/ OpenElsewhere(place, given, records)
      PROVE  PlacesInv'
  BY <1>2, OpenKeepsInv
<1>3. CASE Up
  <2> DEFINE place == [listed.of EXCEPT !.path = Front(@)]
  <2>1. listed.of \in PlaceType /\ Len(listed.of.path) > 1 /\ ListPlace(place)
    BY <1>3 DEF Up, PlacesInv
  <2>2. listed.of.path \in Seq(Segments)
    BY <2>1 DEF PlaceType
  <2>3. Front(listed.of.path) \in Seq(Segments)
    BY <2>1, <2>2 DEF Front
  <2>4. place \in PlaceType
    BY <2>1, <2>3 DEF PlaceType
  <2> HIDE DEF place
  <2>5. QED
    BY <2>1, <2>4, ListPlaceKeepsInv
<1>4. CASE UNCHANGED placeVars
  <2>1. posture' = posture /\ world' = world /\ vended' = vended /\ listed' = listed /\ answer' = answer /\ sent' = sent
    BY <1>4 DEF placeVars
  <2>2. AnswerIsTrue'
    BY <2>1, StaysTrue DEF AnswerIsTrue, PlacesInv
  <2>3. QED
    BY <2>1, <2>2, StaysTrue DEF PlacesInv, AsksAsTheCaller
<1>5. QED
  BY <1>1, <1>2, <1>3, <1>4 DEF LocationsNext

LEMMA PlacesInvIsTrue == PlacesInv => PlacesAreTrue
<1> SUFFICES ASSUME PlacesInv PROVE BrowserAgreesWithReader
  BY DEF PlacesInv, PlacesAreTrue
<1>1. SUFFICES ASSUME NEW e \in listed.entries, answer.of = e.place, answer.given = None, ~answer.records
               PROVE  IF e.format # None THEN answer.source.format = e.format
                      ELSE e.place.where = "disk" => answer.source.format \in {"parquet", "refused"}
  BY DEF BrowserAgreesWithReader
<1>2. EntryIsTrue(e) /\ answer.of # Nowhere
  BY <1>1 DEF PlacesInv, EntryIsTrue, Nowhere, None
<1>3. answer.source = LoadTable(e.place)
  BY <1>1, <1>2 DEF PlacesInv, AnswerIsTrue, WithJsonPath, ResolveSource
<1>4. QED
  BY <1>2, <1>3 DEF EntryIsTrue

\* What the browser labels is what the reader opens, and a store is asked as the caller
\* whenever there is an identity for it and as the process only by a program that may
\* (source.rs:9-10 and 241-264), for any files, objects, formats and postures.
THEOREM PlacesAreTrueAlways == LocationsSpec => []PlacesAreTrue
<1>1. LocationsInit => PlacesInv
  BY PlacesInitInv
<1>2. PlacesInv /\ [LocationsNext]_placeVars => PlacesInv'
  BY PlacesStep
<1>3. PlacesInv => PlacesAreTrue
  BY PlacesInvIsTrue
<1>4. QED
  BY <1>1, <1>2, <1>3, PTL DEF LocationsSpec

-----------------------------------------------------------------------------
(* The settings of catalogs. *)

\* What a value in the environment makes of a key.
Effect(value) == IF value = Empty THEN Unset ELSE value
Readable == wanted \ garbled
AskedNames == Names(Settings) \cup {Lower(n) : n \in Names(file)}

\* What is applied so far is over the file, and what is not is the file's.
AppliedSoFar ==
  /\ \A s \in Readable : Variable(s) \notin left => Get(s.name, s.key) = Effect(s.value)
  /\ \A name \in AskedNames, key \in Asked :
       (\A s \in Readable : s.name = name /\ s.key = key => Variable(s) \in left)
         => Get(name, key) = InFile(name, key)

\* The inductive invariant: a variable left is a setting's or a stray's.
SettingsInv ==
  /\ file \in Files
  /\ wanted \subseteq Settings
  /\ \A s, t \in wanted : s.name = t.name /\ s.key = t.key => s = t
  /\ \A v \in left : (\E s \in Readable : v = Variable(s)) \/ v.var \in Strays
  /\ stage = "file" => catalogs = <<>> /\ \A s \in Readable : Variable(s) \in left
  /\ stage \in {"env", "check", "loaded"} => (file = {} \/ Parses) /\ AppliedSoFar
  /\ stage \in {"check", "loaded"} => left = {}

LEMMA LowerIsAName ==
  ASSUME NEW name \in Seq(Nat), IsCatalogName(name)
  PROVE  IsCatalogName(Lower(name))
<1> DEFINE low == Lower(name)
<1>1. /\ DOMAIN name = 1..Len(name) /\ Len(name) \in 1..63 /\ Head(name) = name[1]
      /\ \A i \in 1..Len(name) : name[i] \in Nat
  BY DEF IsCatalogName
<1>2. low = [i \in 1..Len(name) |-> IF name[i] \in Uppers THEN name[i] + 32 ELSE name[i]]
  BY <1>1 DEF Lower
<1>3. low \in Seq(Nat) /\ Len(low) = Len(name) /\ DOMAIN low = DOMAIN name /\ Head(low) = low[1]
  <2>1. low \in [1..Len(name) -> Nat]
    BY <1>1, <1>2 DEF Uppers
  <2>2. Len(name) \in Nat
    BY <1>1
  <2>3. low \in Seq(Nat) /\ Len(low) = Len(name)
    BY <2>1, <2>2
  <2>4. QED
    BY <1>1, <2>1, <2>3
<1>4. ASSUME NEW i \in DOMAIN name, NEW other, name[i] \in Alphanumeric \cup other PROVE low[i] \in Alphanumeric \cup other
  <2>1. low[i] = IF name[i] \in Uppers THEN name[i] + 32 ELSE name[i]
    BY <1>1, <1>2
  <2>2. name[i] \in Nat
    BY <1>1
  <2> HIDE DEF low
  <2>3. ASSUME name[i] \in Uppers PROVE low[i] \in Lowers
    <3>1. low[i] = name[i] + 32 /\ name[i] \in 65..90
      BY <2>1, <2>3 DEF Uppers
    <3> DEFINE c == name[i]
    <3>2. c \in 65..90 /\ low[i] = c + 32
      BY <3>1
    <3> HIDE DEF c
    <3>3. c + 32 \in 97..122
      <4>1. c \in Int /\ 65 <= c /\ c <= 90
        BY <3>2
      <4> QED BY <4>1
    <3>4. QED
      BY <3>2, <3>3 DEF Lowers
  <2>4. name[i] \notin Uppers => low[i] = name[i]
    BY <2>1
  <2>5. QED
    BY <1>4, <2>3, <2>4 DEF Alphanumeric
<1> HIDE DEF low
<1>5. 1 \in DOMAIN name
  BY <1>1
<1>6. Head(low) \in Alphanumeric
  <2>1. name[1] \in Alphanumeric
    BY <1>1 DEF IsCatalogName
  <2>2. low[1] \in Alphanumeric \cup {}
    BY <1>4, <1>5, <2>1
  <2>3. QED
    BY <1>3, <2>2
<1>7. \A i \in DOMAIN low : low[i] \in Alphanumeric \cup {Dash}
  <2>1. \A i \in DOMAIN name : name[i] \in Alphanumeric \cup {Dash}
    BY DEF IsCatalogName
  <2>2. \A i \in DOMAIN name : low[i] \in Alphanumeric \cup {Dash}
    BY <1>4, <2>1
  <2>3. QED
    BY <1>3, <2>2
<1>8. IsCatalogName(low)
  BY <1>1, <1>3, <1>6, <1>7 DEF IsCatalogName
<1>9. QED
  BY <1>8 DEF low

\* What is asked about is named as a catalog may be.
LEMMA AskedAreNames ==
  ASSUME SettingsAssumption, file \in Files, file = {} \/ Parses, NEW name \in AskedNames
  PROVE  IsCatalogName(name)
<1>1. CASE name \in Names(Settings)
  BY <1>1 DEF Names, SettingsAssumption
<1>2. ASSUME NEW s \in file, name = Lower(s.name) PROVE IsCatalogName(name)
  BY <1>2, LowerIsAName DEF SettingsAssumption, Parses
<1>3. QED
  BY <1>1, <1>2 DEF AskedNames, Names

LEMMA NobodysIsNoName == ~IsCatalogName(Nobodys.name)
  BY DEF Nobodys, IsCatalogName

\* What one variable sets, and what it does not.
LEMMA VariableSets ==
  ASSUME NEW v, ApplyVariable(v), NEW name, NEW key
  PROVE  Get(name, key)' =
           IF EnvKey(v.var) # Nobodys /\ EnvKey(v.var) = [name |-> name, key |-> key] THEN Effect(v.value) ELSE Get(name, key)
<1> DEFINE n == EnvKey(v.var).name
           k == EnvKey(v.var).key
           props == IF n \in DOMAIN catalogs THEN catalogs[n] ELSE <<>>
           new == With(props, k, v.value)
<1>1. CASE EnvKey(v.var) = Nobodys
  BY <1>1 DEF ApplyVariable, Get
<1>2. CASE EnvKey(v.var) # Nobodys
  <2>1. catalogs' = [m \in DOMAIN catalogs \cup {n} |-> IF m = n THEN new ELSE catalogs[m]]
    BY <1>2 DEF ApplyVariable
  <2>2. /\ DOMAIN catalogs' = {n} \cup DOMAIN catalogs /\ catalogs'[n] = new
        /\ \A m \in DOMAIN catalogs : m # n => catalogs'[m] = catalogs[m]
    BY <2>1
  <2>3. /\ DOMAIN new = (IF v.value = Empty THEN DOMAIN props \ {k} ELSE DOMAIN props \cup {k})
        /\ v.value # Empty => new[k] = v.value
        /\ \A j \in DOMAIN props : j # k => new[j] = props[j]
    BY DEF With
  <2>4. n \notin DOMAIN catalogs => DOMAIN props = {}
    OBVIOUS
  <2>5. n \in DOMAIN catalogs => props = catalogs[n]
    OBVIOUS
  <2>6. EnvKey(v.var) = [name |-> name, key |-> key] <=> n = name /\ k = key
    BY DEF EnvKey, Nobodys
  <2> HIDE DEF n, k, props, new
  <2>7. CASE name # n
    BY <1>2, <2>2, <2>6, <2>7 DEF Get
  <2>8. CASE name = n /\ key = k
    BY <1>2, <2>2, <2>3, <2>6, <2>8 DEF Get, Effect
  <2>9. CASE name = n /\ key # k
    BY <1>2, <2>2, <2>3, <2>4, <2>5, <2>6, <2>9 DEF Get
  <2>10. QED
    BY <2>7, <2>8, <2>9
<1>3. QED
  BY <1>1, <1>2

LEMMA SettingsInitInv == SettingsAssumption /\ SettingsInit => SettingsInv
<1> SUFFICES ASSUME SettingsAssumption, SettingsInit PROVE SettingsInv
  OBVIOUS
<1>1. wanted \subseteq Settings
  BY DEF SettingsInit, kSubset
<1>2. PICK stray \in {{}} \cup {{v} : v \in Strays} :
        left = {Variable(s) : s \in Readable} \cup {[var |-> v, value |-> "x"] : v \in stray}
  BY DEF SettingsInit, Readable
<1>3. \A v \in left : (\E s \in Readable : v = Variable(s)) \/ v.var \in Strays
  BY <1>2
<1>4. \A s \in Readable : Variable(s) \in left
  BY <1>2
<1>5. QED
  BY <1>1, <1>3, <1>4 DEF SettingsInit, SettingsInv

\* What the file has for a key is what is used, before any variable.
LEMMA ReadFileKeepsInv == ASSUME SettingsAssumption, SettingsInv, ReadFile PROVE SettingsInv'
<1>1. /\ stage = "file" /\ stage' = "env" /\ UNCHANGED <<inputs, left>>
      /\ catalogs = <<>> /\ \A s \in Readable : Variable(s) \in left
      /\ IF file = {} THEN catalogs' = catalogs
         ELSE Parses /\ catalogs' = [n \in {Lower(m) : m \in Names(file)} |->
                                       Flattened({s \in file : Lower(s.name) = n})]
  BY DEF ReadFile, SettingsInv
<1>2. ASSUME NEW name, NEW key PROVE Get(name, key)' = InFile(name, key)
  <2>1. CASE file = {}
    BY <1>1, <2>1 DEF Get, InFile, Lines
  <2>2. CASE file # {}
    <3> DEFINE lines == {s \in Lines(file, key) : Lower(s.name) = name}
               its == {s \in file : Lower(s.name) = name}
    <3>1. lines = Lines(its, key)
      BY DEF Lines
    <3>2. name \in DOMAIN catalogs' <=> its # {}
      BY <1>1, <2>2 DEF Names
    <3>3. name \in DOMAIN catalogs' => catalogs'[name] = Flattened(its)
      BY <1>1, <2>2
    <3>4. key \in DOMAIN Flattened(its) <=> lines # {}
      BY DEF Flattened, Lines
    <3>5. lines # {} => Flattened(its)[key] = (CHOOSE s \in lines : TRUE).value
      <4>1. lines # {} => Flattened(its)[key] = (CHOOSE s \in Lines(its, key) : TRUE).value
        BY <3>4 DEF Flattened
      <4>2. QED
        BY <3>1, <4>1
    <3>6. lines # {} => its # {}
      BY DEF Lines
    <3>7. InFile(name, key) = IF lines = {} THEN Unset ELSE (CHOOSE s \in lines : TRUE).value
      BY DEF InFile
    <3> HIDE DEF lines, its
    <3>8. QED
      BY <3>2, <3>3, <3>4, <3>5, <3>6, <3>7 DEF Get
  <2>3. QED
    BY <2>1, <2>2
<1>3. /\ file' = file /\ wanted' = wanted /\ garbled' = garbled /\ left' = left
      /\ Readable' = Readable /\ AskedNames' = AskedNames
  BY <1>1 DEF inputs, Readable, AskedNames
<1>4. \A name, key : InFile(name, key)' = InFile(name, key)
  BY <1>3 DEF InFile, Lines
<1>5. AppliedSoFar'
  BY <1>1, <1>2, <1>3, <1>4 DEF AppliedSoFar
<1>6. (file = {} \/ Parses)'
  BY <1>1, <1>3 DEF Parses
<1>7. QED
  BY <1>1, <1>3, <1>5, <1>6 DEF SettingsInv

\* A variable sets its own key, and no other variable sets that one.
LEMMA ApplyVariableKeepsInv ==
  ASSUME SettingsAssumption, SettingsInv, stage = "env", NEW v \in left, ApplyVariable(v)
  PROVE  SettingsInv'
<1>1. /\ left' = left \ {v} /\ stage' = stage /\ file' = file /\ wanted' = wanted /\ garbled' = garbled
  BY DEF ApplyVariable, inputs
<1>2. Readable' = Readable /\ AskedNames' = AskedNames
  BY <1>1 DEF Readable, AskedNames
<1>3. \A name, key : InFile(name, key)' = InFile(name, key)
  BY <1>1 DEF InFile, Lines
<1>4. \A s \in Readable : s \in Settings /\ s \in wanted
  BY DEF SettingsInv, Readable
<1>5. \A s \in Readable : /\ EnvKey(Variable(s).var) = [name |-> s.name, key |-> s.key]
                          /\ EnvKey(Variable(s).var) # Nobodys /\ Variable(s).value = s.value
                          /\ IsCatalogName(s.name) /\ s.key \in Asked
  <2>1. ASSUME NEW s \in Readable
        PROVE  /\ Variable(s).var = EnvVar(s.name, s.key) /\ Variable(s).value = s.value
               /\ EnvKey(EnvVar(s.name, s.key)) = [name |-> s.name, key |-> s.key]
               /\ IsCatalogName(s.name) /\ s.key \in Asked
    BY <1>4 DEF Variable, SettingsAssumption, Asked
  <2>2. ASSUME NEW s \in Readable PROVE [name |-> s.name, key |-> s.key] # Nobodys
    <3>1. IsCatalogName([name |-> s.name, key |-> s.key].name)
      BY <2>1
    <3>2. QED
      BY <3>1, NobodysIsNoName, Zenon
  <2>3. QED
    BY <2>1, <2>2
<1>6. ASSUME NEW s \in Readable, NEW t \in Readable, s # t PROVE ~(s.name = t.name /\ s.key = t.key)
  BY <1>4, <1>6 DEF SettingsInv
<1>7. ASSUME v.var \in Strays, NEW name, IsCatalogName(name), NEW key \in Asked
      PROVE  EnvKey(v.var) # [name |-> name, key |-> key]
  BY <1>7 DEF SettingsAssumption
<1>8. ASSUME NEW s \in Readable, Variable(s) \notin left'
      PROVE  Get(s.name, s.key)' = Effect(s.value)
  <2>1. CASE v = Variable(s)
    <3>1. EnvKey(v.var) # Nobodys /\ EnvKey(v.var) = [name |-> s.name, key |-> s.key] /\ v.value = s.value
      BY <1>5, <2>1
    <3>2. QED
      BY <3>1, VariableSets
  <2>2. CASE v # Variable(s)
    <3>1. Variable(s) \notin left
      BY <1>1, <1>8, <2>2
    <3>2. Get(s.name, s.key) = Effect(s.value)
      BY <3>1 DEF SettingsInv, AppliedSoFar
    <3>3. EnvKey(v.var) # [name |-> s.name, key |-> s.key]
      <4>1. CASE v.var \in Strays
        BY <1>5, <1>7, <4>1
      <4>2. ASSUME NEW t \in Readable, v = Variable(t) PROVE EnvKey(v.var) # [name |-> s.name, key |-> s.key]
        <5>1. ~(s.name = t.name /\ s.key = t.key)
          BY <1>6, <2>2, <4>2
        <5>2. EnvKey(v.var) = [name |-> t.name, key |-> t.key]
          BY <1>5, <4>2
        <5>3. QED
          BY <5>1, <5>2
      <4>3. QED
        BY <4>1, <4>2 DEF SettingsInv
    <3>4. QED
      BY <3>2, <3>3, VariableSets
  <2>3. QED
    BY <2>1, <2>2
<1>9. ASSUME NEW name \in AskedNames, NEW key \in Asked,
             \A s \in Readable : s.name = name /\ s.key = key => Variable(s) \in left'
      PROVE  Get(name, key)' = InFile(name, key)
  <2>1. Get(name, key) = InFile(name, key)
    BY <1>1, <1>9 DEF SettingsInv, AppliedSoFar
  <2>2. IsCatalogName(name)
    BY AskedAreNames DEF SettingsInv
  <2>3. EnvKey(v.var) # [name |-> name, key |-> key]
    <3>1. CASE v.var \in Strays
      BY <1>7, <2>2, <3>1
    <3>2. ASSUME NEW t \in Readable, v = Variable(t) PROVE EnvKey(v.var) # [name |-> name, key |-> key]
      <4>1. ~(t.name = name /\ t.key = key)
        BY <1>1, <1>9, <3>2
      <4>2. EnvKey(v.var) = [name |-> t.name, key |-> t.key]
        BY <1>5, <3>2
      <4>3. QED
        BY <4>1, <4>2
    <3>3. QED
      BY <3>1, <3>2 DEF SettingsInv
  <2>4. QED
    BY <2>1, <2>3, VariableSets
<1>10. AppliedSoFar'
  BY <1>2, <1>3, <1>8, <1>9 DEF AppliedSoFar
<1>11. (file = {} \/ Parses)'
  BY <1>1 DEF SettingsInv, Parses
<1>12. \A w \in left' : (\E s \in Readable' : w = Variable(s)') \/ w.var \in Strays
  BY <1>1, <1>2 DEF SettingsInv, Variable
<1>13. QED
  BY <1>1, <1>2, <1>10, <1>11, <1>12 DEF SettingsInv

\* A step after which every key is what it was.
LEMMA SameKeys ==
  ASSUME SettingsInv, stage \in {"env", "check"}, left = {}, left' = {}, UNCHANGED inputs,
         stage' \in {"check", "loaded"}, \A name, key : Get(name, key)' = Get(name, key)
  PROVE  SettingsInv'
<1>1. /\ file' = file /\ wanted' = wanted /\ garbled' = garbled
      /\ Readable' = Readable /\ AskedNames' = AskedNames
  BY DEF inputs, Readable, AskedNames
<1>2. \A name, key : InFile(name, key)' = InFile(name, key)
  BY <1>1 DEF InFile, Lines
<1>3. AppliedSoFar'
  BY <1>1, <1>2 DEF SettingsInv, AppliedSoFar, Variable
<1>4. (file = {} \/ Parses)'
  BY <1>1 DEF SettingsInv, Parses
<1>5. QED
  BY <1>1, <1>3, <1>4 DEF SettingsInv

LEMMA RetainKeepsInv == ASSUME SettingsInv, Retain PROVE SettingsInv'
<1>1. /\ stage = "env" /\ left = {} /\ left' = {} /\ stage' = "check" /\ UNCHANGED inputs
      /\ catalogs' = [n \in {m \in DOMAIN catalogs : catalogs[m] # <<>>} |-> catalogs[n]]
  BY DEF Retain
<1>2. ASSUME NEW name, NEW key PROVE Get(name, key)' = Get(name, key)
  BY <1>1 DEF Get
<1>3. QED
  BY <1>1, <1>2, SameKeys

LEMMA CheckKeepsInv == ASSUME SettingsInv, Check PROVE SettingsInv'
<1>1. /\ stage = "check" /\ stage' = "loaded" /\ UNCHANGED <<inputs, left, catalogs>>
  BY DEF Check
<1>2. \A name, key : Get(name, key)' = Get(name, key)
  BY <1>1 DEF Get
<1>3. left = {}
  BY <1>1 DEF SettingsInv
<1>4. QED
  BY <1>1, <1>2, <1>3, SameKeys

LEMMA UnusableKeepsInv == ASSUME SettingsInv, Unusable PROVE SettingsInv'
<1>1. stage' = "failed" /\ left' = left /\ file' = file /\ wanted' = wanted /\ garbled' = garbled
  BY DEF Unusable, inputs
<1>2. \A v \in left' : (\E s \in Readable' : v = Variable(s)') \/ v.var \in Strays
  BY <1>1 DEF SettingsInv, Variable, Readable
<1>3. QED
  BY <1>1, <1>2 DEF SettingsInv

LEMMA SettingsStutter == ASSUME SettingsInv, UNCHANGED settingsVars PROVE SettingsInv'
<1>1. /\ file' = file /\ wanted' = wanted /\ garbled' = garbled /\ left' = left /\ stage' = stage /\ catalogs' = catalogs
      /\ Readable' = Readable /\ AskedNames' = AskedNames
  BY DEF settingsVars, inputs, Readable, AskedNames
<1>2. \A name, key : InFile(name, key)' = InFile(name, key) /\ Get(name, key)' = Get(name, key)
  BY <1>1 DEF InFile, Lines, Get
<1>3. AppliedSoFar' <=> AppliedSoFar
  BY <1>1, <1>2 DEF AppliedSoFar, Variable
<1>4. (file = {} \/ Parses)' <=> (file = {} \/ Parses)
  BY <1>1 DEF Parses
<1>5. QED
  BY <1>1, <1>3, <1>4 DEF SettingsInv, Variable

\* What is left is nothing once the catalogs are loaded, and all has been applied.
LEMMA AllIsApplied == ASSUME SettingsAssumption, SettingsInv PROVE EnvironmentWins
<1> SUFFICES ASSUME stage = "loaded", NEW name \in AskedNames, NEW key \in Asked
             PROVE  LET set == {t \in wanted \ garbled : t.name = name /\ t.key = key}
                    IN Get(name, key) = IF set = {} THEN InFile(name, key)
                                        ELSE LET t == CHOOSE t \in set : TRUE
                                             IN IF t.value = Empty THEN Unset ELSE t.value
  BY DEF EnvironmentWins, AskedNames
<1> DEFINE set == {t \in wanted \ garbled : t.name = name /\ t.key = key}
           t == CHOOSE t \in set : TRUE
<1>1. left = {} /\ AppliedSoFar
  BY DEF SettingsInv
<1>2. set = {} => Get(name, key) = InFile(name, key)
  BY <1>1 DEF AppliedSoFar, Readable
<1>3. ASSUME NEW s \in set PROVE Get(name, key) = IF s.value = Empty THEN Unset ELSE s.value
  BY <1>1, <1>3 DEF AppliedSoFar, Readable, Effect
<1>4. set # {} => t \in set
  OBVIOUS
<1> HIDE DEF t, set
<1>5. QED
  BY <1>2, <1>3, <1>4 DEF t, set

\* What an operator puts into the variable of a catalog and of a key is what the catalog is
\* used with, an empty value removes the key, and what no variable sets is the file's, in
\* whatever order the variables come (config.rs:20-21, apply_env).
THEOREM EnvironmentWinsAlways == SettingsAssumption /\ SettingsSpec => []EnvironmentWins
<1>1. SettingsAssumption /\ SettingsInit => SettingsInv
  BY SettingsInitInv
<1>2. SettingsAssumption /\ SettingsInv /\ [SettingsNext]_settingsVars => SettingsInv'
  <2> SUFFICES ASSUME SettingsAssumption, SettingsInv, [SettingsNext]_settingsVars PROVE SettingsInv'
    OBVIOUS
  <2>1. CASE ReadFile
    BY <2>1, ReadFileKeepsInv
  <2>2. CASE FileFails \/ CheckFails
    BY <2>2, UnusableKeepsInv DEF FileFails, CheckFails
  <2>3. CASE Retain \/ Check
    BY <2>3, RetainKeepsInv, CheckKeepsInv
  <2>4. ASSUME stage = "env", NEW v \in left, ApplyVariable(v) \/ VariableFails(v) PROVE SettingsInv'
    BY <2>4, ApplyVariableKeepsInv, UnusableKeepsInv DEF VariableFails
  <2>5. CASE UNCHANGED settingsVars
    BY <2>5, SettingsStutter
  <2>6. QED
    BY <2>1, <2>2, <2>3, <2>4, <2>5 DEF SettingsNext
<1>3. SettingsAssumption /\ SettingsInv => EnvironmentWins
  BY AllIsApplied
<1>4. ASSUME SettingsAssumption PROVE SettingsSpec => []EnvironmentWins
  <2>1. SettingsInit => SettingsInv
    BY <1>1, <1>4
  <2>2. SettingsInv /\ [SettingsNext]_settingsVars => SettingsInv'
    BY <1>2, <1>4
  <2>3. SettingsInv => EnvironmentWins
    BY <1>3, <1>4
  <2>4. QED
    BY <2>1, <2>2, <2>3, PTL DEF SettingsSpec
<1>5. QED
  BY <1>4
=============================================================================
