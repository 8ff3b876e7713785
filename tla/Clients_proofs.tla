------------------------------ MODULE Clients_proofs ------------------------------
(***************************************************************************)
(* Proofs about the programs at the edge, each on its own: the renewal of  *)
(* vended credentials, for any number of requests that renew at once, of   *)
(* answers and of sets of keys; the runs of the command line, for any      *)
(* number of them, any answers and any names; the remote engine, for any   *)
(* callers, servers, limits and tables; and the grid, for any queries,     *)
(* window sizes and limits.                                                *)
(***************************************************************************)
EXTENDS CatalogStorage, CommandLine, RemoteEngine, GridWindows,
        SequenceTheorems, FiniteSetTheorems, TLAPS

-----------------------------------------------------------------------------
(* Renewing vended credentials. *)

\* A credential that came with a renewal: no part of it is configured.
Renewable(credential) ==
  /\ credential \in Credentials
  /\ ~Uses(credential, "local") /\ ~Uses(credential, "server")

\* What a request under way knows: it asked when the credential of its age was
\* current, and what it has been sent is newer.
CallIsSound(r) ==
  /\ since[r] <= issued
  /\ at[r] # "idle" => storage = "vended"
  /\ at[r] = "answered" => /\ Renewable(got[r])
                           /\ since[r] < got[r].gen /\ got[r].gen <= issued
  /\ at[r] = "done" => since[r] <= got[r].gen

\* The current credential is one of those issued, and renewed unless it is the first.
CurrentIsSound ==
  /\ IF storage = "vended" THEN current.gen \in 1..issued ELSE issued = 0
  /\ RenewedIsTheTables

\* The inductive invariant.
RenewalInv == StorageTypeOK /\ CurrentIsSound /\ \A r \in FileRequests : CallIsSound(r)

-----------------------------------------------------------------------------
\* s3_credential: each part of a credential is of a source that sent it.
LEMMA CredentialTyped ==
  ASSUME NEW props, NEW origins \in SUBSET Origins, "key" \in DOMAIN props,
         \A k \in DOMAIN props : props[k] \in origins, NEW nth \in 1..MaxGen
  PROVE  LET c == Credential(props, nth)
         IN /\ c \in Credentials /\ c.gen = nth
            /\ {c.key, c.session, c.expires} \subseteq origins \cup {"none"}
  BY DEF Credential, Credentials

\* One set of properties over another holds what either holds.
LEMMA OverTyped ==
  ASSUME NEW f, NEW g, NEW S, \A k \in DOMAIN f : f[k] \in S, \A k \in DOMAIN g : g[k] \in S
  PROVE  /\ DOMAIN Over(f, g) = DOMAIN f \cup DOMAIN g
         /\ \A k \in DOMAIN Over(f, g) : Over(f, g)[k] \in S
  BY DEF Over

LEMMA FromTyped ==
  ASSUME NEW origin, NEW keys
  PROVE  DOMAIN From(origin, keys) = keys /\ \A k \in keys : From(origin, keys)[k] = origin
  BY DEF From

-----------------------------------------------------------------------------
LEMMA InitRenewalInv == StorageInit => RenewalInv
<1> SUFFICES ASSUME StorageInit PROVE RenewalInv
  OBVIOUS
<1>1. StorageTypeOK
  BY StorageAssumption DEF StorageInit, StorageTypeOK, Finished
<1>2. CurrentIsSound
  BY DEF StorageInit, CurrentIsSound, RenewedIsTheTables, NoCredential
<1>3. ASSUME NEW r \in FileRequests PROVE CallIsSound(r)
  <2>1. at[r] = "idle" /\ since[r] = 0 /\ issued = 0
    BY DEF StorageInit
  <2> QED BY <2>1 DEF CallIsSound
<1> QED BY <1>1, <1>2, <1>3 DEF RenewalInv

\* What is vended first has a key, of whatever source.
LEMMA Vended ==
  ASSUME RenewalInv, NEW props, "key" \in DOMAIN props,
         \A k \in DOMAIN props : props[k] \in Origins, Vend(props)
  PROVE  storage' = "vended" /\ issued' = 1 /\ current' \in Credentials /\ current'.gen = 1
<1>1. 1 \in 1..MaxGen
  BY StorageAssumption
<1> QED BY <1>1, CredentialTyped DEF Vend

LEMMA LoadInv ==
  ASSUME RenewalInv, NEW table \in Shapes, NEW entry \in Shapes, Load(table, entry)
  PROVE  RenewalInv'
<1>1. /\ storage = "unknown" /\ UNCHANGED <<local, server, overrides, endpoint, due, at, since, got>>
  BY DEF Load, sources, requestVars
<1>2. issued = 0 /\ due = {} /\ current = NoCredential
  BY <1>1 DEF RenewalInv, CurrentIsSound, StorageTypeOK
<1>3. \A r \in FileRequests : at[r] = "idle" /\ since[r] = 0
  BY <1>1, <1>2, StorageAssumption DEF RenewalInv, CallIsSound, StorageTypeOK
<1>4. ASSUME NEW origin \in Origins, NEW keys
      PROVE  \A k \in DOMAIN From(origin, keys) : From(origin, keys)[k] \in Origins
  BY <1>4, FromTyped
<1>5. \A k \in DOMAIN ServerProps : ServerProps[k] \in Origins
  <2>1. /\ \A k \in DOMAIN From("local", local) : From("local", local)[k] \in Origins
        /\ \A k \in DOMAIN From("server", server) : From("server", server)[k] \in Origins
    BY <1>4 DEF Origins
  <2> QED BY <2>1, OverTyped DEF ServerProps
<1>6. /\ \A k \in DOMAIN TableProps(table) : TableProps(table)[k] \in Origins
      /\ table \subseteq DOMAIN TableProps(table)
  <2>1. \A k \in DOMAIN From("table", table) : From("table", table)[k] \in Origins
    BY <1>4 DEF Origins
  <2>2. DOMAIN From("table", table) = table
    BY FromTyped
  <2> DEFINE f == From("table", table)
             g == ServerProps
  <2> HIDE DEF f, g
  <2>3. (\A k \in DOMAIN Over(f, g) : Over(f, g)[k] \in Origins) /\ DOMAIN f \subseteq DOMAIN Over(f, g)
    <3>1. (\A k \in DOMAIN f : f[k] \in Origins) /\ (\A k \in DOMAIN g : g[k] \in Origins)
      BY <1>5, <2>1 DEF f, g
    <3>2. \A k \in DOMAIN Over(f, g) : Over(f, g)[k] \in Origins
      BY <3>1 DEF Over
    <3>3. DOMAIN f \subseteq DOMAIN Over(f, g)
      BY DEF Over
    <3> QED BY <3>2, <3>3
  <2> QED BY <2>2, <2>3 DEF TableProps, f, g
<1>7. ASSUME NEW props, "key" \in DOMAIN props, \A k \in DOMAIN props : props[k] \in Origins,
             Vend(props)
      PROVE  RenewalInv'
  <2>1. storage' = "vended" /\ issued' = 1 /\ current' \in Credentials /\ current'.gen = 1
    BY <1>7, Vended
  <2>2. StorageTypeOK'
    BY <1>1, <1>2, <2>1, StorageAssumption DEF RenewalInv, StorageTypeOK
  <2>3. CurrentIsSound' /\ \A r \in FileRequests : CallIsSound(r)'
    BY <1>1, <1>3, <2>1 DEF CurrentIsSound, RenewedIsTheTables, CallIsSound
  <2> QED BY <2>2, <2>3 DEF RenewalInv
<1>8. ASSUME NEW choice \in {"signing", "catalog", "ambient", "forbidden"}, ReadWith(choice)
      PROVE  RenewalInv'
  <2>1. storage' = choice /\ current' = NoCredential /\ issued' = 0
    BY <1>2, <1>8 DEF ReadWith
  <2>2. StorageTypeOK'
    BY <1>1, <1>2, <2>1 DEF RenewalInv, StorageTypeOK
  <2>3. CurrentIsSound' /\ \A r \in FileRequests : CallIsSound(r)'
    BY <1>1, <1>3, <2>1 DEF CurrentIsSound, RenewedIsTheTables, CallIsSound, NoCredential
  <2> QED BY <2>2, <2>3 DEF RenewalInv
<1>9. CASE Vends(entry) /\ Vend(Over(From("entry", entry), TableProps(table)))
  <2>1. /\ \A k \in DOMAIN From("entry", entry) : From("entry", entry)[k] \in Origins
        /\ DOMAIN From("entry", entry) = entry
    BY <1>4, FromTyped DEF Origins
  <2> DEFINE f == From("entry", entry)
             g == TableProps(table)
  <2> HIDE DEF f, g
  <2>2. (\A k \in DOMAIN Over(f, g) : Over(f, g)[k] \in Origins) /\ DOMAIN f \subseteq DOMAIN Over(f, g)
    <3>1. (\A k \in DOMAIN f : f[k] \in Origins) /\ (\A k \in DOMAIN g : g[k] \in Origins)
      BY <1>6, <2>1 DEF f, g
    <3>2. \A k \in DOMAIN Over(f, g) : Over(f, g)[k] \in Origins
      BY <3>1 DEF Over
    <3>3. DOMAIN f \subseteq DOMAIN Over(f, g)
      BY DEF Over
    <3> QED BY <3>2, <3>3
  <2>3. "key" \in DOMAIN Over(f, g) /\ Vend(Over(f, g))
    BY <1>9, <2>1, <2>2 DEF Vends, f, g
  <2> QED BY <1>7, <2>2, <2>3
<1>10. CASE Vends(table) /\ Vend(TableProps(table))
  BY <1>6, <1>7, <1>10 DEF Vends
<1> QED BY <1>8, <1>9, <1>10 DEF Load

\* What a renewal sends is the entry's and the table's, and newer than all before.
LEMMA AnswerInv ==
  ASSUME RenewalInv, NEW r \in FileRequests, Answer(r)
  PROVE  RenewalInv'
<1>1. PICK tableKeys \in Shapes, entryKeys \in Shapes :
        /\ Vends(DOMAIN Renewed(tableKeys, entryKeys))
        /\ got' = [got EXCEPT ![r] = Credential(Renewed(tableKeys, entryKeys), issued + 1)]
  BY DEF Answer
<1>2. /\ at[r] = "asking" /\ issued < MaxGen /\ issued' = issued + 1
      /\ at' = [at EXCEPT ![r] = "answered"]
      /\ UNCHANGED <<local, server, overrides, endpoint, storage, current, due, since>>
  BY DEF Answer, sources
<1>3. issued \in Nat /\ issued + 1 \in 1..MaxGen
  BY <1>2, StorageAssumption DEF RenewalInv, StorageTypeOK
<1> DEFINE f == From("entry", entryKeys)
           g == From("table", IF endpoint THEN {} ELSE tableKeys)
           c == Credential(Over(f, g), issued + 1)
<1>4. /\ \A k \in DOMAIN f : f[k] \in {"entry", "table"}
      /\ \A k \in DOMAIN g : g[k] \in {"entry", "table"}
  BY FromTyped
<1>5. "key" \in DOMAIN Over(f, g) /\ got' = [got EXCEPT ![r] = c]
  BY <1>1 DEF Vends, Renewed
<1> HIDE DEF f, g
<1>6. \A k \in DOMAIN Over(f, g) : Over(f, g)[k] \in {"entry", "table"}
  BY <1>4 DEF Over
<1>7. PICK props, origins : props = Over(f, g) /\ origins = {"entry", "table"}
  OBVIOUS
<1>8. c \in Credentials /\ c.gen = issued + 1 /\ {c.key, c.session, c.expires} \subseteq {"entry", "table", "none"}
  <2>1. origins \in SUBSET Origins
    BY <1>7 DEF Origins
  <2>2. "key" \in DOMAIN props /\ \A k \in DOMAIN props : props[k] \in origins
    BY <1>5, <1>6, <1>7
  <2>3. PICK nth \in 1..MaxGen : nth = issued + 1
    BY <1>3
  <2>4. /\ Credential(props, nth) \in Credentials /\ Credential(props, nth).gen = nth
        /\ {Credential(props, nth).key, Credential(props, nth).session, Credential(props, nth).expires}
             \subseteq origins \cup {"none"}
    BY <2>1, <2>2, CredentialTyped
  <2> QED BY <1>7, <2>3, <2>4
<1> HIDE DEF c
<1>9. Renewable(c) /\ c.gen = issued + 1
  BY <1>8 DEF Renewable, Uses
<1>10. StorageTypeOK'
  BY <1>2, <1>3, <1>5, <1>8, StorageAssumption DEF RenewalInv, StorageTypeOK
<1>11. CurrentIsSound'
  BY <1>2, <1>3, StorageAssumption DEF RenewalInv, StorageTypeOK, CurrentIsSound, RenewedIsTheTables, CallIsSound
<1>12. ASSUME NEW q \in FileRequests PROVE CallIsSound(q)'
  <2>1. since[q] \in Nat /\ since[q] <= issued /\ (at[q] = "answered" => got[q].gen <= issued + 1)
    BY <1>3, StorageAssumption DEF RenewalInv, StorageTypeOK, CallIsSound, Credentials, Renewable
  <2>2. CASE q = r
    <3>1. /\ since'[q] = since[q] /\ at'[q] = "answered" /\ got'[q] = c /\ storage' = "vended"
      BY <1>2, <1>5, <2>2 DEF RenewalInv, StorageTypeOK, CallIsSound
    <3> QED BY <1>2, <1>3, <1>9, <2>1, <3>1 DEF CallIsSound, Renewable, Uses
  <2>3. CASE q # r
    <3>1. at'[q] = at[q] /\ got'[q] = got[q] /\ since'[q] = since[q]
      BY <1>2, <1>5, <2>3 DEF RenewalInv, StorageTypeOK
    <3> QED BY <1>2, <1>3, <2>1, <3>1 DEF RenewalInv, CallIsSound, Renewable, Uses
  <2> QED BY <2>2, <2>3
<1> QED BY <1>10, <1>11, <1>12 DEF RenewalInv

LEMMA KeepInv ==
  ASSUME RenewalInv, NEW r \in FileRequests, Keep(r)
  PROVE  RenewalInv'
<1>1. /\ at[r] = "answered" /\ current' = got[r] /\ at' = [at EXCEPT ![r] = "done"]
      /\ UNCHANGED <<local, server, overrides, endpoint, storage, issued, due, since, got>>
  BY DEF Keep, sources
<1>2. /\ storage = "vended" /\ Renewable(got[r]) /\ since[r] < got[r].gen /\ got[r].gen <= issued
      /\ since[r] \in Nat /\ got[r].gen \in Nat /\ got[r].gen >= 1 /\ issued \in Nat
  BY <1>1, StorageAssumption DEF RenewalInv, StorageTypeOK, CallIsSound, Renewable, Credentials
<1>3. StorageTypeOK'
  BY <1>1, <1>2 DEF RenewalInv, StorageTypeOK, Renewable, Finished
<1>4. CurrentIsSound'
  BY <1>1, <1>2 DEF CurrentIsSound, RenewedIsTheTables, Renewable, Uses
<1>5. ASSUME NEW q \in FileRequests PROVE CallIsSound(q)'
  BY <1>1, <1>2 DEF RenewalInv, StorageTypeOK, CallIsSound, Renewable, Uses
<1> QED BY <1>3, <1>4, <1>5 DEF RenewalInv

\* The steps of a request that leave the current credential alone.
LEMMA CallInv ==
  ASSUME RenewalInv, NEW r \in FileRequests, TakeCurrent(r) \/ Ask(r) \/ GiveUp(r)
  PROVE  RenewalInv'
<1>1. UNCHANGED <<local, server, overrides, endpoint, storage, current, issued, due>>
  BY DEF TakeCurrent, Ask, GiveUp, sources
<1>2. storage = "vended"
  BY DEF TakeCurrent, Ask, GiveUp, RenewalInv, CallIsSound
<1>3. current \in Credentials /\ current.gen \in 0..MaxGen /\ current.gen <= issued
  BY <1>2, StorageAssumption DEF RenewalInv, StorageTypeOK, CurrentIsSound, Credentials
<1>4. StorageTypeOK'
  <2>1. CASE TakeCurrent(r)
    BY <1>1, <1>3, <2>1 DEF RenewalInv, StorageTypeOK, TakeCurrent, Finished
  <2>2. CASE Ask(r) \/ GiveUp(r)
    BY <1>1, <1>3, <2>2 DEF RenewalInv, StorageTypeOK, Ask, GiveUp, Finished
  <2> QED BY <2>1, <2>2
<1>5. CurrentIsSound'
  BY <1>1 DEF RenewalInv, CurrentIsSound, RenewedIsTheTables, Uses
<1>6. ASSUME NEW q \in FileRequests PROVE CallIsSound(q)'
  <2>1. CASE TakeCurrent(r)
    BY <1>1, <1>2, <1>3, <2>1 DEF RenewalInv, StorageTypeOK, CallIsSound, TakeCurrent, Renewable, Uses
  <2>2. CASE Ask(r)
    BY <1>1, <1>2, <1>3, <2>2 DEF RenewalInv, StorageTypeOK, CallIsSound, Ask, Renewable, Uses
  <2>3. CASE GiveUp(r)
    BY <1>1, <1>2, <2>3 DEF RenewalInv, StorageTypeOK, CallIsSound, GiveUp, Renewable, Uses
  <2> QED BY <2>1, <2>2, <2>3
<1> QED BY <1>4, <1>5, <1>6 DEF RenewalInv

LEMMA FallDueInv ==
  ASSUME RenewalInv, NEW nth \in 1..MaxGen, FallDue(nth) \/ UNCHANGED storageVars
  PROVE  RenewalInv'
<1>1. UNCHANGED <<local, server, overrides, endpoint, storage, current, issued, at, since, got>>
  BY DEF FallDue, storageVars, sources, requestVars
<1>2. due' \in SUBSET (1..issued)
  BY DEF FallDue, storageVars, RenewalInv, StorageTypeOK
<1>3. StorageTypeOK'
  BY <1>1, <1>2 DEF RenewalInv, StorageTypeOK
<1>4. CurrentIsSound' /\ \A r \in FileRequests : CallIsSound(r)'
  BY <1>1 DEF RenewalInv, CurrentIsSound, RenewedIsTheTables, CallIsSound, Renewable, Uses
<1> QED BY <1>3, <1>4 DEF RenewalInv

LEMMA NextRenewalInv == RenewalInv /\ [StorageNext]_storageVars => RenewalInv'
<1> SUFFICES ASSUME RenewalInv, [StorageNext]_storageVars PROVE RenewalInv'
  OBVIOUS
<1>1. 1 \in 1..MaxGen
  BY StorageAssumption
<1> QED
  BY <1>1, LoadInv, AnswerInv, KeepInv, CallInv, FallDueInv DEF StorageNext, RequestStep, StorageQuiet

\* The invariant holds in every state the requests can reach.
THEOREM RenewalSoundness == StorageSpec => []RenewalInv
<1>1. StorageInit => RenewalInv
  BY InitRenewalInv
<1>2. RenewalInv /\ [StorageNext]_storageVars => RenewalInv'
  BY NextRenewalInv
<1> QED BY <1>1, <1>2, PTL DEF StorageSpec

\* A credential that was renewed is the table's and no part of the configuration's,
\* and no request is handed one older than the one that was current when it asked,
\* however many renew at once and in whatever order their answers are read
\* (vended.rs:64-73, 405-428).
THEOREM RenewedCredentialsAreSound == StorageSpec => []RenewalIsSound
<1>1. RenewalInv => RenewalIsSound
  <2> SUFFICES ASSUME RenewalInv PROVE RenewalIsSound
    OBVIOUS
  <2>1. ASSUME NEW r \in FileRequests, at[r] = "done" PROVE got[r].gen >= since[r]
    BY <2>1 DEF RenewalInv, CallIsSound
  <2> QED BY <2>1 DEF RenewalInv, CurrentIsSound, RenewalIsSound, NeverHandedOlder
<1> QED BY <1>1, RenewalSoundness, PTL

-----------------------------------------------------------------------------
(* The runs of the command line. *)

Piece == {"all", "[]", "header", "[", "]", "head", "foot", "batch"} \X Nat
Text == Seq(Piece)
Modes == {None, "plain", "private", "theirs"}
FileOf(runs) == [kind : {"file"}, by : runs, text : Text, mode : Modes]
Dests == {Nothing, Directory} \cup FileOf(CliRuns \cup {"others"})
Run == [at : {"check", "refused", "open", "private", "prepare", "write", "mode", "rename", "done", "failed", "killed"},
        inv : Invocations, draws : Nat, tmp : Names \cup {None}, to : {None, "file", "stdout"},
        resolved : {None, "there", "here"}, engine : {None, "remote", "local", "sql", "database"},
        text : Text, printed : Text, mode : Modes, found : Dests]
Going(j) == j.at \in {"open", "private", "prepare", "write", "mode", "rename"}

CliTyped ==
  /\ dest \in Dests /\ run \in [CliRuns -> Run] /\ chmod \in BOOLEAN
  /\ DOMAIN temps \subseteq Names /\ temps \in [DOMAIN temps -> FileOf(CliRuns)]

\* How far a run is tells what it has: where it writes, how much, and with what mode.
GoesOn(j) ==
  /\ j.at \in {"check", "refused"} => j.to = None
  /\ j.at \notin {"check", "refused"} =>
       CheckOutput(j.inv) /\ j.to = (IF OutFile(j.inv) THEN "file" ELSE "stdout")
  /\ j.at \in {"check", "refused", "open"} => j.tmp = None
  /\ j.tmp # None => j.to = "file"
  /\ j.at \in {"private", "mode", "rename"} => j.to = "file"
  /\ j.to = "file" /\ j.at \in {"private", "prepare", "write", "mode", "rename"} => j.tmp # None
RunsTruly(j) ==
  /\ j.at \in {"check", "refused", "open", "private", "prepare"} => j.text = <<>> /\ j.printed = <<>> /\ j.engine = None
  /\ j.to # "stdout" => j.printed = <<>>
  /\ IsPrefix(j.printed, j.text)
  /\ j.at = "done" /\ j.to = "stdout" => j.printed = j.text
  /\ j.engine # None => (j.resolved = "there" <=> j.engine = "remote")
  /\ j.to = "file" /\ j.at \in {"prepare", "write"} => j.mode = "plain"
  /\ j.at \in {"mode", "rename", "done"} /\ j.to = "file" => j.mode = IF j.found = Nothing THEN "plain" ELSE j.found.mode
RunIsSound(j) == GoesOn(j) /\ RunsTruly(j)

\* A temporary file holds what its run has written, under a mode that goes with that.
TempIsSound(s, f, j) ==
  /\ j.tmp = s /\ (Going(j) \/ j.at = "killed")
  /\ IsPrefix(f.text, j.text)
  /\ j.at \in {"private", "prepare"} => f.text = <<>>
  /\ j.at = "private" => f.mode = "plain"
  /\ j.at \in {"prepare", "write", "mode"} => f.mode = "private"
  /\ j.at \in {"mode", "rename"} => f.text = j.text
  /\ j.at = "rename" => f.mode = j.mode
Holds(r, j, files) == Going(j) /\ j.tmp # None => j.tmp \in DOMAIN files /\ files[j.tmp].by = r

\* The inductive invariant.
CliInv ==
  /\ CliTyped
  /\ \A r \in CliRuns : RunIsSound(run[r]) /\ Holds(r, run[r], temps)
  /\ \A s \in DOMAIN temps : TempIsSound(s, temps[s], run[temps[s].by])
  /\ DestinationIsWhole /\ KeepsPermissions

LEMMA PrefixDef ==
  ASSUME NEW S, NEW s \in Seq(S), NEW t \in Seq(S)
  PROVE  IsPrefix(s, t) <=> Len(s) <= Len(t) /\ \A i \in 1..Len(s) : s[i] = t[i]
<1>1. CASE Len(s) <= Len(t)
  <2>1. /\ SubSeq(t, 1, Len(s)) \in Seq(S) /\ Len(SubSeq(t, 1, Len(s))) = Len(s)
        /\ \A i \in 1..Len(s) : SubSeq(t, 1, Len(s))[i] = t[i]
    BY <1>1
  <2>2. SubSeq(s, 1, Len(s)) = s
    OBVIOUS
  <2>3. s = SubSeq(t, 1, Len(s)) <=> \A i \in 1..Len(s) : s[i] = t[i]
    BY <2>1, SeqEqual
  <2>4. QED
    BY <1>1, <2>2, <2>3 DEF IsPrefix
<1>2. QED
  BY <1>1 DEF IsPrefix

\* Writing the next piece keeps what is written a prefix of the text.
LEMMA PrefixGrows ==
  ASSUME NEW S, NEW s \in Seq(S), NEW t \in Seq(S), IsPrefix(s, t), Len(s) < Len(t)
  PROVE  Append(s, t[Len(s) + 1]) \in Seq(S) /\ IsPrefix(Append(s, t[Len(s) + 1]), t)
<1> DEFINE more == Append(s, t[Len(s) + 1])
<1>1. t[Len(s) + 1] \in S
  BY ElementOfSeq
<1>2. more \in Seq(S) /\ Len(more) = Len(s) + 1 /\ (\A i \in 1..Len(s) : more[i] = s[i]) /\ more[Len(s) + 1] = t[Len(s) + 1]
  BY <1>1
<1>3. \A i \in 1..Len(more) : more[i] = t[i]
  BY <1>2, PrefixDef
<1> HIDE DEF more
<1>4. Len(more) <= Len(t)
  BY <1>2
<1>5. IsPrefix(more, t)
  BY <1>2, <1>3, <1>4, PrefixDef
<1>6. QED
  BY <1>2, <1>5 DEF more

LEMMA PrefixEnds == ASSUME NEW S, NEW t \in Seq(S) PROVE IsPrefix(<<>>, t) /\ IsPrefix(t, t) /\ <<>> \in Seq(S)
<1>1. <<>> \in Seq(S) /\ Len(<<>>) = 0
  OBVIOUS
<1>2. Len(t) \in Nat
  OBVIOUS
<1>3. ASSUME NEW e \in Seq(S), Len(e) = 0 PROVE IsPrefix(e, t)
  <2>1. SubSeq(e, 1, 0) = <<>> /\ SubSeq(t, 1, 0) = <<>>
    BY <1>2
  <2>2. QED
    BY <1>2, <1>3, <2>1 DEF IsPrefix
<1>4. IsPrefix(<<>>, t)
  BY <1>1, <1>3
<1>5. IsPrefix(t, t)
  BY <1>2, PrefixDef
<1>6. QED
  BY <1>1, <1>4, <1>5

LEMMA WholeType == ASSUME NEW inv, NEW n \in Nat PROVE Whole(inv, n) \in Text
<1>1. Batch(n) \in Text
  BY DEF Batch, Text, Piece
<1>2. OnePiece("all") \in Text /\ OnePiece("[]") \in Text /\ OnePiece("header") \in Text /\ OnePiece("[") \in Text
      /\ OnePiece("]") \in Text /\ OnePiece("head") \in Text /\ OnePiece("foot") \in Text /\ <<>> \in Text
  BY DEF OnePiece, Text, Piece
<1>3. \A s, t \in Text : s \o t \in Text
  BY DEF Text
<1>4. OnePiece("header") \o Batch(n) \in Text /\ OnePiece("[") \o Batch(n) \o OnePiece("]") \in Text
      /\ OnePiece("head") \o Batch(n) \o OnePiece("foot") \in Text
  BY <1>1, <1>2, <1>3
<1>5. QED
  BY <1>1, <1>2, <1>4 DEF Whole

LEMMA CliInit_Inv == CliInit => CliInv
<1> SUFFICES ASSUME CliInit PROVE CliInv
  OBVIOUS
<1>1. \A i \in Invocations : NotRun(i) \in Run
  BY DEF NotRun, Run, Text, Modes, Dests
<1>0. <<>> \in Text /\ IsPrefix(<<>>, <<>>)
  <2>1. <<>> \in Seq(Piece)
    OBVIOUS
  <2>2. QED
    BY <2>1, PrefixEnds DEF Text
<1>2. ASSUME NEW i \in Invocations PROVE RunIsSound(NotRun(i)) /\ NotRun(i).at = "check"
  BY <1>0 DEF NotRun, RunIsSound, GoesOn, RunsTruly
<1>3. \A r \in CliRuns : run[r] \in Run /\ RunIsSound(run[r]) /\ run[r].at = "check"
  BY <1>1, <1>2 DEF CliInit
<1>4. Old \in Dests
  BY PrefixEnds DEF Old, File, Dests, FileOf, Modes, Text
<1>9. temps = <<>> /\ DOMAIN temps = {} /\ temps \in [DOMAIN temps -> FileOf(CliRuns)]
  BY DEF CliInit
<1>10. run \in [CliRuns -> Run] /\ dest \in Dests /\ chmod \in BOOLEAN
  BY <1>1, <1>4 DEF CliInit, Dests
<1>5. CliTyped /\ DOMAIN temps = {}
  BY <1>9, <1>10 DEF CliTyped
<1>6. dest.by \notin CliRuns /\ (dest \in {Nothing, Directory} \/ dest.by = "others")
  BY CliAssumption DEF CliInit, Nothing, Directory, Old, File
<1>7. DestinationIsWhole /\ KeepsPermissions
  BY <1>3, <1>6 DEF DestinationIsWhole, KeepsPermissions
<1>8. QED
  BY <1>3, <1>5, <1>7 DEF CliInv, Holds, Going, RunIsSound, GoesOn

\* A step of one run, which leaves the files of the others alone.
LEMMA OneRun ==
  ASSUME CliInv, NEW r \in CliRuns, NEW j \in Run, run' = [run EXCEPT ![r] = j], RunIsSound(j),
         DOMAIN temps' \subseteq Names, temps' \in [DOMAIN temps' -> FileOf(CliRuns)],
         \A s \in DOMAIN temps : temps[s].by # r => s \in DOMAIN temps' /\ temps'[s] = temps[s],
         \A s \in DOMAIN temps' :
           \/ temps'[s].by = r /\ TempIsSound(s, temps'[s], j)
           \/ s \in DOMAIN temps /\ temps'[s] = temps[s] /\ temps[s].by # r,
         Holds(r, j, temps'), dest' \in Dests, chmod' \in BOOLEAN,
         DestinationIsWhole', KeepsPermissions'
  PROVE  CliInv'
<1>1. /\ run \in [CliRuns -> Run] /\ run' \in [CliRuns -> Run] /\ run'[r] = j
      /\ \A c \in CliRuns : c # r => run'[c] = run[c]
  BY DEF CliInv, CliTyped
<1>2. \A s \in DOMAIN temps : temps[s].by \in CliRuns
  BY DEF CliInv, CliTyped, FileOf
<1>3. ASSUME NEW c \in CliRuns PROVE RunIsSound(run'[c]) /\ Holds(c, run'[c], temps')
  <2>1. CASE c = r
    BY <1>1, <2>1
  <2>2. CASE c # r
    BY <1>1, <2>2 DEF CliInv, Holds
  <2>3. QED
    BY <2>1, <2>2
<1>4. ASSUME NEW s \in DOMAIN temps' PROVE TempIsSound(s, temps'[s], run'[temps'[s].by])
  <2>1. CASE temps'[s].by = r /\ TempIsSound(s, temps'[s], j)
    BY <1>1, <2>1
  <2>2. CASE s \in DOMAIN temps /\ temps'[s] = temps[s] /\ temps[s].by # r
    BY <1>1, <1>2, <2>2 DEF CliInv
  <2>3. QED
    BY <2>1, <2>2
<1>5. QED
  BY <1>1, <1>3, <1>4 DEF CliInv, CliTyped

\* What is at the destination does not depend on a run that does not put it there.
LEMMA DestKept ==
  ASSUME CliInv, NEW r \in CliRuns, NEW j \in Run, run' = [run EXCEPT ![r] = j],
         run[r].at # "done", j.at = "done" => j.to # "file", UNCHANGED <<dest, chmod>>
  PROVE  dest' \in Dests /\ chmod' \in BOOLEAN /\ DestinationIsWhole' /\ KeepsPermissions'
<1>1. /\ run \in [CliRuns -> Run] /\ run'[r] = j
      /\ \A c \in CliRuns : c # r => run'[c] = run[c]
      /\ dest \in Dests
  BY DEF CliInv, CliTyped
<1>2. dest \notin {Nothing, Directory} => dest.kind = "file" /\ dest.by \in CliRuns \cup {"others"}
  BY <1>1 DEF Dests, FileOf
<1>3. dest \in {Nothing, Directory} => dest.by \notin CliRuns
  BY CliAssumption DEF Nothing, Directory
<1>4. dest.by \in CliRuns => dest.by # r /\ run'[dest.by] = run[dest.by]
  BY <1>1, <1>2, <1>3 DEF CliInv, DestinationIsWhole
<1>5. DestinationIsWhole'
  BY <1>1, <1>2, <1>4 DEF CliInv, DestinationIsWhole
<1>6. KeepsPermissions'
  BY <1>4 DEF CliInv, KeepsPermissions
<1>7. QED
  BY <1>1, <1>5, <1>6 DEF CliInv, CliTyped

LEMMA Alone ==
  ASSUME CliInv, NEW r \in CliRuns
  PROVE  /\ run[r] \in Run /\ RunIsSound(run[r]) /\ Holds(r, run[r], temps)
         /\ DOMAIN temps \subseteq Names /\ temps \in [DOMAIN temps -> FileOf(CliRuns)]
         /\ \A s \in DOMAIN temps : temps[s].by = r => s = run[r].tmp /\ TempIsSound(s, temps[s], run[r])
  BY DEF CliInv, CliTyped, TempIsSound

\* A step of a run that leaves the files alone.
LEMMA NoFiles ==
  ASSUME CliInv, NEW r \in CliRuns, NEW j \in Run, run' = [run EXCEPT ![r] = j], RunIsSound(j),
         run[r].at # "done", j.at = "done" => j.to # "file", UNCHANGED <<dest, temps, chmod>>,
         \A s \in DOMAIN temps : temps[s].by = r => TempIsSound(s, temps[s], j),
         Holds(r, j, temps)
  PROVE  CliInv'
  BY OneRun, DestKept, Alone

LEMMA CheckFlags_Inv == ASSUME CliInv, NEW r \in CliRuns, CheckFlags(r) PROVE CliInv'
<1> DEFINE open == [run[r] EXCEPT !.at = "open", !.to = IF OutFile(run[r].inv) THEN "file" ELSE "stdout"]
           refused == [run[r] EXCEPT !.at = "refused"]
<1>0. run[r] \in Run /\ RunIsSound(run[r]) /\ run[r].at = "check" /\ UNCHANGED <<dest, temps, chmod>>
  BY Alone DEF CheckFlags
<1>1. \A s \in DOMAIN temps : temps[s].by # r
  BY <1>0, Alone, CliAssumption DEF RunIsSound, GoesOn
<1>2. CASE CheckOutput(run[r].inv)
  <2>1. run' = [run EXCEPT ![r] = open]
    BY <1>2 DEF CheckFlags, Becomes
  <2>2. open \in Run /\ open.tmp = None /\ open.at = "open"
    BY <1>0 DEF Run, RunIsSound, GoesOn
  <2>3. RunIsSound(open)
    BY <1>0, <1>2 DEF Run, RunIsSound, GoesOn, RunsTruly
  <2> HIDE DEF open
  <2>4. QED
    BY <1>0, <1>1, <2>1, <2>2, <2>3, NoFiles DEF Holds, RunIsSound, GoesOn
<1>3. CASE ~CheckOutput(run[r].inv)
  <2>1. run' = [run EXCEPT ![r] = refused]
    BY <1>3 DEF CheckFlags, Becomes
  <2>2. refused \in Run /\ refused.tmp = None /\ refused.at = "refused"
    BY <1>0 DEF Run, RunIsSound, GoesOn
  <2>3. RunIsSound(refused)
    BY <1>0 DEF Run, RunIsSound, GoesOn, RunsTruly
  <2> HIDE DEF refused
  <2>4. QED
    BY <1>0, <1>1, <2>1, <2>2, <2>3, NoFiles DEF Holds
<1>4. QED
  BY <1>2, <1>3

LEMMA OpenStdout_Inv == ASSUME CliInv, NEW r \in CliRuns, OpenStdout(r) PROVE CliInv'
<1> DEFINE j == [run[r] EXCEPT !.at = "prepare"]
<1>1. run' = [run EXCEPT ![r] = j]
  BY DEF OpenStdout, Becomes
<1>2. j \in Run /\ RunIsSound(j) /\ j.tmp = None /\ j.at = "prepare"
  BY Alone DEF Run, RunIsSound, GoesOn, RunsTruly, OpenStdout
<1>3. \A s \in DOMAIN temps : temps[s].by # r
  BY Alone, CliAssumption DEF RunIsSound, GoesOn, OpenStdout
<1> HIDE DEF j
<1>4. QED
  BY <1>1, <1>2, <1>3, NoFiles DEF OpenStdout, Holds

LEMMA Prepare_Inv == ASSUME CliInv, NEW r \in CliRuns, Prepare(r) PROVE CliInv'
<1> DEFINE inv == run[r].inv
           resolved == IF ReadsNothing(inv) THEN None ELSE ResolvedAt(inv)
           engine == IF ReadsNothing(inv) THEN None ELSE EngineFor(inv)
<1>1. PICK n \in 0..MaxBatches :
        run' = [run EXCEPT ![r] = [run[r] EXCEPT !.at = "write", !.text = Whole(inv, n),
                                                 !.resolved = resolved, !.engine = engine]]
  BY DEF Prepare, Becomes
<1> DEFINE j == [run[r] EXCEPT !.at = "write", !.text = Whole(inv, n), !.resolved = resolved, !.engine = engine]
<1>2. Whole(inv, n) \in Text /\ IsPrefix(<<>>, Whole(inv, n))
  BY <1>1, WholeType, PrefixEnds, CliAssumption DEF Text
<1>3. /\ engine \in {None, "remote", "local", "sql", "database"} /\ resolved \in {None, "there", "here"}
      /\ engine # None => (resolved = "there" <=> engine = "remote")
  <2>1. CASE ReadsNothing(inv)
    BY <2>1
  <2>2. CASE ~ReadsNothing(inv) /\ UsesRemote(inv)
    <3>1. Engines(inv) = [read |-> "remote", query |-> "remote", database |-> "remote"]
      BY <2>2 DEF Engines, UsesRemote
    <3>2. QED
      BY <2>2, <3>1 DEF EngineFor, ResolvedAt
  <2>3. CASE ~ReadsNothing(inv) /\ ~UsesRemote(inv)
    <3>1. Engines(inv).read \in {"local", "sql"} /\ Engines(inv).query \in {None, "sql"} /\ Engines(inv).database = "database"
      BY <2>3 DEF Engines
    <3>2. EngineFor(inv) \in {None, "local", "sql", "database"}
      BY <3>1 DEF EngineFor
    <3>3. QED
      BY <2>3, <3>2 DEF ResolvedAt
  <2>4. QED
    BY <2>1, <2>2, <2>3
<1>4. run[r] \in Run /\ RunIsSound(run[r]) /\ run[r].at = "prepare"
  BY Alone DEF Prepare
<1> HIDE DEF resolved, engine
<1>5. /\ j \in Run /\ j.at = "write" /\ j.tmp = run[r].tmp /\ j.to = run[r].to /\ j.mode = run[r].mode
      /\ j.text = Whole(inv, n) /\ j.inv = inv /\ j.printed = <<>> /\ j.resolved = resolved /\ j.engine = engine
  BY <1>2, <1>3, <1>4, ZenonT(20) DEF Run, RunIsSound, RunsTruly
<1> HIDE DEF j, inv
<1>6. RunIsSound(j)
  BY <1>2, <1>3, <1>4, <1>5 DEF RunIsSound, GoesOn, RunsTruly, inv
<1>7. \A s \in DOMAIN temps : temps[s].by = r => TempIsSound(s, temps[s], j)
  BY <1>2, <1>4, <1>5, Alone DEF TempIsSound, Going
<1>8. Holds(r, j, temps)
  BY <1>4, <1>5, Alone DEF Holds, Going
<1>9. QED
  BY <1>1, <1>4, <1>5, <1>6, <1>7, <1>8, NoFiles DEF Prepare, j

\* A step that ends a run, or moves it on, and keeps its texts and its file.
LEMMA FlushStdout_Inv == ASSUME CliInv, NEW r \in CliRuns, FlushStdout(r) PROVE CliInv'
<1> DEFINE j == [run[r] EXCEPT !.at = "done"]
<1>0. /\ run[r] \in Run /\ RunIsSound(run[r]) /\ run[r].at = "write" /\ run[r].to = "stdout"
      /\ run[r].printed = run[r].text /\ run[r].tmp = None
  BY Alone DEF FlushStdout, AllWritten, Written, RunIsSound, GoesOn
<1>1. run' = [run EXCEPT ![r] = j]
  BY DEF FlushStdout, Becomes
<1>2. j \in Run /\ j.tmp = None /\ j.to = "stdout"
  BY <1>0 DEF Run
<1>3. RunIsSound(j)
  BY <1>0 DEF Run, RunIsSound, GoesOn, RunsTruly
<1>4. \A s \in DOMAIN temps : temps[s].by # r
  BY <1>0, Alone, CliAssumption
<1> HIDE DEF j
<1>5. QED
  BY <1>0, <1>1, <1>2, <1>3, <1>4, NoFiles DEF FlushStdout, Holds

LEMMA Kill_Inv == ASSUME CliInv, NEW r \in CliRuns, Kill(r) PROVE CliInv'
<1> DEFINE j == [run[r] EXCEPT !.at = "killed"]
<1>0. run[r] \in Run /\ RunIsSound(run[r]) /\ Going(run[r])
  BY Alone DEF Kill, UnderWay, Going
<1>1. run' = [run EXCEPT ![r] = j]
  BY DEF Kill, Becomes
<1>2. j \in Run /\ j.at = "killed" /\ j.tmp = run[r].tmp /\ j.text = run[r].text
  BY <1>0 DEF Run
<1>3. RunIsSound(j)
  BY <1>0 DEF Run, RunIsSound, GoesOn, RunsTruly, Going
<1> HIDE DEF j
<1>4. \A s \in DOMAIN temps : temps[s].by = r => TempIsSound(s, temps[s], j)
  BY <1>2, Alone DEF TempIsSound
<1>5. run[r].at # "done" /\ ~Going(j)
  BY <1>0, <1>2 DEF Going
<1>6. QED
  BY <1>1, <1>2, <1>3, <1>4, <1>5, NoFiles DEF Kill, Holds

LEMMA Sync_Inv == ASSUME CliInv, NEW r \in CliRuns, Sync(r) PROVE CliInv'
<1> DEFINE j == [run[r] EXCEPT !.at = "mode", !.found = dest, !.mode = IF dest = Nothing THEN @ ELSE dest.mode]
<1>0. /\ run[r] \in Run /\ RunIsSound(run[r]) /\ run[r].at = "write" /\ run[r].to = "file"
      /\ run[r].tmp # None /\ temps[run[r].tmp].text = run[r].text /\ dest \in Dests
  BY Alone DEF Sync, AllWritten, Written, RunIsSound, GoesOn, CliInv, CliTyped
<1>1. run' = [run EXCEPT ![r] = j]
  BY DEF Sync, Becomes
<1>2. dest.mode \in Modes
  BY <1>0 DEF Dests, FileOf, Nothing, Directory, Modes
<1>3. /\ j \in Run /\ j.at = "mode" /\ j.tmp = run[r].tmp /\ j.text = run[r].text /\ j.to = "file" /\ j.found = dest
      /\ j.mode = IF dest = Nothing THEN run[r].mode ELSE dest.mode
  BY <1>0, <1>2 DEF Run
<1>4. RunIsSound(j)
  BY <1>0 DEF Run, RunIsSound, GoesOn, RunsTruly
<1> HIDE DEF j
<1>5. \A s \in DOMAIN temps : temps[s].by = r => TempIsSound(s, temps[s], j)
  BY <1>0, <1>3, Alone DEF TempIsSound, Going
<1>6. Holds(r, j, temps)
  BY <1>0, <1>3, Alone DEF Holds, Going
<1>7. QED
  BY <1>0, <1>1, <1>3, <1>4, <1>5, <1>6, NoFiles DEF Sync

\* A name that is not taken is the run's own from then on.
LEMMA Create_Inv == ASSUME CliInv, NEW r \in CliRuns, Create(r) PROVE CliInv'
<1>0. /\ run[r] \in Run /\ RunIsSound(run[r]) /\ run[r].at = "open" /\ run[r].to = "file" /\ run[r].tmp = None
      /\ run[r].text = <<>> /\ UNCHANGED <<dest, chmod>>
  BY Alone DEF Create, RunIsSound, GoesOn, RunsTruly
<1>1. \A s \in DOMAIN temps : temps[s].by # r
  BY <1>0, Alone, CliAssumption
<1>2. PICK s \in Names :
        \/ /\ s \notin DOMAIN temps /\ temps' = WithNew(s, r)
           /\ run' = [run EXCEPT ![r] = [run[r] EXCEPT !.at = "private", !.tmp = s]]
        \/ \E now \in {"failed", "open"} : /\ run' = [run EXCEPT ![r] = [run[r] EXCEPT !.draws = @ + 1, !.at = now]]
                                         /\ UNCHANGED temps
  BY DEF Create, Becomes
<1>3. CASE /\ s \notin DOMAIN temps /\ temps' = WithNew(s, r)
           /\ run' = [run EXCEPT ![r] = [run[r] EXCEPT !.at = "private", !.tmp = s]]
  <2> DEFINE j == [run[r] EXCEPT !.at = "private", !.tmp = s]
  <2>1. s # None
    BY CliAssumption
  <2>2. j \in Run /\ j.at = "private" /\ j.tmp = s /\ j.to = "file" /\ j.text = <<>>
    BY <1>0 DEF Run
  <2>3. RunIsSound(j)
    BY <1>0, <2>1 DEF Run, RunIsSound, GoesOn, RunsTruly
  <2>4. File(r, <<>>, "plain") \in FileOf(CliRuns) /\ <<>> \in Text
    BY DEF File, FileOf, Modes, Text
  <2>5. /\ DOMAIN temps' = DOMAIN temps \cup {s} /\ temps'[s] = File(r, <<>>, "plain")
        /\ \A t \in DOMAIN temps : t # s /\ temps'[t] = temps[t]
    BY <1>3 DEF WithNew
  <2>6. temps' \in [DOMAIN temps' -> FileOf(CliRuns)] /\ DOMAIN temps' \subseteq Names
    BY <1>3, <2>4, Alone DEF WithNew
  <2>7. temps'[s].by = r /\ temps'[s].text = <<>> /\ temps'[s].mode = "plain"
    BY <2>5 DEF File
  <2>8. IsPrefix(<<>>, <<>>)
    BY <2>4, PrefixEnds DEF Text
  <2> HIDE DEF j
  <2>9. TempIsSound(s, temps'[s], j) /\ Holds(r, j, temps')
    BY <2>2, <2>5, <2>7, <2>8 DEF TempIsSound, Holds, Going
  <2>10. run[r].at # "done" /\ j.at # "done"
    BY <1>0, <2>2
  <2>11. run' = [run EXCEPT ![r] = j]
    BY <1>3 DEF j
  <2>12. dest' \in Dests /\ chmod' \in BOOLEAN /\ DestinationIsWhole' /\ KeepsPermissions'
    BY <1>0, <2>2, <2>10, <2>11, DestKept
  <2>13. \A t \in DOMAIN temps' : t = s \/ t \in DOMAIN temps
    BY <2>5
  <2>14. QED
    BY <1>1, <2>2, <2>3, <2>5, <2>6, <2>7, <2>9, <2>11, <2>12, <2>13, OneRun
<1>4. ASSUME NEW now \in {"failed", "open"}, run' = [run EXCEPT ![r] = [run[r] EXCEPT !.draws = @ + 1, !.at = now]],
             UNCHANGED temps
      PROVE  CliInv'
  <2> DEFINE j == [run[r] EXCEPT !.draws = @ + 1, !.at = now]
  <2>5. run[r].draws + 1 \in Nat
    BY <1>0 DEF Run
  <2>1. j \in Run /\ j.tmp = None /\ j.at # "done"
    BY <1>0, <1>4, <2>5 DEF Run
  <2>2. RunIsSound(j)
    BY <1>0, <1>4 DEF Run, RunIsSound, GoesOn, RunsTruly
  <2>3. run' = [run EXCEPT ![r] = j]
    BY <1>4
  <2> HIDE DEF j
  <2>4. QED
    BY <1>0, <1>1, <1>4, <2>1, <2>2, <2>3, NoFiles DEF Holds
<1>5. QED
  BY <1>2, <1>3, <1>4

\* A step of a run that changes its own file.
LEMMA OwnFile ==
  ASSUME CliInv, NEW r \in CliRuns, NEW j \in Run, NEW f \in FileOf(CliRuns),
         run' = [run EXCEPT ![r] = j], RunIsSound(j), Going(run[r]), run[r].tmp # None,
         temps' = [temps EXCEPT ![run[r].tmp] = f], f.by = r,
         TempIsSound(run[r].tmp, f, j), Going(j), UNCHANGED <<dest, chmod>>
  PROVE  CliInv'
<1> DEFINE s == run[r].tmp
<1>1. s \in DOMAIN temps /\ temps[s].by = r /\ j.tmp = s
  BY Alone DEF Holds, TempIsSound
<1>2. /\ DOMAIN temps' = DOMAIN temps /\ temps' \in [DOMAIN temps' -> FileOf(CliRuns)] /\ temps'[s] = f
      /\ \A t \in DOMAIN temps : t # s => temps'[t] = temps[t] /\ temps[t].by # r
  BY <1>1, Alone
<1>3. Holds(r, j, temps')
  BY <1>1, <1>2 DEF Holds
<1>4. dest' \in Dests /\ chmod' \in BOOLEAN /\ DestinationIsWhole' /\ KeepsPermissions'
  BY DestKept DEF Going
<1>5. DOMAIN temps' \subseteq Names
  BY <1>2, Alone
<1>6. \A t \in DOMAIN temps : temps[t].by # r => t \in DOMAIN temps' /\ temps'[t] = temps[t]
  BY <1>1, <1>2
<1>7. \A t \in DOMAIN temps' :
        \/ temps'[t].by = r /\ TempIsSound(t, temps'[t], j)
        \/ t \in DOMAIN temps /\ temps'[t] = temps[t] /\ temps[t].by # r
  BY <1>1, <1>2
<1>8. temps' \in [DOMAIN temps' -> FileOf(CliRuns)]
  BY <1>2
<1> HIDE DEF s
<1>9. QED
  BY <1>3, <1>4, <1>5, <1>6, <1>7, <1>8, OneRun

LEMMA MakePrivate_Inv == ASSUME CliInv, NEW r \in CliRuns, MakePrivate(r) PROVE CliInv'
<1> DEFINE s == run[r].tmp
           j == [run[r] EXCEPT !.at = "prepare", !.mode = temps[s].mode]
           f == [temps[s] EXCEPT !.mode = "private"]
<1>0. /\ run[r] \in Run /\ RunIsSound(run[r]) /\ run[r].at = "private" /\ run[r].to = "file" /\ s # None
      /\ s \in DOMAIN temps /\ temps[s] \in FileOf(CliRuns) /\ temps[s].by = r
      /\ TempIsSound(s, temps[s], run[r]) /\ UNCHANGED <<dest, chmod>> /\ Going(run[r])
  BY Alone DEF MakePrivate, RunIsSound, GoesOn, Holds, Going
<1>1. temps[s].mode = "plain" /\ temps[s].text = <<>>
  BY <1>0 DEF TempIsSound
<1>2. run' = [run EXCEPT ![r] = j] /\ temps' = [temps EXCEPT ![s] = f]
  BY DEF MakePrivate, Becomes
<1>3. j \in Run /\ j.at = "prepare" /\ j.tmp = s /\ j.text = run[r].text
  BY <1>0, <1>1 DEF Run, Modes
<1>4. RunIsSound(j)
  BY <1>0, <1>1 DEF Run, RunIsSound, GoesOn, RunsTruly
<1>5. f \in FileOf(CliRuns) /\ f.by = r /\ f.text = <<>> /\ f.mode = "private"
  BY <1>0, <1>1 DEF FileOf, Modes
<1> HIDE DEF j, f
<1>6. TempIsSound(s, f, j) /\ Going(j)
  BY <1>0, <1>1, <1>3, <1>5 DEF TempIsSound, Going
<1>7. QED
  BY <1>0, <1>2, <1>3, <1>4, <1>5, <1>6, OwnFile

LEMMA WritePiece_Inv == ASSUME CliInv, NEW r \in CliRuns, WritePiece(r) PROVE CliInv'
<1> DEFINE so == Written(r)
           more == Append(so, run[r].text[Len(so) + 1])
<1>0. run[r] \in Run /\ RunIsSound(run[r]) /\ run[r].at = "write" /\ Len(so) < Len(run[r].text)
      /\ UNCHANGED <<dest, chmod>> /\ Going(run[r])
  BY Alone DEF WritePiece, Going
<1>1. CASE run[r].to = "file"
  <2> DEFINE s == run[r].tmp
             f == [temps[s] EXCEPT !.text = more]
  <2>1. /\ s # None /\ s \in DOMAIN temps /\ temps[s] \in FileOf(CliRuns) /\ temps[s].by = r
        /\ TempIsSound(s, temps[s], run[r])
    BY <1>0, <1>1, Alone DEF RunIsSound, GoesOn, Holds
  <2>2. so = temps[s].text
    BY <1>1 DEF Written
  <2>3. run[r].text \in Text /\ temps[s].text \in Text /\ IsPrefix(temps[s].text, run[r].text)
    BY <1>0, <2>1 DEF Run, FileOf, TempIsSound
  <2>4. more \in Text /\ IsPrefix(more, run[r].text)
    BY <1>0, <2>2, <2>3, PrefixGrows DEF Text
  <2>5. temps' = [temps EXCEPT ![s] = f] /\ run' = [run EXCEPT ![r] = run[r]]
    BY <1>1 DEF WritePiece, CliInv, CliTyped
  <2> HIDE DEF more
  <2>6. f \in FileOf(CliRuns) /\ f.by = r /\ f.text = more /\ f.mode = temps[s].mode
    BY <2>1, <2>4 DEF FileOf
  <2> HIDE DEF f
  <2>7. TempIsSound(s, f, run[r])
    BY <1>0, <2>1, <2>4, <2>6 DEF TempIsSound
  <2>8. QED
    BY <1>0, <2>1, <2>5, <2>6, <2>7, OwnFile
<1>2. CASE run[r].to # "file"
  <2> DEFINE j == [run[r] EXCEPT !.printed = more]
  <2>1. run' = [run EXCEPT ![r] = j] /\ UNCHANGED temps
    BY <1>2 DEF WritePiece, Becomes
  <2>2. so = run[r].printed /\ run[r].to = "stdout" /\ run[r].tmp = None
    BY <1>0, <1>2 DEF Written, RunIsSound, GoesOn
  <2>3. run[r].text \in Text /\ run[r].printed \in Text /\ IsPrefix(run[r].printed, run[r].text)
    BY <1>0 DEF Run, RunIsSound, RunsTruly
  <2>4. more \in Text /\ IsPrefix(more, run[r].text)
    BY <1>0, <2>2, <2>3, PrefixGrows DEF Text
  <2> HIDE DEF more
  <2>5. j \in Run /\ j.tmp = None /\ j.at = "write"
    BY <1>0, <2>2, <2>4 DEF Run
  <2>6. RunIsSound(j)
    BY <1>0, <2>2, <2>4 DEF Run, RunIsSound, GoesOn, RunsTruly
  <2>7. \A s \in DOMAIN temps : temps[s].by # r
    BY <2>2, Alone, CliAssumption
  <2> HIDE DEF j
  <2>8. QED
    BY <1>0, <2>1, <2>5, <2>6, <2>7, NoFiles DEF Holds
<1>3. QED
  BY <1>1, <1>2

LEMMA SetMode_Inv == ASSUME CliInv, NEW r \in CliRuns, SetMode(r) PROVE CliInv'
<1> DEFINE s == run[r].tmp
           j == [run[r] EXCEPT !.at = "rename"]
           f == [temps[s] EXCEPT !.mode = run[r].mode]
<1>0. /\ run[r] \in Run /\ RunIsSound(run[r]) /\ run[r].at = "mode" /\ run[r].to = "file" /\ s # None
      /\ s \in DOMAIN temps /\ temps[s] \in FileOf(CliRuns) /\ temps[s].by = r
      /\ TempIsSound(s, temps[s], run[r]) /\ UNCHANGED <<dest, chmod>> /\ Going(run[r])
  BY Alone DEF SetMode, RunIsSound, GoesOn, Holds, Going
<1>2. run' = [run EXCEPT ![r] = j] /\ temps' = [temps EXCEPT ![s] = f]
  BY DEF SetMode, Becomes
<1>3. j \in Run /\ j.at = "rename" /\ j.tmp = s /\ j.text = run[r].text /\ j.mode = run[r].mode
  BY <1>0 DEF Run
<1>4. RunIsSound(j)
  BY <1>0 DEF Run, RunIsSound, GoesOn, RunsTruly
<1>5. f \in FileOf(CliRuns) /\ f.by = r /\ f.text = temps[s].text /\ f.mode = run[r].mode
  BY <1>0 DEF FileOf, Run
<1> HIDE DEF j, f
<1>6. TempIsSound(s, f, j) /\ Going(j)
  BY <1>0, <1>3, <1>5 DEF TempIsSound, Going
<1>7. QED
  BY <1>0, <1>2, <1>3, <1>4, <1>5, <1>6, OwnFile

\* What is dropped is the run's file and no other.
LEMMA OwnFileGone ==
  ASSUME CliInv, NEW r \in CliRuns, Going(run[r]), temps' = [s \in DOMAIN temps \ {run[r].tmp} |-> temps[s]]
  PROVE  /\ DOMAIN temps' \subseteq Names /\ temps' \in [DOMAIN temps' -> FileOf(CliRuns)]
         /\ \A s \in DOMAIN temps : temps[s].by # r => s \in DOMAIN temps' /\ temps'[s] = temps[s]
         /\ \A s \in DOMAIN temps' : s \in DOMAIN temps /\ temps'[s] = temps[s] /\ temps[s].by # r
<1>1. \A s \in DOMAIN temps : temps[s].by # r => s # run[r].tmp
  BY Alone, CliAssumption DEF Holds
<1>2. QED
  BY <1>1, Alone

LEMMA FailRun_Inv == ASSUME CliInv, NEW r \in CliRuns, FailRun(r) PROVE CliInv'
<1> DEFINE j == [run[r] EXCEPT !.at = "failed"]
<1>0. run[r] \in Run /\ RunIsSound(run[r]) /\ Going(run[r]) /\ UNCHANGED <<dest, chmod>>
  BY Alone DEF FailRun, UnderWay, Going
<1>1. run' = [run EXCEPT ![r] = j] /\ temps' = [s \in DOMAIN temps \ {run[r].tmp} |-> temps[s]]
  BY DEF FailRun, Fails, Becomes
<1>2. j \in Run /\ j.at = "failed"
  BY <1>0 DEF Run
<1>3. RunIsSound(j)
  BY <1>0 DEF Run, RunIsSound, GoesOn, RunsTruly, Going
<1> HIDE DEF j
<1>4. run[r].at # "done" /\ ~Going(j)
  BY <1>0, <1>2 DEF Going
<1>5. Holds(r, j, temps')
  BY <1>4 DEF Holds
<1>6. dest' \in Dests /\ chmod' \in BOOLEAN /\ DestinationIsWhole' /\ KeepsPermissions'
  BY <1>0, <1>1, <1>2, <1>4, DestKept
<1>7. /\ DOMAIN temps' \subseteq Names /\ temps' \in [DOMAIN temps' -> FileOf(CliRuns)]
      /\ \A s \in DOMAIN temps : temps[s].by # r => s \in DOMAIN temps' /\ temps'[s] = temps[s]
      /\ \A s \in DOMAIN temps' : s \in DOMAIN temps /\ temps'[s] = temps[s] /\ temps[s].by # r
  BY <1>0, <1>1, OwnFileGone
<1>8. QED
  BY <1>1, <1>2, <1>3, <1>5, <1>6, <1>7, OneRun

\* The rename puts all of a run's text at the destination, under the mode that was
\* found there; the files of the other runs stay.
LEMMA Rename_Inv == ASSUME CliInv, NEW r \in CliRuns, Rename(r) PROVE CliInv'
<1> DEFINE j == [run[r] EXCEPT !.at = "done"]
           s == run[r].tmp
<1>0. /\ run[r] \in Run /\ RunIsSound(run[r]) /\ Going(run[r]) /\ run[r].at = "rename" /\ chmod' = chmod
      /\ run[r].to = "file" /\ s # None /\ s \in DOMAIN temps /\ temps[s] \in FileOf(CliRuns) /\ temps[s].by = r
      /\ TempIsSound(s, temps[s], run[r])
  BY Alone DEF Rename, Going, RunIsSound, GoesOn, Holds
<1>1. /\ run' = [run EXCEPT ![r] = j] /\ temps' = [t \in DOMAIN temps \ {run[r].tmp} |-> temps[t]]
      /\ dest' = temps[s]
  BY DEF Rename, Becomes
<1>2. /\ j \in Run /\ j.at = "done" /\ j.to = "file" /\ j.text = run[r].text /\ j.mode = run[r].mode
      /\ j.found = run[r].found
  BY <1>0 DEF Run
<1>3. RunIsSound(j)
  BY <1>0 DEF Run, RunIsSound, GoesOn, RunsTruly
<1>4. j.mode = IF j.found = Nothing THEN "plain" ELSE j.found.mode
  BY <1>0, <1>2 DEF RunIsSound, RunsTruly
<1> HIDE DEF j
<1>5. Holds(r, j, temps')
  BY <1>2 DEF Holds, Going
<1>6. /\ run \in [CliRuns -> Run] /\ run'[r] = j /\ chmod \in BOOLEAN
      /\ \A c \in CliRuns : c # r => run'[c] = run[c]
  BY <1>1, <1>2 DEF CliInv, CliTyped
<1>7. /\ dest' \in Dests /\ dest'.by = r /\ dest'.text = j.text /\ dest'.mode = j.mode
  BY <1>0, <1>1, <1>2 DEF Dests, FileOf, TempIsSound
<1>8. DestinationIsWhole' /\ KeepsPermissions'
  BY <1>2, <1>4, <1>6, <1>7 DEF DestinationIsWhole, KeepsPermissions
<1>9. /\ DOMAIN temps' \subseteq Names /\ temps' \in [DOMAIN temps' -> FileOf(CliRuns)]
      /\ \A t \in DOMAIN temps : temps[t].by # r => t \in DOMAIN temps' /\ temps'[t] = temps[t]
      /\ \A t \in DOMAIN temps' : t \in DOMAIN temps /\ temps'[t] = temps[t] /\ temps[t].by # r
  BY <1>0, <1>1, OwnFileGone
<1>10. chmod' \in BOOLEAN
  BY <1>0, <1>6
<1>11. QED
  BY <1>1, <1>2, <1>3, <1>5, <1>7, <1>8, <1>9, <1>10, OneRun

LEMMA Chmod_Inv == ASSUME CliInv, Chmod PROVE CliInv'
<1>1. /\ dest.kind = "file" /\ dest' = [dest EXCEPT !.mode = "private"] /\ chmod' = TRUE /\ UNCHANGED <<temps, run>>
      /\ dest \in FileOf(CliRuns \cup {"others"})
  BY DEF Chmod, CliInv, CliTyped, Dests, Nothing, Directory, None
<1>2. /\ dest' \in FileOf(CliRuns \cup {"others"}) /\ dest'.kind = "file" /\ dest'.by = dest.by
      /\ dest'.text = dest.text /\ dest'.mode = "private"
  BY <1>1 DEF FileOf, Modes
<1>3. DestinationIsWhole' /\ KeepsPermissions'
  BY <1>1, <1>2 DEF CliInv, DestinationIsWhole, KeepsPermissions, Nothing, Directory, None
<1>4. CliTyped'
  BY <1>1, <1>2 DEF CliInv, CliTyped, Dests
<1>5. QED
  BY <1>1, <1>3, <1>4 DEF CliInv, Holds

LEMMA CliNext_Inv == CliInv /\ [CliNext]_cliVars => CliInv'
<1> SUFFICES ASSUME CliInv, [CliNext]_cliVars PROVE CliInv'
  OBVIOUS
<1>1. CASE UNCHANGED cliVars
  BY <1>1 DEF cliVars, CliInv, CliTyped, Holds, DestinationIsWhole, KeepsPermissions
<1>2. CASE Chmod
  BY <1>2, Chmod_Inv
<1>3. CASE AllOver
  BY <1>1, <1>3 DEF AllOver
<1>4. ASSUME NEW r \in CliRuns,
             CheckFlags(r) \/ OpenStdout(r) \/ Create(r) \/ MakePrivate(r) \/ Prepare(r) \/ WritePiece(r)
               \/ FlushStdout(r) \/ Sync(r) \/ SetMode(r) \/ Rename(r) \/ FailRun(r) \/ Kill(r)
      PROVE  CliInv'
  BY <1>4, CheckFlags_Inv, OpenStdout_Inv, Create_Inv, MakePrivate_Inv, Prepare_Inv, WritePiece_Inv,
     FlushStdout_Inv, Sync_Inv, SetMode_Inv, Rename_Inv, FailRun_Inv, Kill_Inv
<1>5. QED
  BY <1>1, <1>2, <1>3, <1>4 DEF CliNext

\* Why it is enough.
LEMMA CliInv_Whole == CliInv => OutputIsWhole
<1> SUFFICES ASSUME CliInv PROVE OutputIsWhole
  OBVIOUS
<1>1. TemporariesAreOwned
  <2>1. ASSUME NEW r \in CliRuns, UnderWay(r), run[r].tmp # None
        PROVE  run[r].tmp \in DOMAIN temps /\ temps[run[r].tmp].by = r
    BY <2>1 DEF CliInv, Holds, Going, UnderWay
  <2>2. ASSUME NEW s \in DOMAIN temps
        PROVE  LET r == temps[s].by
               IN /\ run[r].tmp = s /\ (UnderWay(r) \/ run[r].at = "killed")
                  /\ IsPrefix(temps[s].text, run[r].text)
                  /\ temps[s].text # <<>> /\ run[r].at \in {"prepare", "write", "mode"} => temps[s].mode = "private"
    BY DEF CliInv, TempIsSound, Going, UnderWay
  <2>3. QED
    BY <2>1, <2>2 DEF TemporariesAreOwned
<1>2. ASSUME NEW r \in CliRuns
      PROVE  /\ IsPrefix(run[r].printed, run[r].text)
             /\ run[r].at = "done" /\ run[r].to = "stdout" => run[r].printed = run[r].text
             /\ run[r].printed # <<>> /\ run[r].inv.terminal => ~IsBinary(OutputOf(run[r].inv))
             /\ run[r].engine # None => (run[r].resolved = "there" <=> run[r].engine = "remote")
  <2>1. RunIsSound(run[r])
    BY DEF CliInv
  <2>2. run[r].printed # <<>> => run[r].to = "stdout" /\ CheckOutput(run[r].inv) /\ ~OutFile(run[r].inv)
    BY <2>1 DEF RunIsSound, GoesOn, RunsTruly
  <2>3. QED
    BY <2>1, <2>2 DEF RunIsSound, RunsTruly, CheckOutput
<1>3. QED
  BY <1>1, <1>2 DEF OutputIsWhole, PrintsInOrder, ResolvedWhereRead, CliInv

\* Output is whole, OutputIsWhole: for any number of runs, names and batches, whatever
\* fails, is killed or writes to the same file at once.
THEOREM OutputIsWholeAlways == CliSpec => []OutputIsWhole
  BY CliInit_Inv, CliNext_Inv, CliInv_Whole, PTL DEF CliSpec

-----------------------------------------------------------------------------
(* The remote engine. *)

\* A call of the remote engine, in which only what an answer may be is told apart.
Bodies == {"none", "message", "arrow", "json"} \cup {p.body : p \in Peers}
Reply == [status : {"none", "refused", "ok"}, body : Bodies, rows : Nat, size : Nat,
          declares : BOOLEAN, info : Infos \cup {Untold}]
Results == {"none", "info", "forbidden", "cancelled", "transport", "too_large", "server's message",
            "rows", "document", "undecodable"}
Call == [pc : {"idle", "send", "wait", "body", "done"}, ask : Asks \cup {NoCall.ask}, reply : Reply, late : BOOLEAN,
         stopped : BOOLEAN, result : Results, rows : Nat, info : Infos \cup {Untold}]
RemoteTyped == peer \in Peers /\ calls \in [Callers -> Call] /\ made \in Nat

\* What is on its way was asked for and may be sent.
AsksAreSent(j) == j.pc \in {"send", "wait", "body"} =>
  /\ j.ask \in Asks
  /\ \A i \in DOMAIN j.ask.sources : ~RefuseDatabase(j.ask.sources[i])

\* What is read is an answer to what was asked: by some server, and all of it.
AnswersTheAsk(j) == j.pc = "body" =>
  \/ j.reply.status = "refused" /\ j.reply.body = "message"
  \/ /\ j.reply.status = "ok" /\ j.reply.info \in Infos
     /\ j.reply.rows = Served(j.ask) /\ j.reply.size = 1 + Served(j.ask)

\* What RemoteIsTheServers says of a call that is over.
EndsTruly(j) == j.pc = "done" =>
  /\ j.result = "rows" => j.rows = Served(j.ask) /\ 1 + j.rows <= Cap
  /\ j.result = "rows" /\ j.ask.method # "query" => j.rows <= j.ask.limit
  /\ j.result = "too_large" => j.reply.size > Cap
  /\ j.result = "server's message" => j.reply.status = "refused"
  /\ j.result = "undecodable" => j.reply.body # ToldOf(j.ask)
  /\ j.result = "cancelled" => j.late \/ j.stopped
  /\ j.result = "transport" => j.late \/ \E p \in Peers : ~p.up
  /\ j.result = "info" => j.info \in Infos
CallIsTrue(j) == AsksAreSent(j) /\ AnswersTheAsk(j) /\ EndsTruly(j)

\* The inductive invariant.
RemoteInv ==
  /\ RemoteTyped /\ \A c \in Callers : CallIsTrue(calls[c])
  /\ \A sent \in wire : sent.path # "database uri" /\ sent.format # "database"
  /\ kept \in Infos \cup {Untold}

LEMMA LimitType == ASSUME NEW ask \in Asks \cup {NoCall.ask} PROVE ask.limit \in Nat /\ Served(ask) \in Nat /\ Limit(ask) \in Nat /\ Served(ask) <= Limit(ask)
  BY RemoteAssumption DEF Served, Limit, Least, RemoteAsk, NoCall

LEMMA NoCallType == NoCall \in Call /\ NoCall.pc = "idle"
  BY DEF NoCall, Call, NoReply, Reply, Bodies, Results

\* A call that is not over, and not being answered, is as true as what it asks.
LEMMA UnderWayIsTrue ==
  ASSUME NEW j \in Call, j.pc \in {"idle", "send", "wait"}, AsksAreSent(j) PROVE CallIsTrue(j)
  BY DEF CallIsTrue, AnswersTheAsk, EndsTruly

\* The step of one call.
LEMMA OneCall ==
  ASSUME RemoteInv, NEW c \in Callers, NEW j \in Call, calls' = [calls EXCEPT ![c] = j], CallIsTrue(j)
  PROVE  calls' \in [Callers -> Call] /\ \A d \in Callers : CallIsTrue(calls'[d])
<1>1. \A d \in Callers : calls'[d] = IF d = c THEN j ELSE calls[d]
  BY DEF RemoteInv, RemoteTyped
<1>2. QED
  BY <1>1 DEF RemoteInv, RemoteTyped

LEMMA RemoteInit_Inv == RemoteInit => RemoteInv
<1> SUFFICES ASSUME RemoteInit PROVE RemoteInv
  OBVIOUS
<1>1. AsksAreSent(NoCall)
  BY DEF AsksAreSent, NoCall
<1>2. CallIsTrue(NoCall)
  BY <1>1, NoCallType, UnderWayIsTrue
<1>3. QED
  BY <1>2, NoCallType DEF RemoteInit, RemoteInv, RemoteTyped

LEMMA BeginCall_Inv == ASSUME RemoteInv, NEW c \in Callers, NEW ask \in Asks, BeginCall(c, ask) PROVE RemoteInv'
<1> DEFINE begun == [NoCall EXCEPT !.ask = ask]
           told == [begun EXCEPT !.pc = "done", !.result = "info", !.info = kept]
           refused == [begun EXCEPT !.pc = "done", !.result = "forbidden"]
           going == [begun EXCEPT !.pc = "send"]
<1>1. ask \in RemoteAsk /\ (AsksInfo(ask) => ask.sources = <<>>)
  BY RemoteAssumption
<1>2. begun \in Call /\ kept \in Infos \cup {Untold}
  BY <1>1, NoCallType DEF Call, Results, RemoteInv
<1>7. made' \in Nat /\ UNCHANGED <<peer, kept, wire>>
  <2>1. made \in Nat
    BY DEF RemoteInv, RemoteTyped
  <2>2. made' = made + 1 /\ peer' = peer /\ kept' = kept /\ wire' = wire
    BY DEF BeginCall
  <2>3. QED
    BY <2>1, <2>2
<1>3. CASE AsksInfo(ask) /\ kept # Untold
  <2>1. told \in Call /\ told.pc = "done" /\ told.result = "info" /\ told.info \in Infos
    BY <1>2, <1>3, NoCallType DEF Call, Results
  <2>2. CallIsTrue(told)
    BY <2>1 DEF CallIsTrue, AsksAreSent, AnswersTheAsk, EndsTruly
  <2>3. calls' = [calls EXCEPT ![c] = told]
    BY <1>3 DEF BeginCall
  <2> HIDE DEF told, begun
  <2>4. QED
    BY <2>1, <2>2, <2>3, <1>7, OneCall DEF RemoteInv, RemoteTyped
<1>4. CASE ~AsksInfo(ask) /\ \E i \in DOMAIN ask.sources : RefuseDatabase(ask.sources[i])
  <2>1. refused \in Call /\ refused.pc = "done" /\ refused.result = "forbidden"
    BY <1>2, NoCallType DEF Call, Results
  <2>2. CallIsTrue(refused)
    BY <2>1 DEF CallIsTrue, AsksAreSent, AnswersTheAsk, EndsTruly
  <2>3. calls' = [calls EXCEPT ![c] = refused]
    BY <1>4 DEF BeginCall
  <2> HIDE DEF refused, begun
  <2>4. QED
    BY <2>1, <2>2, <2>3, <1>7, OneCall DEF RemoteInv, RemoteTyped
<1>5. CASE /\ ~(AsksInfo(ask) /\ kept # Untold)
           /\ ~(~AsksInfo(ask) /\ \E i \in DOMAIN ask.sources : RefuseDatabase(ask.sources[i]))
  <2>1. going \in Call /\ going.pc = "send" /\ going.ask = ask
    BY <1>2, <1>1, NoCallType DEF Call, Results
  <2>2. AsksAreSent(going)
    BY <2>1, <1>1, <1>5 DEF AsksAreSent
  <2>3. calls' = [calls EXCEPT ![c] = going]
    BY <1>5 DEF BeginCall
  <2> HIDE DEF going, begun
  <2>4. CallIsTrue(going)
    BY <2>1, <2>2, UnderWayIsTrue
  <2>5. QED
    BY <2>1, <2>3, <2>4, <1>7, OneCall DEF RemoteInv, RemoteTyped
<1>6. QED
  BY <1>3, <1>4, <1>5

\* A call that goes on, or that ends without what was answered being looked at.
LEMMA Waits_Inv ==
  ASSUME RemoteInv, NEW c \in Callers, DeadlinePasses(c) \/ Stop(c) \/ NoAnswer(c) \/ BodyBreaks(c)
  PROVE  RemoteInv'
<1>0. calls[c] \in Call /\ CallIsTrue(calls[c])
  BY DEF RemoteInv, RemoteTyped
<1>1. CASE DeadlinePasses(c) \/ Stop(c)
  <2>1. PICK j \in {[calls[c] EXCEPT !.late = TRUE], [calls[c] EXCEPT !.stopped = TRUE]} :
          calls' = [calls EXCEPT ![c] = j]
    BY <1>1 DEF DeadlinePasses, Stop, RemoteInv, RemoteTyped
  <2>2. calls[c].pc \in {"send", "wait", "body"}
    BY <1>1 DEF DeadlinePasses, Stop
  <2>3. j \in Call /\ CallIsTrue(j)
    BY <1>0, <2>2 DEF Call, CallIsTrue, AsksAreSent, AnswersTheAsk, EndsTruly
  <2>4. QED
    BY <1>1, <2>1, <2>3, OneCall DEF DeadlinePasses, Stop, RemoteInv, RemoteTyped
<1>2. CASE NoAnswer(c) \/ BodyBreaks(c)
  <2>1. PICK result \in {"transport", "cancelled"} :
          /\ calls' = [calls EXCEPT ![c] = [calls[c] EXCEPT !.pc = "done", !.result = result]]
          /\ result = "cancelled" => calls[c].late
          /\ result = "transport" => calls[c].late \/ ~peer.up
    BY <1>2 DEF NoAnswer, BodyBreaks, End, RemoteInv, RemoteTyped
  <2>2. [calls[c] EXCEPT !.pc = "done", !.result = result] \in Call
    BY <1>0 DEF Call, Results
  <2>3. CallIsTrue([calls[c] EXCEPT !.pc = "done", !.result = result])
    BY <1>0, <2>1 DEF Call, CallIsTrue, AsksAreSent, AnswersTheAsk, EndsTruly, RemoteInv, RemoteTyped
  <2>4. QED
    BY <1>2, <2>1, <2>2, <2>3, OneCall DEF NoAnswer, BodyBreaks, RemoteInv, RemoteTyped
<1>3. QED
  BY <1>1, <1>2

\* A path of a database is told to nobody, nor is the format of one.
LEMMA SendAsk_Inv == ASSUME RemoteInv, NEW c \in Callers, SendAsk(c) PROVE RemoteInv'
<1> DEFINE about == calls[c].ask.sources
           over == calls[c].late \/ calls[c].stopped
           j == IF over THEN [calls[c] EXCEPT !.pc = "done", !.result = "cancelled"]
                ELSE [calls[c] EXCEPT !.pc = "wait"]
<1>0. calls[c] \in Call /\ CallIsTrue(calls[c]) /\ calls[c].pc = "send"
  BY DEF RemoteInv, RemoteTyped, SendAsk
<1>1. j \in Call
  BY <1>0 DEF Call, Results
<1>2. CallIsTrue(j)
  BY <1>0 DEF Call, CallIsTrue, AsksAreSent, AnswersTheAsk, EndsTruly
<1>3. calls' = [calls EXCEPT ![c] = j]
  BY DEF SendAsk, End
<1>4. \A i \in DOMAIN about : Params(about[i]).path # "database uri" /\ Params(about[i]).format # "database"
  BY <1>0 DEF CallIsTrue, AsksAreSent, RefuseDatabase, Params
<1>5. \A sent \in wire' : sent.path # "database uri" /\ sent.format # "database"
  BY <1>4 DEF SendAsk, RemoteInv
<1> HIDE DEF j
<1>6. QED
  BY <1>1, <1>2, <1>3, <1>5, OneCall DEF SendAsk, RemoteInv, RemoteTyped

LEMMA AnswerCall_Inv == ASSUME RemoteInv, NEW c \in Callers, AnswerCall(c) PROVE RemoteInv'
<1> DEFINE j == [calls[c] EXCEPT !.pc = "body", !.reply = ReplyOf(calls[c].ask)]
<1>0. calls[c] \in Call /\ CallIsTrue(calls[c]) /\ calls[c].pc = "wait" /\ peer \in Peers
  BY DEF RemoteInv, RemoteTyped, AnswerCall
<1>1. Served(calls[c].ask) \in Nat
  BY <1>0, LimitType DEF Call, Results
<1>2. peer.body \in Bodies /\ peer.declares \in BOOLEAN /\ peer.info \in Infos /\ ToldOf(calls[c].ask) \in Bodies
  BY <1>0, RemoteAssumption DEF Bodies, Infos, ToldOf
<1>3. ReplyOf(calls[c].ask) \in Reply
  <2>1. CASE Refuses(calls[c].ask)
    BY <2>1 DEF ReplyOf, Reply, NoReply, Bodies
  <2>2. CASE ~Refuses(calls[c].ask)
    <3>1. 1 + Served(calls[c].ask) \in Nat /\ (IF peer.body = "plain" THEN ToldOf(calls[c].ask) ELSE peer.body) \in Bodies
      BY <1>1, <1>2
    <3>2. QED
      BY <2>2, <3>1, <1>1, <1>2 DEF ReplyOf, Reply
  <2>3. QED
    BY <2>1, <2>2
<1>4. j \in Call
  BY <1>0, <1>3 DEF Call, Results
<1>5. CallIsTrue(j)
  BY <1>0, <1>2 DEF Call, CallIsTrue, AsksAreSent, AnswersTheAsk, EndsTruly, ReplyOf, NoReply
<1>6. calls' = [calls EXCEPT ![c] = j]
  BY DEF AnswerCall
<1> HIDE DEF j
<1>7. QED
  BY <1>4, <1>5, <1>6, OneCall DEF AnswerCall, RemoteInv, RemoteTyped

\* What is made of an answer that was read: one byte past the cap tells a response
\* that is over it, and what is not over it is there to its last byte.
LEMMA ReceiveBody_Inv == ASSUME RemoteInv, NEW c \in Callers, ReceiveBody(c) PROVE RemoteInv'
<1> DEFINE ask == calls[c].ask
           reply == calls[c].reply
           bytes == ReadBody(reply.size)
           over == (reply.declares /\ reply.size > Cap) \/ bytes > Cap
           read == IF ToldOf(ask) = "arrow" THEN Decode(reply, bytes) ELSE Parse(reply, bytes)
           info == AsksInfo(ask) /\ read.result = "document"
           result == CASE over -> "too_large"
                       [] ~over /\ reply.status = "refused" -> "server's message"
                       [] ~over /\ reply.status = "ok" /\ info -> "info"
                       [] OTHER -> read.result
           rows == IF over \/ reply.status = "refused" THEN 0 ELSE read.rows
           told == IF ~over /\ reply.status = "ok" /\ info THEN reply.info ELSE Untold
           j == [calls[c] EXCEPT !.pc = "done", !.result = result, !.rows = rows, !.info = told]
<1>0. calls[c] \in Call /\ CallIsTrue(calls[c]) /\ calls[c].pc = "body"
  BY DEF RemoteInv, RemoteTyped, ReceiveBody
<1>1. /\ ask.limit \in Nat /\ reply \in Reply
      /\ Served(ask) \in Nat /\ Limit(ask) \in Nat /\ Served(ask) <= Limit(ask)
  BY <1>0, LimitType DEF Call, Results
<1>2. \/ reply.status = "refused" /\ reply.body = "message"
      \/ /\ reply.status = "ok" /\ reply.info \in Infos
         /\ reply.rows = Served(ask) /\ reply.size = 1 + Served(ask)
  BY <1>0 DEF CallIsTrue, AnswersTheAsk
<1>3. Cap \in Nat /\ reply.size \in Nat /\ bytes \in Nat /\ (reply.size > Cap <=> bytes > Cap)
      /\ (~over => bytes = reply.size)
  BY <1>1, RemoteAssumption, SMTT(20) DEF Reply, ReadBody, Least
<1>4. over <=> reply.size > Cap
  BY <1>3
<1>5. /\ read.result = "rows" => ToldOf(ask) = "arrow" /\ reply.body = "arrow" /\ read.rows = bytes - 1
      /\ read.result # "rows" => read.rows = 0
      /\ read.result = "undecodable" /\ ~over => reply.body # ToldOf(ask)
      /\ read.result \in {"rows", "document", "undecodable"}
  BY <1>3 DEF Decode, Parse, ToldOf
<1>6. result = "rows" => ~over /\ reply.status = "ok" /\ read.result = "rows"
  BY <1>2, <1>5
<1>7. rows \in Nat /\ (result = "rows" => rows = Served(ask) /\ 1 + rows <= Cap)
  <2>1. CASE over \/ reply.status = "refused"
    BY <2>1, <1>6
  <2>2. CASE ~over /\ reply.status = "ok"
    <3>1. bytes = 1 + Served(ask) /\ bytes <= Cap
      BY <2>2, <1>2, <1>3
    <3>2. rows = read.rows
      BY <2>2
    <3>3. QED
      BY <3>1, <3>2, <1>1, <1>3, <1>5, <1>6
  <2>3. QED
    BY <2>1, <2>2, <1>2
<1>8. ToldOf(ask) = "arrow" /\ ask.method # "query" => Limit(ask) <= ask.limit
  BY <1>1, RemoteAssumption DEF ToldOf, Limit, Least
<1>9. result = "rows" /\ ask.method # "query" => rows <= ask.limit
  BY <1>1, <1>5, <1>6, <1>7, <1>8
<1>10. result = "info" => told \in Infos
  BY <1>2, <1>5
<1>11. told \in Infos \cup {Untold} /\ result \in Results
  BY <1>2, <1>5 DEF Results
<1>12. /\ result = "too_large" => reply.size > Cap
       /\ result = "server's message" => reply.status = "refused"
       /\ result = "undecodable" => reply.body # ToldOf(ask)
       /\ result \notin {"cancelled", "transport"}
  BY <1>2, <1>4, <1>5
<1>13. /\ j.ask = ask /\ j.reply = reply /\ j.pc = "done" /\ j.result = result /\ j.rows = rows /\ j.info = told
       /\ j \in Call
  BY <1>0, <1>7, <1>11, ZenonT(20) DEF Call, Results
<1>15. calls' = [calls EXCEPT ![c] = j] /\ kept' \in Infos \cup {Untold}
  BY <1>2 DEF ReceiveBody, RemoteInv
<1> HIDE DEF j, result, rows, told, info, read, over, bytes, reply, ask
<1>16. CallIsTrue(j)
  BY <1>7, <1>9, <1>10, <1>12, <1>13 DEF CallIsTrue, AsksAreSent, AnswersTheAsk, EndsTruly
<1>17. QED
  BY <1>13, <1>15, <1>16, OneCall DEF ReceiveBody, RemoteInv, RemoteTyped

LEMMA RemoteNext_Inv == RemoteInv /\ [RemoteNext]_remoteVars => RemoteInv'
<1> SUFFICES ASSUME RemoteInv, [RemoteNext]_remoteVars PROVE RemoteInv'
  OBVIOUS
<1>1. CASE RemoteRest \/ UNCHANGED remoteVars
  BY <1>1 DEF RemoteRest, remoteVars, RemoteInv, RemoteTyped
<1>2. ASSUME NEW other \in Peers, Restart(other) PROVE RemoteInv'
  BY <1>2 DEF Restart, RemoteInv, RemoteTyped
<1>3. QED
  BY <1>1, <1>2, BeginCall_Inv, Waits_Inv, SendAsk_Inv, AnswerCall_Inv, ReceiveBody_Inv DEF RemoteNext

\* What the engine returns is the server's: RemoteIsTheServers, for any servers, limits
\* and callers.
THEOREM RemoteIsTheServersAlways == RemoteSpec => []RemoteIsTheServers
<1>1. RemoteInv => RemoteIsTheServers
  BY DEF RemoteInv, RemoteIsTheServers, CallIsTrue, EndsTruly
<1>2. QED
  BY <1>1, RemoteInit_Inv, RemoteNext_Inv, PTL DEF RemoteSpec

-----------------------------------------------------------------------------
(* The windows of the grid. *)

\* A set of naturals has a least element.
LEMMA LeastNatural ==
  ASSUME NEW T \in SUBSET Nat, T # {}
  PROVE  \E n \in T : \A k \in T : n <= k
<1>1. \E n \in T : \A k \in T : ~(<<k, n>> \in OpToRel(<, Nat))
  <2> T \subseteq Nat
    OBVIOUS
  <2> QED BY NatLessThanWellFounded, WFMin, Zenon
<1>2. ASSUME NEW k \in Nat, NEW n \in Nat, k < n PROVE <<k, n>> \in OpToRel(<, Nat)
  BY <1>2, Zenon DEF OpToRel
<1>3. \E n \in T : \A k \in T : ~(k < n)
  BY <1>1, <1>2, Zenon
<1> QED BY <1>3

LEMMA MinIsLeast == ASSUME NEW T \in SUBSET Nat, T # {} PROVE Min(T) \in T
  BY LeastNatural, Zenon DEF Min

-----------------------------------------------------------------------------
(* Maps from windows. *)
Maps(S) == UNION {[D -> S] : D \in SUBSET Nat}

LEMMA MapsDef == ASSUME NEW S, NEW f PROVE f \in Maps(S) <=> DOMAIN f \subseteq Nat /\ f \in [DOMAIN f -> S]
  BY DEF Maps
\* What a map becomes by one more window.
Extends(g, f, w, v) ==
  DOMAIN g = DOMAIN f \cup {w} /\ \A k \in DOMAIN f \cup {w} : g[k] = IF k = w THEN v ELSE f[k]
LEMMA WithMap ==
  ASSUME NEW S, NEW f \in Maps(S), NEW w \in Nat, NEW v \in S, NEW g, g = With(f, w, v)
  PROVE  g \in Maps(S) /\ Extends(g, f, w, v)
<1>1. DOMAIN f \subseteq Nat /\ \A k \in DOMAIN f : f[k] \in S
  BY MapsDef
<1>2. DOMAIN g = DOMAIN f \cup {w} /\ \A k \in DOMAIN f \cup {w} : g[k] = IF k = w THEN v ELSE f[k]
  BY DEF With
<1>3. g \in [DOMAIN g -> S]
  BY <1>1 DEF With
<1>4. QED
  BY <1>1, <1>2, <1>3, MapsDef DEF Extends
LEMMA WithoutMap ==
  ASSUME NEW S, NEW f \in Maps(S), NEW w
  PROVE  /\ Without(f, w) \in Maps(S) /\ DOMAIN Without(f, w) = DOMAIN f \ {w}
         /\ \A k \in DOMAIN f \ {w} : Without(f, w)[k] = f[k]
<1>1. DOMAIN f \subseteq Nat /\ \A k \in DOMAIN f : f[k] \in S
  BY MapsDef
<1>2. DOMAIN Without(f, w) = DOMAIN f \ {w} /\ \A k \in DOMAIN f \ {w} : Without(f, w)[k] = f[k]
  BY DEF Without
<1>3. Without(f, w) \in [DOMAIN Without(f, w) -> S]
  BY <1>1 DEF Without
<1>4. QED
  BY <1>1, <1>2, <1>3, MapsDef

-----------------------------------------------------------------------------
(* What has been read of a query. *)
Asked == Queries \cup {NoQuery}
Row == Asked \X Int
WaitType == [wait : Nat, tries : Nat]
ReadType == [query : Asked, gen : Nat, windows : Maps(Seq(Row)), failed : Maps(WaitType), total : Int,
             matched : Nat, seen : Nat, end : Int, bounded : BOOLEAN]

LEMMA AskedType == \A q \in Asked : q.length \in Nat /\ q.bounded \in BOOLEAN
<1>1. \A q \in Queries : q.length \in Nat /\ q.bounded \in BOOLEAN
  BY WindowsAssumption, Zenon
<1>2. NoQuery.length \in Nat /\ NoQuery.bounded \in BOOLEAN
  BY DEF NoQuery
<1>3. QED
  BY <1>1, <1>2 DEF Asked

\* A number of rows that fills its windows.
Fills(n) == \E k \in Nat : n = k * Window

\* The rows that are there are the query's, the counts are of rows there are, and as long
\* as no end was seen, whole windows were.
Core(read) ==
  /\ read \in ReadType /\ IsFiniteSet(DOMAIN read.windows)
  /\ \A w \in DOMAIN read.windows : read.windows[w] = RowsAt(read.query, w)
  /\ read.seen <= read.query.length /\ read.matched <= read.query.length
  /\ read.total \in {-1, read.query.length} /\ read.end \in {-1, read.query.length}
  /\ ~read.query.bounded /\ read.total = -1 /\ read.end = -1 => Fills(read.seen) /\ Fills(read.matched)
Told(read) == read.bounded = read.query.bounded /\ (read.bounded => read.matched = read.query.length)

LEMMA WindowNat == Window \in Nat /\ Window > 0 /\ Keeps \in Nat /\ Keeps > 0 /\ InFlight \in Nat /\ InFlight > 0
  BY WindowsAssumption

\* The rows of a window that begins within the table, or at its end.
LEMMA RowsAtFacts ==
  ASSUME NEW q \in Asked, NEW w \in Nat, w * Window <= q.length
  PROVE  /\ RowsAt(q, w) \in Seq(Row) /\ Len(RowsAt(q, w)) \in Nat /\ Len(RowsAt(q, w)) <= Window
         /\ w * Window + Len(RowsAt(q, w)) <= q.length
         /\ Len(RowsAt(q, w)) < Window => w * Window + Len(RowsAt(q, w)) = q.length
<1> DEFINE offset == w * Window
           n == Larger(0, Smaller(Window, q.length - offset))
<1>1. q.length \in Nat /\ offset \in Nat /\ offset <= q.length
  BY AskedType, WindowNat
<1> HIDE DEF offset
<1>2. n \in Nat /\ n <= Window /\ offset + n <= q.length /\ (n < Window => offset + n = q.length)
  BY <1>1, WindowNat DEF Larger, Smaller
<1> HIDE DEF n
<1>3. \A i \in 1 .. n : <<q, offset + i>> \in Row
  BY <1>1, <1>2 DEF Row
<1>4. RowsAt(q, w) = [i \in 1 .. n |-> <<q, offset + i>>]
  BY DEF RowsAt, n, offset
<1>5. RowsAt(q, w) \in Seq(Row) /\ Len(RowsAt(q, w)) = n
  BY <1>2, <1>3, <1>4
<1>6. QED
  BY <1>2, <1>5 DEF offset

LEMMA FillsNext == ASSUME NEW w \in Nat PROVE Fills(w * Window + Window)
<1>1. w + 1 \in Nat /\ (w + 1) * Window = w * Window + Window
  BY WindowNat
<1>2. QED
  BY <1>1 DEF Fills

\* A reply to a window that begins among the rows there are, or right after them.
LEMMA AbsorbCore ==
  ASSUME NEW read, Core(read), read.query \in Queries, NEW w \in Nat, w * Window <= read.query.length,
         NEW reply \in Replies(read.query, w)
  PROVE  LET new == Absorb(read, w, reply)
         IN /\ Core(new) /\ Told(new) /\ new.query = read.query /\ new.gen = read.gen
            /\ DOMAIN new.windows = DOMAIN read.windows \cup {w}
            /\ DOMAIN new.failed \subseteq DOMAIN read.failed
            /\ \A v \in DOMAIN new.failed : new.failed[v] = read.failed[v]
<1> DEFINE q == read.query
           L == q.length
           offset == w * Window
           len == Len(RowsAt(q, w))
           new == Absorb(read, w, reply)
<1>1. q \in Asked /\ L \in Nat /\ offset \in Nat /\ read \in ReadType /\ q.bounded \in BOOLEAN
  BY AskedType, WindowNat DEF Asked, Core
<1>2. /\ RowsAt(q, w) \in Seq(Row) /\ len \in Nat /\ len <= Window /\ offset + len <= L
      /\ len < Window => offset + len = L
  BY <1>1, RowsAtFacts
<1>3. /\ reply.offset = offset /\ reply.rows = RowsAt(q, w) /\ reply.bounded = q.bounded
      /\ reply.known \in BOOLEAN /\ (q.bounded => ~reply.known)
      /\ reply.matched = IF reply.known \/ q.bounded THEN L ELSE offset + len
  <2>1. PICK known \in IF q.bounded THEN {FALSE} ELSE BOOLEAN :
          reply = [offset |-> offset, rows |-> RowsAt(q, w), known |-> known, bounded |-> q.bounded,
                   matched |-> IF known \/ q.bounded THEN L ELSE offset + len]
    BY DEF Replies
  <2>2. known \in BOOLEAN /\ (q.bounded => ~known)
    BY <1>1
  <2>3. QED
    BY <2>1, <2>2
<1>4. len = Window => Fills(offset + len)
  BY FillsNext
<1> HIDE DEF offset, len
<1> DEFINE seen == Larger(read.seen, offset + len)
           total == IF reply.known THEN reply.matched ELSE read.total
           matched == IF reply.known THEN read.matched ELSE Larger(read.matched, reply.matched)
           end == RowsEnd(read, reply)
<1>5. /\ read.seen \in Nat /\ read.matched \in Nat /\ read.total \in Int /\ read.end \in Int
      /\ read.windows \in Maps(Seq(Row)) /\ read.failed \in Maps(WaitType)
      /\ read.seen <= L /\ read.matched <= L /\ read.total \in {-1, L} /\ read.end \in {-1, L}
  BY <1>1 DEF Core, ReadType
<1>6. seen \in Nat /\ seen <= L
  BY <1>1, <1>2, <1>5 DEF Larger
<1>7. total \in {-1, L} /\ (reply.known => total = L)
  BY <1>3, <1>5
<1>8. matched \in Nat /\ matched <= L /\ (q.bounded => matched = L)
  BY <1>1, <1>2, <1>3, <1>5 DEF Larger
<1>9. end = IF len < Window THEN L ELSE read.end
  BY <1>1, <1>2, <1>3, <1>5, WindowNat DEF RowsEnd, Larger, len
<1>10. ~q.bounded /\ total = -1 /\ end = -1 => Fills(seen) /\ Fills(matched)
  <2> SUFFICES ASSUME ~q.bounded, total = -1, end = -1 PROVE Fills(seen) /\ Fills(matched)
    OBVIOUS
  <2>1. len = Window /\ ~reply.known /\ reply.matched = offset + len /\ read.total = -1 /\ read.end = -1
    BY <1>1, <1>2, <1>3, <1>7, <1>9, WindowNat
  <2>2. Fills(read.seen) /\ Fills(read.matched) /\ Fills(offset + len)
    BY <1>4, <2>1 DEF Core, offset, len
  <2>3. QED
    BY <2>1, <2>2 DEF Larger
<1>11. /\ new.query = q /\ new.gen = read.gen /\ new.windows = With(read.windows, w, reply.rows)
       /\ new.failed = Without(read.failed, w) /\ new.bounded = q.bounded /\ new.seen = seen
       /\ new.total = total /\ new.matched = matched /\ new.end = end
  BY <1>1, <1>3 DEF Absorb, ReadType, len
<1>12. /\ new.windows \in Maps(Seq(Row)) /\ DOMAIN new.windows = DOMAIN read.windows \cup {w}
       /\ \A k \in DOMAIN read.windows \cup {w} : new.windows[k] = IF k = w THEN RowsAt(q, w) ELSE read.windows[k]
       /\ new.failed \in Maps(WaitType) /\ DOMAIN new.failed \subseteq DOMAIN read.failed
       /\ \A v \in DOMAIN new.failed : new.failed[v] = read.failed[v]
  <2>1. reply.rows = RowsAt(q, w) /\ reply.rows \in Seq(Row)
    BY <1>2, <1>3
  <2>2. new.windows \in Maps(Seq(Row)) /\ Extends(new.windows, read.windows, w, reply.rows)
    <3>1. w \in Nat /\ read.windows \in Maps(Seq(Row)) /\ new.windows = With(read.windows, w, reply.rows)
      BY <1>5, <1>11
    <3> HIDE DEF new
    <3>2. QED
      BY <3>1, <2>1, WithMap, Zenon
  <2>3. /\ Without(read.failed, w) \in Maps(WaitType) /\ DOMAIN Without(read.failed, w) = DOMAIN read.failed \ {w}
        /\ \A v \in DOMAIN read.failed \ {w} : Without(read.failed, w)[v] = read.failed[v]
    BY <1>5, WithoutMap, Zenon
  <2> HIDE DEF new
  <2>4. QED
    BY <1>11, <2>1, <2>2, <2>3 DEF Extends
<1> HIDE DEF seen, total, matched, end
<1>13. new \in ReadType
  <2>1. total \in Int /\ end \in Int
    BY <1>1, <1>5, <1>7, <1>9
  <2>2. new = [read EXCEPT !.windows = new.windows, !.failed = new.failed, !.bounded = q.bounded, !.seen = seen,
                           !.total = total, !.matched = matched, !.end = end]
    BY <1>1, <1>3, <1>11 DEF Absorb, ReadType, seen, total, matched, end, len
  <2> HIDE DEF new
  <2>3. QED
    BY <1>1, <1>6, <1>8, <1>12, <2>1, <2>2 DEF ReadType
<1> HIDE DEF new
<1>14. IsFiniteSet(DOMAIN new.windows)
  BY <1>12, FS_AddElement DEF Core
<1>15. \A k \in DOMAIN new.windows : new.windows[k] = RowsAt(new.query, k)
  BY <1>11, <1>12 DEF Core
<1>16. Core(new)
  BY <1>5, <1>6, <1>7, <1>8, <1>9, <1>10, <1>11, <1>13, <1>14, <1>15 DEF Core
<1>17. Told(new)
  BY <1>8, <1>11 DEF Told
<1>18. QED
  BY <1>11, <1>12, <1>16, <1>17 DEF new

\* The rows the grid spans.
LEMMA ExtentFacts ==
  ASSUME NEW read, Core(read), Told(read)
  PROVE  /\ Extent(read).count \in Nat /\ Extent(read).seen <= read.query.length
         /\ Extent(read).exact => Extent(read).count = read.query.length
         /\ \/ Extent(read).count <= read.query.length
            \/ \E k \in Nat : Extent(read).count = k * Window + Window /\ k * Window <= read.query.length
<1> DEFINE L == read.query.length
           seen == Larger(read.seen, read.matched)
<1>1. /\ L \in Nat /\ read.seen \in Nat /\ read.matched \in Nat /\ read.seen <= L /\ read.matched <= L
      /\ read.total \in {-1, L} /\ read.end \in {-1, L} /\ read.bounded = read.query.bounded /\ read.bounded \in BOOLEAN
  BY AskedType DEF Core, Told, ReadType
<1>2. seen \in Nat /\ seen <= L
  BY <1>1 DEF Larger
<1>3. CASE read.total # -1
  BY <1>1, <1>3 DEF Extent
<1>4. CASE read.total = -1 /\ read.bounded
  BY <1>1, <1>2, <1>4 DEF Extent
<1>5. CASE read.total = -1 /\ ~read.bounded /\ read.end # -1
  BY <1>1, <1>5 DEF Extent
<1>6. CASE read.total = -1 /\ ~read.bounded /\ read.end = -1
  <2>1. Fills(read.seen) /\ Fills(read.matched)
    BY <1>1, <1>6 DEF Core
  <2>2. Fills(seen)
    BY <2>1 DEF Larger
  <2>3. PICK k \in Nat : seen = k * Window
    BY <2>2 DEF Fills
  <2> HIDE DEF seen
  <2>4. Extent(read) = [count |-> seen + Window, exact |-> FALSE, seen |-> seen]
    BY <1>6 DEF Extent, seen
  <2>5. QED
    BY <1>1, <1>2, <2>3, <2>4, WindowNat
<1>7. QED
  BY <1>1, <1>3, <1>4, <1>5, <1>6
\* A window in view begins within the table, or right at its end.
LEMMA ViewType ==
  ASSUME NEW count \in Nat, NEW start \in Nat, NEW end \in Int
  PROVE  /\ View(count, start, end).first \in Int /\ View(count, start, end).last \in Int
         /\ \A w \in InView(View(count, start, end)) : w \in Nat /\ w * Window < count
<1>1. CASE count = 0 \/ end <= start
  BY <1>1 DEF View, InView
<1>2. CASE ~(count = 0 \/ end <= start)
  <2> DEFINE top == (count - 1) \div Window
             near == (Smaller(end, count) - 1) \div Window + 1
  <2>1. start \div Window \in Nat /\ top \in Nat /\ top * Window <= count - 1
    <3>1. count - 1 \in Nat
      BY <1>2
    <3>2. ASSUME NEW a \in Nat PROVE a \div Window \in Nat /\ (a \div Window) * Window <= a
      BY WindowNat
    <3>3. QED
      BY <3>1, <3>2
  <2>2. near \in Int
    <3>1. Smaller(end, count) - 1 \in Int
      BY DEF Smaller
    <3>2. ASSUME NEW a \in Int PROVE a \div Window \in Int
      BY WindowNat
    <3>3. QED
      BY <3>1, <3>2
  <2> HIDE DEF top, near
  <2>3. View(count, start, end) = [first |-> start \div Window, last |-> Smaller(near, top)]
    BY <1>2 DEF View, top, near
  <2>4. Smaller(near, top) \in Int /\ Smaller(near, top) <= top
    BY <2>1, <2>2 DEF Smaller
  <2>5. ASSUME NEW w \in InView(View(count, start, end)) PROVE w \in Nat /\ w * Window < count
    <3>1. w \in Int /\ start \div Window <= w /\ w <= Smaller(near, top)
      BY <2>1, <2>3, <2>4, <2>5 DEF InView
    <3>2. w \in Nat /\ w <= top
      BY <2>1, <2>4, <3>1
    <3>3. w * Window <= top * Window
      BY <2>1, <3>2, WindowNat
    <3>4. w * Window \in Nat /\ top * Window \in Nat
      BY <2>1, <3>2, WindowNat
    <3>5. QED
      BY <2>1, <3>2, <3>3, <3>4
  <2>6. QED
    BY <2>1, <2>3, <2>4, <2>5
<1>3. QED
  BY <1>1, <1>2

LEMMA MissingWindows ==
  ASSUME NEW read, Core(read), Told(read), NEW on, NEW range \in Nat \X Int
  PROVE  /\ View(Extent(read).count, range[1], range[2]).first \in Int
         /\ View(Extent(read).count, range[1], range[2]).last \in Int
         /\ Missing(read, on, range) \in SUBSET Nat /\ IsFiniteSet(Missing(read, on, range))
         /\ Missing(read, on, range) \cap on = {}
         /\ \A w \in Missing(read, on, range) : w * Window <= read.query.length
<1> DEFINE count == Extent(read).count
           L == read.query.length
           view == View(count, range[1], range[2])
<1>1. count \in Nat /\ L \in Nat /\ range[1] \in Nat /\ range[2] \in Int
  BY ExtentFacts, AskedType DEF Core, ReadType
<1>2. count <= L \/ \E k \in Nat : count = k * Window + Window /\ k * Window <= L
  BY ExtentFacts
<1> HIDE DEF count, L
<1>3. view.first \in Int /\ view.last \in Int /\ \A w \in InView(view) : w \in Nat /\ w * Window < count
  BY <1>1, ViewType
<1> HIDE DEF view
<1>4. Missing(read, on, range) = InView(view) \ (DOMAIN read.windows \cup on)
  BY DEF Missing, view, count
<1>5. IsFiniteSet(InView(view))
  BY <1>3, FS_Interval DEF InView
<1>6. ASSUME NEW w \in InView(view) PROVE w * Window <= L
  <2>1. w \in Nat /\ w * Window < count /\ w * Window \in Nat
    BY <1>3, WindowNat
  <2>2. CASE count <= L
    BY <1>1, <2>1, <2>2
  <2>3. CASE \E k \in Nat : count = k * Window + Window /\ k * Window <= L
    <3>1. PICK k \in Nat : count = k * Window + Window /\ k * Window <= L
      BY <2>3
    <3>2. ASSUME k < w PROVE k * Window + Window <= w * Window
      BY <2>1, <3>2, WindowNat
    <3>3. w <= k
      BY <1>1, <2>1, <3>1, <3>2
    <3>4. w * Window <= k * Window /\ k * Window \in Nat
      BY <2>1, <3>3, WindowNat
    <3>5. QED
      BY <1>1, <2>1, <3>1, <3>4
  <2>4. QED
    BY <1>2, <2>2, <2>3
<1>7. IsFiniteSet(Missing(read, on, range))
  BY <1>4, <1>5, FS_Subset
<1>8. QED
  BY <1>3, <1>4, <1>6, <1>7 DEF view, count, L

-----------------------------------------------------------------------------
\* The windows of F that come before one in the order in which they are asked for.
Ahead(F, w, view) == {v \in F : Sooner(v, w, view)}

LEMMA SoonerOrder ==
  ASSUME NEW view, view.first \in Int, view.last \in Int, NEW u \in Int, NEW v \in Int, NEW w \in Int
  PROVE  /\ ~Sooner(v, v, view) /\ (v # w => Sooner(v, w, view) \/ Sooner(w, v, view))
         /\ Sooner(u, v, view) /\ Sooner(v, w, view) => Sooner(u, w, view)
<1> DEFINE mid == view.first + view.last - 1
<1>1. mid \in Int
  OBVIOUS
<1> HIDE DEF mid
<1>2. \A x, y \in Int : Sooner(x, y, view) <=>
        (Distance(2 * x, mid) < Distance(2 * y, mid) \/ (Distance(2 * x, mid) = Distance(2 * y, mid) /\ x < y))
  BY DEF Sooner, mid
<1>3. \A x \in Int : Distance(2 * x, mid) \in Int
  BY <1>1 DEF Distance
<1>4. QED
  BY <1>2, <1>3

LEMMA AheadFinite ==
  ASSUME NEW F, IsFiniteSet(F), NEW w, NEW view
  PROVE  Ahead(F, w, view) \subseteq F /\ IsFiniteSet(Ahead(F, w, view)) /\ Cardinality(Ahead(F, w, view)) \in Nat
<1>1. Ahead(F, w, view) \subseteq F
  BY DEF Ahead
<1>2. QED
  BY <1>1, FS_Subset, FS_CardinalityType

\* Whoever comes later has more before it.
LEMMA MoreAhead ==
  ASSUME NEW F \in SUBSET Nat, IsFiniteSet(F), NEW view, view.first \in Int, view.last \in Int,
         NEW v \in F, NEW w \in F, Sooner(v, w, view)
  PROVE  Cardinality(Ahead(F, v, view)) < Cardinality(Ahead(F, w, view))
<1> DEFINE V == Ahead(F, v, view)
           W == Ahead(F, w, view)
<1>1. IsFiniteSet(V) /\ IsFiniteSet(W) /\ Cardinality(V) \in Nat /\ Cardinality(W) \in Nat
  BY AheadFinite
<1>2. v \in W /\ v \notin V
  BY SoonerOrder DEF Ahead
<1>3. ASSUME NEW u \in V PROVE u \in W
  <2>1. u \in F /\ u \in Int /\ v \in Int /\ w \in Int /\ Sooner(u, v, view)
    BY <1>3 DEF Ahead
  <2>2. Sooner(u, w, view)
    BY <2>1, SoonerOrder
  <2>3. QED
    BY <2>1, <2>2 DEF Ahead
<1> HIDE DEF V, W
<1>4. V \cup {v} \subseteq W
  BY <1>2, <1>3
<1>5. IsFiniteSet(V \cup {v}) /\ Cardinality(V \cup {v}) = Cardinality(V) + 1
  BY <1>1, <1>2, FS_AddElement
<1>6. Cardinality(V \cup {v}) <= Cardinality(W)
  BY <1>1, <1>4, FS_Subset
<1>7. QED
  BY <1>1, <1>5, <1>6 DEF V, W

\* One of some windows comes first, and one comes last.
LEMMA FirstAndLast ==
  ASSUME NEW F \in SUBSET Nat, IsFiniteSet(F), NEW view, view.first \in Int, view.last \in Int,
         NEW T \in SUBSET F, T # {}
  PROVE  /\ \E w \in T : \A v \in T : ~Sooner(v, w, view)
         /\ \E w \in T : \A v \in T : v = w \/ Sooner(v, w, view)
<1> DEFINE rank(w) == Cardinality(Ahead(F, w, view))
           most == Cardinality(F)
<1>1. most \in Nat /\ \A w \in T : rank(w) \in Nat /\ rank(w) <= most
  <2>1. \A w \in T : Ahead(F, w, view) \subseteq F /\ rank(w) \in Nat
    BY AheadFinite
  <2>2. QED
    BY <2>1, FS_Subset, FS_CardinalityType
<1>2. \A v, w \in T : Sooner(v, w, view) => rank(v) < rank(w)
  BY MoreAhead
<1> HIDE DEF rank, most
<1>3. \E w \in T : \A v \in T : ~Sooner(v, w, view)
  <2> DEFINE R == {rank(w) : w \in T}
  <2>1. R \in SUBSET Nat /\ R # {}
    BY <1>1
  <2>2. PICK n \in R : \A k \in R : n <= k
    BY <2>1, LeastNatural
  <2>3. PICK w \in T : n = rank(w)
    BY <2>2
  <2>4. ASSUME NEW v \in T PROVE ~Sooner(v, w, view)
    <3>1. rank(w) <= rank(v)
      BY <2>2, <2>3
    <3>2. QED
      BY <1>1, <1>2, <3>1
  <2>5. QED
    BY <2>4
<1>4. \E w \in T : \A v \in T : v = w \/ Sooner(v, w, view)
  <2> DEFINE R == {most - rank(w) : w \in T}
  <2>1. R \in SUBSET Nat /\ R # {}
    <3>1. \A w \in T : most - rank(w) \in Nat
      BY <1>1
    <3>2. QED
      BY <3>1
  <2>2. PICK n \in R : \A k \in R : n <= k
    BY <2>1, LeastNatural
  <2>3. PICK w \in T : n = most - rank(w)
    BY <2>2
  <2>4. ASSUME NEW v \in T, v # w PROVE Sooner(v, w, view)
    <3>1. most - rank(w) <= most - rank(v)
      BY <2>2, <2>3
    <3>2. ~(rank(w) < rank(v))
      BY <1>1, <3>1
    <3>3. v \in Int /\ w \in Int
      OBVIOUS
    <3>4. QED
      BY <1>2, <2>4, <3>2, <3>3, SoonerOrder
  <2>5. QED
    BY <2>4
<1>5. QED
  BY <1>3, <1>4

\* What a pump sends, and when it wakes up: no more than may be on their way, all of
\* them in the table, and it does not end with nothing on its way and nothing due
\* while a window is missing.
SendsWell(p, read, on, coming, range) ==
  /\ p.sent \in SUBSET Nat /\ IsFiniteSet(on \cup p.sent) /\ Cardinality(on \cup p.sent) <= InFlight
  /\ \A w \in p.sent : w \notin on /\ w * Window <= read.query.length
  /\ p.sent # {} => read # NoRead /\ read.gen = gen /\ coming = 0
  /\ p.retry \in Nat \cup {Never}
  /\ read # NoRead /\ read.gen = gen /\ coming = 0 /\ Missing(read, {}, range) # {}
       => on \cup p.sent # {} \/ p.retry # Never
LEMMA PumpSends ==
  ASSUME NEW read, Core(read), Told(read), NEW on, on \in SUBSET Nat, IsFiniteSet(on), Cardinality(on) <= InFlight,
         NEW range \in Nat \X Int, NEW wake \in Nat \cup {Never}, NEW coming
  PROVE  SendsWell(Pump(read, on, coming, range, wake), read, on, coming, range)
<1> DEFINE view == View(Extent(read).count, range[1], range[2])
           missing == Missing(read, on, range)
           free == {v \in missing : ~WaitsOut(read, v)}
           visited == Visited(read, on, range)
           waits == {read.failed[w].wait : w \in {v \in visited : WaitsOut(read, v)}}
           sent == {w \in visited : ~WaitsOut(read, w)}
           wakes == IF waits # {} /\ (wake = Never \/ wake > Min(waits)) THEN Min(waits) ELSE wake
           p == Pump(read, on, coming, range, wake)
<1>1. /\ view.first \in Int /\ view.last \in Int /\ missing \in SUBSET Nat /\ IsFiniteSet(missing)
      /\ missing \cap on = {} /\ \A w \in missing : w * Window <= read.query.length
  BY MissingWindows
<1>2. free \in SUBSET Nat /\ IsFiniteSet(free) /\ free \subseteq missing
  BY <1>1, FS_Subset
<1>3. visited = {w \in missing : Cardinality(on) + Cardinality(Ahead(free, w, view)) < InFlight}
  <2>1. ASSUME NEW w PROVE {v \in missing : ~WaitsOut(read, v) /\ Sooner(v, w, view)} = Ahead(free, w, view)
    BY DEF Ahead
  <2> HIDE DEF free
  <2>2. QED
    BY <2>1 DEF Visited
<1>4. sent = {w \in free : Cardinality(on) + Cardinality(Ahead(free, w, view)) < InFlight}
  BY <1>3
<1>5. Cardinality(on) \in Nat /\ InFlight \in Nat /\ InFlight > 0
  BY WindowNat, FS_CardinalityType
<1>6. sent \in SUBSET free /\ IsFiniteSet(sent) /\ Cardinality(sent) \in Nat
  BY <1>2, <1>4, FS_Subset, FS_CardinalityType
<1>7. ASSUME NEW v \in visited, WaitsOut(read, v) PROVE read.failed[v].wait \in Nat
  <2>1. read.failed \in Maps(WaitType) /\ v \in DOMAIN read.failed
    BY <1>7 DEF WaitsOut, Core, ReadType
  <2>2. read.failed[v] \in WaitType
    BY <2>1, MapsDef
  <2>3. QED
    BY <2>2 DEF WaitType
<1>8. waits \in SUBSET Nat
  BY <1>7
<1>9. waits # {} => Min(waits) \in Nat
  BY <1>8, MinIsLeast
<1> HIDE DEF view, missing, waits
<1>10. IsFiniteSet(on \cup sent) /\ Cardinality(on \cup sent) <= InFlight
  <2>1. CASE sent = {}
    <3>1. on \cup sent = on
      BY <2>1
    <3> HIDE DEF sent
    <3>2. QED
      BY <3>1
  <2>2. CASE sent # {}
    <3>1. PICK w \in sent : \A v \in sent : v = w \/ Sooner(v, w, view)
      BY <1>1, <1>2, <1>6, <2>2, FirstAndLast
    <3> HIDE DEF free, sent
    <3>2. sent \subseteq Ahead(free, w, view) \cup {w}
      BY <1>6, <3>1 DEF Ahead
    <3>3. w \in free /\ w \notin Ahead(free, w, view)
      <4>1. w \in free /\ w \in Int
        BY <1>2, <1>6
      <4>2. ~Sooner(w, w, view)
        BY <1>1, <4>1, SoonerOrder
      <4>3. QED
        BY <4>1, <4>2 DEF Ahead
    <3>4. IsFiniteSet(Ahead(free, w, view)) /\ Cardinality(Ahead(free, w, view)) \in Nat
      BY <1>2, AheadFinite
    <3>5. Cardinality(on) + Cardinality(Ahead(free, w, view)) < InFlight
      BY <1>4, <3>1
    <3>6. /\ IsFiniteSet(Ahead(free, w, view) \cup {w})
          /\ Cardinality(Ahead(free, w, view) \cup {w}) = Cardinality(Ahead(free, w, view)) + 1
      BY <3>3, <3>4, FS_AddElement
    <3>7. Cardinality(sent) <= Cardinality(Ahead(free, w, view)) + 1
      BY <3>2, <3>6, FS_Subset
    <3>8. on \cap sent = {}
      BY <1>1, <1>2, <1>6
    <3>9. IsFiniteSet(on \cup sent) /\ Cardinality(on \cup sent) = Cardinality(on) + Cardinality(sent)
      BY <1>5, <1>6, <3>8, FS_Union, FS_EmptySet
    <3>10. QED
      BY <1>5, <1>6, <3>4, <3>5, <3>7, <3>9
  <2>3. QED
    BY <2>1, <2>2
<1>11. wakes \in Nat \cup {Never}
  BY <1>9
<1>12. missing # {} /\ on = {} /\ sent = {} => wakes # Never
  <2> SUFFICES ASSUME missing # {}, on = {}, sent = {} PROVE wakes # Never
    OBVIOUS
  <2>1. Cardinality(on) = 0
    BY FS_EmptySet
  <2>2. free = {}
    <3> SUFFICES ASSUME free # {} PROVE FALSE
      OBVIOUS
    <3>1. PICK w \in free : \A v \in free : ~Sooner(v, w, view)
      BY <1>1, <1>2, FirstAndLast
    <3> HIDE DEF free
    <3>2. Ahead(free, w, view) = {}
      BY <3>1 DEF Ahead
    <3>3. Cardinality(Ahead(free, w, view)) = 0
      BY <3>2, FS_EmptySet
    <3>4. w \in sent
      BY <1>4, <1>5, <2>1, <3>1, <3>3
    <3> HIDE DEF sent
    <3>5. QED
      BY <3>4
  <2>3. PICK w \in missing : TRUE
    OBVIOUS
  <2>4. WaitsOut(read, w)
    BY <2>2
  <2>5. Ahead(free, w, view) = {}
    BY <2>2 DEF Ahead
  <2>6. Cardinality(Ahead(free, w, view)) = 0
    BY <2>5, FS_EmptySet
  <2> HIDE DEF visited
  <2>7. w \in visited
    BY <1>3, <1>5, <2>1, <2>6
  <2>8. waits # {}
    BY <2>4, <2>7 DEF waits
  <2>9. QED
    BY <1>9, <2>8 DEF Never
<1>13. p = IF read = NoRead \/ read.gen # gen \/ coming # 0 THEN [sent |-> {}, retry |-> wake]
           ELSE [sent |-> sent, retry |-> wakes]
  BY DEF Pump, waits
<1> HIDE DEF sent, wakes, visited, free
<1>14. ASSUME read = NoRead \/ read.gen # gen \/ coming # 0 PROVE SendsWell(p, read, on, coming, range)
  <2>1. p.sent = {} /\ p.retry = wake
    BY <1>13, <1>14
  <2>2. on \cup p.sent = on
    BY <2>1
  <2> HIDE DEF p
  <2>3. QED
    BY <1>14, <2>1, <2>2 DEF SendsWell
<1>15. ASSUME ~(read = NoRead \/ read.gen # gen \/ coming # 0) PROVE SendsWell(p, read, on, coming, range)
  <2>1. p.sent = sent /\ p.retry = wakes
    BY <1>13, <1>15
  <2>2. sent \subseteq missing
    BY <1>2, <1>6
  <2>3. \A w \in sent : w \notin on /\ w * Window <= read.query.length
    BY <1>1, <2>2
  <2>4. on = {} => missing = Missing(read, {}, range)
    BY DEF missing
  <2> HIDE DEF p
  <2>5. QED
    BY <1>1, <1>10, <1>11, <1>12, <1>15, <2>1, <2>2, <2>3, <2>4 DEF SendsWell
<1>16. QED
  BY <1>14, <1>15
-----------------------------------------------------------------------------
(* The invariant.  What is said of a state is said of its values, so that it can be *)
(* said of those of the next state one at a time.                                   *)

\* What is shown was read of a query that was asked, in this generation or before, and
\* no window of it failed more often than anything did.
ReadIsSound(read, g, failed) ==
  /\ Core(read) /\ Told(read) /\ read.gen <= g /\ Cardinality(DOMAIN read.windows) <= Keeps
  /\ \A w \in DOMAIN read.failed : read.failed[w].tries \in 1 .. failed
  /\ read # NoRead => read.gen # 0 /\ read.query \in Queries

\* It is of this generation once the query's first window has arrived, and not before.
Timely(read, g, q, coming) ==
  /\ coming # 0 => read.gen # g
  /\ coming = 0 /\ read # NoRead /\ q # NoQuery => read.gen = g /\ read.query = q

\* A request of this generation is the first one, which is awaited, or one for a window
\* of what is shown that begins within the table.
RequestIsSound(r, g, q, coming, read) ==
  /\ r \in [gen : Nat \ {0}, query : Queries, window : Nat, first : BOOLEAN] /\ r.gen <= g
  /\ r.first => r.window = 0
  /\ r.gen = g /\ r.first => r.query = q /\ coming = g
  /\ r.gen = g /\ ~r.first => r.query = read.query /\ read.gen = g /\ r.window * Window <= r.query.length
OnTheirWay(all, g) == {r.window : r \in {s \in all : s.gen = g /\ ~s.first}}

\* As long as a window in view is missing, something is due that asks for it.
GoesOnReading ==
  shown # NoRead /\ shown.gen = gen /\ next = 0 /\ Missing(shown, {}, wanted) # {}
    => inflight # {} \/ timer \/ retry # Never

\* The inductive invariant.
WindowsInv ==
  /\ query \in Asked /\ gen \in Nat /\ next \in {0, gen} /\ wanted \in Nat \X Int
  /\ retry \in Nat \cup {Never} /\ failures \in 0 .. MaxFailures
  /\ ReadIsSound(shown, gen, failures) /\ Timely(shown, gen, query, next)
  /\ \A r \in requests : RequestIsSound(r, gen, query, next, shown)
  /\ inflight \in SUBSET Nat /\ IsFiniteSet(inflight) /\ Cardinality(inflight) <= InFlight
  /\ inflight = OnTheirWay(requests, gen)
  /\ GoesOnReading

-----------------------------------------------------------------------------
\* The requests on their way, what a pump may send, and the requests with what it sends.
RequestsAreSound(all, g, q, coming, read) == \A r \in all : RequestIsSound(r, g, q, coming, read)
MaySend(sent, g, coming, read) ==
  /\ sent \in SUBSET Nat /\ \A w \in sent : w * Window <= read.query.length
  /\ sent # {} => read # NoRead /\ read.gen = g /\ coming = 0
AndSent(others, g, read, sent) ==
  others \cup {[gen |-> g, query |-> read.query, window |-> w, first |-> FALSE] : w \in sent}

\* What a pump sends to the server is sound, and is on its way.
LEMMA SentIsSound ==
  ASSUME NEW g \in Nat, NEW read, NEW failed, NEW q, NEW coming, NEW others, NEW sent,
         ReadIsSound(read, g, failed), RequestsAreSound(others, g, q, coming, read), MaySend(sent, g, coming, read)
  PROVE  /\ RequestsAreSound(AndSent(others, g, read, sent), g, q, coming, read)
         /\ OnTheirWay(AndSent(others, g, read, sent), g) = OnTheirWay(others, g) \cup sent
<1> DEFINE request(w) == [gen |-> g, query |-> read.query, window |-> w, first |-> FALSE]
           new == {request(w) : w \in sent}
<1>1. ASSUME NEW w \in sent PROVE RequestIsSound(request(w), g, q, coming, read)
  <2>1. read.gen = g /\ g # 0 /\ read.query \in Queries /\ w \in Nat /\ w * Window <= read.query.length
    BY DEF ReadIsSound, MaySend
  <2>2. request(w) \in [gen : Nat \ {0}, query : Queries, window : Nat, first : BOOLEAN]
    BY <2>1
  <2>3. request(w).gen = g /\ ~request(w).first /\ request(w).query = read.query /\ request(w).window = w
    OBVIOUS
  <2> HIDE DEF request
  <2>4. QED
    BY <2>1, <2>2, <2>3 DEF RequestIsSound
<1>2. \A w \in sent : request(w).gen = g /\ ~request(w).first /\ request(w).window = w
  OBVIOUS
<1> HIDE DEF request
<1>3. \A r \in others \cup new : RequestIsSound(r, g, q, coming, read)
  BY <1>1 DEF RequestsAreSound
<1>4. OnTheirWay(others \cup new, g) = OnTheirWay(others, g) \cup sent
  BY <1>2 DEF OnTheirWay
<1>5. QED
  BY <1>3, <1>4 DEF request, RequestsAreSound, AndSent

\* An action that ends with a pump keeps the invariant, if what it leaves before it is sound.
LEMMA PumpKeepsInv ==
  ASSUME NEW read, read = shown', NEW coming, coming = next', NEW range, range = wanted', NEW others, NEW on, NEW wake,
         gen \in Nat, gen' = gen, query \in Asked, query' = query,
         coming \in {0, gen}, range \in Nat \X Int, wake \in Nat \cup {Never}, failures' \in 0 .. MaxFailures,
         ReadIsSound(read, gen, failures'), Timely(read, gen, query, coming),
         \A r \in others : RequestIsSound(r, gen, query, coming, read),
         on = OnTheirWay(others, gen), on \in SUBSET Nat, IsFiniteSet(on), Cardinality(on) <= InFlight,
         Pumped(read, on, coming, range, wake, others)
  PROVE  WindowsInv'
<1> DEFINE p == Pump(read, on, coming, range, wake)
           all == AndSent(others, gen, read, p.sent)
<1>1. inflight' = on \cup p.sent /\ requests' = all /\ retry' = p.retry
  BY DEF Pumped, AndSent
<1>2. SendsWell(p, read, on, coming, range)
  <2>1. Core(read) /\ Told(read)
    BY DEF ReadIsSound
  <2>2. QED
    BY <2>1, PumpSends
<1> HIDE DEF p
<1>3. /\ p.sent \in SUBSET Nat /\ IsFiniteSet(on \cup p.sent) /\ Cardinality(on \cup p.sent) <= InFlight
      /\ \A w \in p.sent : w \notin on /\ w * Window <= read.query.length
      /\ p.sent # {} => read # NoRead /\ read.gen = gen /\ coming = 0
      /\ p.retry \in Nat \cup {Never}
      /\ read # NoRead /\ read.gen = gen /\ coming = 0 /\ Missing(read, {}, range) # {}
           => on \cup p.sent # {} \/ p.retry # Never
  BY <1>2 DEF SendsWell
<1>4. /\ \A r \in all : RequestIsSound(r, gen, query, coming, read)
      /\ OnTheirWay(all, gen) = OnTheirWay(others, gen) \cup p.sent
  <2>1. RequestsAreSound(others, gen, query, coming, read)
    BY DEF RequestsAreSound
  <2>2. MaySend(p.sent, gen, coming, read)
    BY <1>3 DEF MaySend
  <2>3. RequestsAreSound(all, gen, query, coming, read) /\ OnTheirWay(all, gen) = OnTheirWay(others, gen) \cup p.sent
    BY <2>1, <2>2, SentIsSound
  <2>4. QED
    BY <2>3 DEF RequestsAreSound
<1> HIDE DEF all
<1>5. /\ query' \in Asked /\ gen' \in Nat /\ next' \in {0, gen'} /\ wanted' \in Nat \X Int
      /\ retry' \in Nat \cup {Never} /\ failures' \in 0 .. MaxFailures
  BY <1>1, <1>3
<1>6. ReadIsSound(shown', gen', failures') /\ Timely(shown', gen', query', next')
  OBVIOUS
<1>7. \A r \in requests' : RequestIsSound(r, gen', query', next', shown')
  BY <1>1, <1>4
<1>8. inflight' \in SUBSET Nat /\ IsFiniteSet(inflight') /\ Cardinality(inflight') <= InFlight
  BY <1>1, <1>3
<1>9. inflight' = OnTheirWay(requests', gen')
  BY <1>1, <1>4
<1>10. GoesOnReading'
  BY <1>1, <1>3 DEF GoesOnReading
<1>11. QED
  BY <1>5, <1>6, <1>7, <1>8, <1>9, <1>10 DEF WindowsInv
-----------------------------------------------------------------------------
(* What is shown, before and after it changes. *)

\* Nothing read yet.
LEMMA NothingIsSound ==
  ASSUME NEW g \in Nat, NEW failed
  PROVE  Core(NoRead) /\ Told(NoRead) /\ ReadIsSound(NoRead, g, failed) /\ NoRead.gen = 0
<1>1. DOMAIN <<>> = {} /\ IsFiniteSet({}) /\ Cardinality({}) = 0
  BY FS_EmptySet
<1>2. <<>> \in Maps(Seq(Row)) /\ <<>> \in Maps(WaitType)
  <2>1. ASSUME NEW S PROVE <<>> \in Maps(S)
    <3>1. <<>> \in [{} -> S]
      OBVIOUS
    <3>2. QED
      BY <1>1, <3>1, MapsDef
  <2>2. QED
    BY <2>1
<1>3. NoRead \in ReadType
  BY <1>2 DEF NoRead, ReadType, Asked
<1>4. Fills(0)
  BY WindowNat DEF Fills
<1>5. /\ NoRead.gen = 0 /\ NoRead.query.length = 0 /\ NoRead.windows = <<>> /\ NoRead.failed = <<>>
      /\ NoRead.total = -1 /\ NoRead.matched = 0 /\ NoRead.seen = 0 /\ NoRead.end = -1
      /\ NoRead.bounded = FALSE /\ NoRead.query.bounded = FALSE
  BY DEF NoRead, NoQuery
<1>6. Core(NoRead) /\ Told(NoRead)
  <2>1. DOMAIN NoRead.windows = {} /\ IsFiniteSet(DOMAIN NoRead.windows)
    BY <1>1, <1>5
  <2>2. Fills(NoRead.seen) /\ Fills(NoRead.matched)
    BY <1>4, <1>5
  <2>3. /\ NoRead.seen <= NoRead.query.length /\ NoRead.matched <= NoRead.query.length
        /\ NoRead.total \in {-1, NoRead.query.length} /\ NoRead.end \in {-1, NoRead.query.length}
    BY <1>5
  <2>4. \A w \in DOMAIN NoRead.windows : NoRead.windows[w] = RowsAt(NoRead.query, w)
    BY <2>1
  <2>5. Core(NoRead)
    BY <1>3, <2>1, <2>2, <2>3, <2>4, Zenon DEF Core
  <2>6. Told(NoRead)
    BY <1>5, Zenon DEF Told
  <2>7. QED
    BY <2>5, <2>6
<1>7. QED
  BY <1>1, <1>5, <1>6, WindowNat DEF ReadIsSound

\* What is left of it once the window farthest away was dropped.
LEMMA KeptIsSound ==
  ASSUME NEW read, Core(read), Told(read), NEW old, IsFiniteSet(old), Cardinality(old) <= Keeps, NEW w \in Nat,
         DOMAIN read.windows = old \cup {w}, NEW left \in Kept(read)
  PROVE  /\ Core(left) /\ Told(left) /\ Cardinality(DOMAIN left.windows) <= Keeps
         /\ left.query = read.query /\ left.gen = read.gen /\ left.failed = read.failed
<1> DEFINE held == DOMAIN read.windows
           away(v) == Distance(2 * Window * v, wanted[1] + wanted[2])
           far == {v \in held : \A u \in held : away(u) <= away(v)}
<1>1. IsFiniteSet(held) /\ Cardinality(held) \in Nat /\ Cardinality(held) <= Keeps + 1
  <2> DEFINE all == old \cup {w}
  <2>1. /\ IsFiniteSet(all)
        /\ Cardinality(all) = IF w \in old THEN Cardinality(old) ELSE Cardinality(old) + 1
    BY FS_AddElement
  <2>2. Cardinality(old) \in Nat /\ Cardinality(all) \in Nat
    BY <2>1, FS_CardinalityType
  <2>3. held = all
    OBVIOUS
  <2> HIDE DEF all, held
  <2>4. QED
    BY <2>1, <2>2, <2>3, WindowNat
<1>2. Kept(read) = IF Cardinality(held) <= Keeps THEN {read}
                   ELSE {[read EXCEPT !.windows = Without(@, v)] : v \in far}
  BY DEF Kept
<1>3. far \subseteq held
  OBVIOUS
<1> HIDE DEF far
<1>4. CASE Cardinality(held) <= Keeps
  BY <1>2, <1>4
<1>5. CASE ~(Cardinality(held) <= Keeps)
  <2>1. PICK v \in held : left = [read EXCEPT !.windows = Without(@, v)]
    BY <1>2, <1>3, <1>5
  <2>2. read \in ReadType /\ read.windows \in Maps(Seq(Row))
    BY DEF Core, ReadType
  <2>3. /\ Without(read.windows, v) \in Maps(Seq(Row)) /\ DOMAIN Without(read.windows, v) = held \ {v}
        /\ \A k \in held \ {v} : Without(read.windows, v)[k] = read.windows[k]
    BY <2>2, WithoutMap, ZenonT(20)
  <2>4. IsFiniteSet(held \ {v}) /\ Cardinality(held \ {v}) = Cardinality(held) - 1
    BY <1>1, FS_RemoveElement
  <2> HIDE DEF held
  <2>5. /\ left.windows = Without(read.windows, v) /\ left.query = read.query /\ left.gen = read.gen
        /\ left.failed = read.failed /\ left.total = read.total /\ left.matched = read.matched
        /\ left.seen = read.seen /\ left.end = read.end /\ left.bounded = read.bounded
    BY <2>1, <2>2 DEF ReadType
  <2>6. left \in ReadType
    BY <2>1, <2>2, <2>3 DEF ReadType
  <2>7. \A k \in held \ {v} : read.windows[k] = RowsAt(read.query, k)
    BY DEF Core, held
  <2>8. \A k \in DOMAIN left.windows : left.windows[k] = RowsAt(left.query, k)
    BY <2>3, <2>5, <2>7
  <2>9. IsFiniteSet(DOMAIN left.windows) /\ Cardinality(DOMAIN left.windows) <= Keeps
    BY <1>1, <2>3, <2>4, <2>5, WindowNat
  <2>10. Core(left)
    BY <2>5, <2>6, <2>8, <2>9 DEF Core
  <2>11. QED
    BY <2>5, <2>9, <2>10 DEF Told
<1>6. QED
  BY <1>4, <1>5

-----------------------------------------------------------------------------
(* The steps. *)

LEMMA StartQueryKeepsInv ==
  ASSUME WindowsInv, NEW q \in Asked, StartQuery(q), wanted' = wanted, failures' = failures
  PROVE  WindowsInv'
<1>1. gen \in Nat /\ gen' = gen + 1 /\ gen' \in Nat /\ gen' # 0 /\ gen' # gen
  BY DEF WindowsInv, StartQuery
<1>2. next' = (IF q = NoQuery THEN 0 ELSE gen') /\ query' = q /\ inflight' = {} /\ retry' = Never
  BY <1>1 DEF StartQuery
<1>3. ReadIsSound(shown', gen', failures') /\ shown'.gen # gen'
  <2>1. CASE shown' = NoRead
    BY <1>1, <2>1, NothingIsSound
  <2>2. CASE shown' = shown
    <3>1. ReadIsSound(shown, gen, failures) /\ shown.gen \in Nat
      BY DEF WindowsInv, ReadIsSound, Core, ReadType
    <3>2. ReadIsSound(shown, gen', failures') /\ shown.gen < gen'
      BY <1>1, <3>1 DEF ReadIsSound
    <3>3. QED
      BY <1>1, <2>2, <3>1, <3>2
  <2>3. QED
    BY <2>1, <2>2 DEF StartQuery
<1>4. Timely(shown', gen', query', next')
  BY <1>1, <1>2, <1>3 DEF Timely
<1>5. ASSUME NEW r \in requests PROVE RequestIsSound(r, gen', query', next', shown') /\ r.gen # gen'
  <2>1. RequestIsSound(r, gen, query, next, shown)
    BY DEF WindowsInv
  <2>2. r \in [gen : Nat \ {0}, query : Queries, window : Nat, first : BOOLEAN] /\ r.gen <= gen /\ (r.first => r.window = 0)
    BY <2>1 DEF RequestIsSound
  <2>3. r.gen \in Nat /\ r.gen < gen'
    BY <1>1, <2>2
  <2>4. r.gen # gen' /\ r.gen <= gen'
    BY <1>1, <2>3
  <2>5. QED
    BY <2>2, <2>4 DEF RequestIsSound
<1>6. ASSUME NEW r, r = [gen |-> gen', query |-> q, window |-> 0, first |-> TRUE], q # NoQuery
      PROVE  RequestIsSound(r, gen', query', next', shown')
  <2>1. q \in Queries
    BY <1>6 DEF Asked
  <2>2. QED
    BY <1>1, <1>2, <1>6, <2>1 DEF RequestIsSound
<1>7. \A r \in requests' : RequestIsSound(r, gen', query', next', shown') /\ (r.gen # gen' \/ r.first)
  BY <1>1, <1>5, <1>6 DEF StartQuery
<1>8. OnTheirWay(requests', gen') = {}
  BY <1>7 DEF OnTheirWay
<1>9. IsFiniteSet({}) /\ Cardinality({}) <= InFlight
  BY FS_EmptySet, WindowNat
<1>10. GoesOnReading'
  BY <1>3 DEF GoesOnReading
<1>11. /\ query' \in Asked /\ next' \in {0, gen'} /\ wanted' \in Nat \X Int /\ retry' \in Nat \cup {Never}
       /\ failures' \in 0 .. MaxFailures
  BY <1>2 DEF WindowsInv
<1>12. inflight' \in SUBSET Nat /\ IsFiniteSet(inflight') /\ Cardinality(inflight') <= InFlight
  BY <1>2, <1>9
<1>13. inflight' = OnTheirWay(requests', gen')
  BY <1>2, <1>8
<1>14. QED
  BY <1>1, <1>3, <1>4, <1>7, <1>10, <1>11, <1>12, <1>13 DEF WindowsInv
\* Before a query's first window arrived, nothing was read of it.
Blank(q, g) == [NoRead EXCEPT !.query = q, !.gen = g]
LEMMA FreshRead ==
  ASSUME NEW q \in Queries, NEW g \in Nat, NEW base, base = Blank(q, g)
  PROVE  Core(base) /\ base.query = q /\ base.gen = g /\ DOMAIN base.windows = {} /\ DOMAIN base.failed = {}
<1>1. Core(NoRead) /\ NoRead \in ReadType /\ q \in Asked /\ q.length \in Nat
  BY NothingIsSound, AskedType DEF Core, Asked
<1>2. /\ NoRead.windows = <<>> /\ NoRead.failed = <<>> /\ NoRead.total = -1 /\ NoRead.matched = 0
      /\ NoRead.seen = 0 /\ NoRead.end = -1 /\ Fills(NoRead.seen) /\ Fills(NoRead.matched)
  <2>1. Fills(0)
    BY WindowNat DEF Fills
  <2>2. QED
    BY <2>1 DEF NoRead
<1>3. /\ base \in ReadType /\ base.query = q /\ base.gen = g /\ base.windows = NoRead.windows
      /\ base.failed = NoRead.failed /\ base.total = NoRead.total /\ base.matched = NoRead.matched
      /\ base.seen = NoRead.seen /\ base.end = NoRead.end
  BY <1>1 DEF ReadType, Blank
<1>4. DOMAIN base.windows = {} /\ DOMAIN base.failed = {} /\ IsFiniteSet(DOMAIN base.windows)
  BY <1>2, <1>3, FS_EmptySet
<1>5. /\ base.seen <= base.query.length /\ base.matched <= base.query.length
      /\ base.total \in {-1, base.query.length} /\ base.end \in {-1, base.query.length}
  BY <1>1, <1>2, <1>3
<1>6. Fills(base.seen) /\ Fills(base.matched)
  BY <1>2, <1>3
<1>7. \A w \in DOMAIN base.windows : base.windows[w] = RowsAt(base.query, w)
  BY <1>4
<1>8. Core(base)
  BY <1>3, <1>4, <1>5, <1>6, <1>7, Zenon DEF Core
<1>9. QED
  BY <1>3, <1>4, <1>8

LEMMA FirstKeepsInv ==
  ASSUME WindowsInv, NEW request \in requests, NEW reply \in Replies(request.query, request.window), First(request, reply)
  PROVE  WindowsInv'
<1> DEFINE q == request.query
           base == [NoRead EXCEPT !.query = request.query, !.gen = request.gen]
           read == Absorb(base, 0, reply)
           top == <<0, wanted[2] - wanted[1]>>
           others == requests \ {request}
<1>1. request.first /\ request.gen = gen /\ RequestIsSound(request, gen, query, next, shown)
  BY DEF First, Current, WindowsInv
<1>2. /\ request \in [gen : Nat \ {0}, query : Queries, window : Nat, first : BOOLEAN]
      /\ request.window = 0 /\ q = query /\ next = gen /\ gen # 0 /\ gen \in Nat /\ q \in Queries
  BY <1>1 DEF RequestIsSound
<1>3. Core(base) /\ base.query = q /\ base.gen = gen /\ DOMAIN base.windows = {} /\ DOMAIN base.failed = {}
  <2>1. request.gen \in Nat /\ q \in Queries
    BY <1>1, <1>2
  <2>2. /\ Core(base) /\ base.query = q /\ base.gen = request.gen
        /\ DOMAIN base.windows = {} /\ DOMAIN base.failed = {}
    <3>1. base = Blank(q, request.gen)
      BY DEF Blank
    <3> HIDE DEF base
    <3>2. QED
      BY <2>1, <3>1, FreshRead
  <2> HIDE DEF base
  <2>3. QED
    BY <1>1, <2>2
<1> HIDE DEF base
<1>4. /\ Core(read) /\ Told(read) /\ read.query = q /\ read.gen = gen
      /\ DOMAIN read.windows = {0} /\ DOMAIN read.failed = {}
  <2>1. base.query \in Queries /\ 0 * Window <= base.query.length /\ reply \in Replies(base.query, 0)
    BY <1>2, <1>3, AskedType, WindowNat DEF Asked
  <2>2. /\ Core(read) /\ Told(read) /\ read.query = base.query /\ read.gen = base.gen
        /\ DOMAIN read.windows = DOMAIN base.windows \cup {0} /\ DOMAIN read.failed \subseteq DOMAIN base.failed
    BY <1>3, <2>1, AbsorbCore
  <2> HIDE DEF read
  <2>3. QED
    BY <1>3, <2>2
<1>5. /\ shown' = read /\ wanted' = top /\ next' = 0 /\ query' = query /\ gen' = gen /\ failures' = failures
      /\ Pumped(read, inflight, 0, top, retry, others)
  BY <1>1 DEF First, base
<1> HIDE DEF read
<1>6. ReadIsSound(read, gen, failures')
  <2>1. Cardinality({0}) = 1
    BY FS_Singleton
  <2>2. Cardinality(DOMAIN read.windows) <= Keeps
    BY <1>4, <2>1, WindowNat
  <2>3. QED
    BY <1>2, <1>4, <2>2 DEF ReadIsSound
<1>7. Timely(read, gen, query, 0)
  BY <1>2, <1>4 DEF Timely
<1>8. ASSUME NEW r \in others PROVE r.gen # gen /\ RequestIsSound(r, gen, query, 0, read)
  <2>1. RequestIsSound(r, gen, query, next, shown) /\ shown.gen # gen
    BY <1>2 DEF WindowsInv, Timely
  <2>2. r \in [gen : Nat \ {0}, query : Queries, window : Nat, first : BOOLEAN] /\ r.gen <= gen /\ (r.first => r.window = 0)
    BY <2>1 DEF RequestIsSound
  <2>3. r.gen = gen => r.first
    BY <2>1, <2>2 DEF RequestIsSound
  <2>4. r.gen = gen /\ r.first => r.query = query /\ r.window = 0
    BY <2>1 DEF RequestIsSound
  <2>5. r.gen = gen /\ r.first => r = request
    BY <1>1, <1>2, <2>2, <2>4
  <2>6. r.gen # gen
    BY <2>3, <2>5
  <2>7. QED
    BY <2>2, <2>6 DEF RequestIsSound
<1>9. inflight = OnTheirWay(others, gen)
  BY <1>1 DEF WindowsInv, OnTheirWay
<1>10. /\ inflight \in SUBSET Nat /\ IsFiniteSet(inflight) /\ Cardinality(inflight) <= InFlight
       /\ query \in Asked /\ retry \in Nat \cup {Never} /\ failures' \in 0 .. MaxFailures /\ top \in Nat \X Int
  BY <1>5 DEF WindowsInv
<1> HIDE DEF others, top
<1>11. QED
  BY <1>2, <1>5, <1>6, <1>7, <1>8, <1>9, <1>10, PumpKeepsInv

\* A later window's answer is of what is shown, and of a window no one else asked for.
LEMMA Answered ==
  ASSUME WindowsInv, NEW request \in requests, ~request.first, Current(request)
  PROVE  LET w == request.window
             others == requests \ {request}
         IN /\ gen \in Nat /\ gen # 0 /\ next = 0 /\ shown # NoRead /\ shown.gen = gen
            /\ request.query = shown.query /\ shown.query \in Queries
            /\ w \in Nat /\ w * Window <= shown.query.length
            /\ inflight \ {w} = OnTheirWay(others, gen) /\ inflight \ {w} \in SUBSET Nat
            /\ IsFiniteSet(inflight \ {w}) /\ Cardinality(inflight \ {w}) <= InFlight
<1> DEFINE w == request.window
           others == requests \ {request}
<1>1. request.gen = gen /\ RequestIsSound(request, gen, query, next, shown)
  BY DEF Current, WindowsInv
<1>2. /\ request \in [gen : Nat \ {0}, query : Queries, window : Nat, first : BOOLEAN]
      /\ request.query = shown.query /\ shown.gen = gen /\ w * Window <= shown.query.length
      /\ gen \in Nat /\ gen # 0 /\ w \in Nat /\ shown.query \in Queries
  BY <1>1 DEF RequestIsSound
<1>3. next = 0
  BY <1>2 DEF WindowsInv, Timely
<1>4. shown # NoRead
  BY <1>2, NothingIsSound
<1>5. ASSUME NEW r \in others, r.gen = gen, ~r.first PROVE r.window # w
  <2>1. RequestIsSound(r, gen, query, next, shown)
    BY DEF WindowsInv
  <2>2. r \in [gen : Nat \ {0}, query : Queries, window : Nat, first : BOOLEAN] /\ r.query = shown.query
    BY <1>5, <2>1 DEF RequestIsSound
  <2>3. r.window = w => r = request
    BY <1>1, <1>2, <1>5, <2>2
  <2>4. QED
    BY <2>3
<1>6. inflight \ {w} = OnTheirWay(others, gen)
  <2>1. inflight = OnTheirWay(requests, gen)
    BY DEF WindowsInv
  <2>2. OnTheirWay(requests, gen) \ {w} = OnTheirWay(others, gen)
    BY <1>5 DEF OnTheirWay
  <2>3. QED
    BY <2>1, <2>2
<1>7. /\ inflight \ {w} \in SUBSET Nat
      /\ IsFiniteSet(inflight \ {w}) /\ Cardinality(inflight \ {w}) <= InFlight
  <2>1. inflight \in SUBSET Nat /\ IsFiniteSet(inflight) /\ Cardinality(inflight) <= InFlight
    BY DEF WindowsInv
  <2> DEFINE rest == inflight \ {w}
  <2> rest \in SUBSET inflight
    OBVIOUS
  <2> HIDE DEF rest
  <2>2. IsFiniteSet(rest) /\ Cardinality(rest) <= Cardinality(inflight)
    BY <2>1, FS_Subset
  <2>3. Cardinality(inflight) \in Nat /\ Cardinality(rest) \in Nat
    BY <2>1, <2>2, FS_CardinalityType
  <2>4. Cardinality(rest) <= InFlight
    BY <2>1, <2>2, <2>3, WindowNat
  <2>5. QED
    BY <2>1, <2>2, <2>4 DEF rest
<1>8. QED
  BY <1>2, <1>3, <1>4, <1>6, <1>7

\* Whatever of the same query is shown afterwards, the other requests are sound.
LEMMA OthersAreSound ==
  ASSUME WindowsInv, NEW request \in requests, ~request.first, Current(request),
         NEW read, read.query = shown.query, read.gen = shown.gen
  PROVE  /\ Timely(read, gen, query, next)
         /\ \A r \in requests \ {request} : RequestIsSound(r, gen, query, next, read)
<1>1. next = 0 /\ shown # NoRead
  BY Answered
<1>2. Timely(read, gen, query, next)
  BY <1>1 DEF WindowsInv, Timely
<1>3. \A r \in requests : RequestIsSound(r, gen, query, next, read)
  BY DEF WindowsInv, RequestIsSound
<1>4. QED
  BY <1>2, <1>3
LEMMA ArrivesKeepsInv ==
  ASSUME WindowsInv, NEW request \in requests, NEW reply \in Replies(request.query, request.window), Arrives(request, reply)
  PROVE  WindowsInv'
<1> DEFINE w == request.window
           others == requests \ {request}
           on == inflight \ {w}
           read == Absorb(shown, w, reply)
<1>1. ~request.first /\ Current(request)
  BY DEF Arrives
<1>2. PICK left \in Kept(read) : shown' = left /\ Pumped(left, on, next, wanted, retry, others)
  BY DEF Arrives
<1>3. query' = query /\ gen' = gen /\ next' = next /\ wanted' = wanted /\ failures' = failures
  BY DEF Arrives
<1>4. /\ gen \in Nat /\ gen # 0 /\ next = 0 /\ shown.gen = gen /\ shown.query \in Queries
      /\ request.query = shown.query /\ w \in Nat /\ w * Window <= shown.query.length
      /\ on = OnTheirWay(others, gen) /\ on \in SUBSET Nat /\ IsFiniteSet(on) /\ Cardinality(on) <= InFlight
  BY <1>1, Answered
<1>5. ReadIsSound(shown, gen, failures) /\ Core(shown)
  BY DEF WindowsInv, ReadIsSound
<1> HIDE DEF on, w
<1>6. /\ Core(read) /\ Told(read) /\ read.query = shown.query /\ read.gen = shown.gen
      /\ DOMAIN read.windows = DOMAIN shown.windows \cup {w} /\ DOMAIN read.failed \subseteq DOMAIN shown.failed
      /\ \A v \in DOMAIN read.failed : read.failed[v] = shown.failed[v]
  <2>1. reply \in Replies(shown.query, w)
    BY <1>4 DEF w
  <2>2. QED
    BY <1>4, <1>5, <2>1, AbsorbCore
<1> HIDE DEF read
<1>7. /\ Core(left) /\ Told(left) /\ Cardinality(DOMAIN left.windows) <= Keeps
      /\ left.query = read.query /\ left.gen = read.gen /\ left.failed = read.failed
  <2>1. IsFiniteSet(DOMAIN shown.windows) /\ Cardinality(DOMAIN shown.windows) <= Keeps
    BY <1>5 DEF Core, ReadIsSound
  <2>2. QED
    BY <1>4, <1>6, <2>1, KeptIsSound
<1>8. ReadIsSound(left, gen, failures)
  <2>1. \A v \in DOMAIN left.failed : left.failed[v].tries \in 1 .. failures
    BY <1>5, <1>6, <1>7 DEF ReadIsSound
  <2>2. left.gen = gen /\ left.query \in Queries
    BY <1>4, <1>6, <1>7
  <2>3. QED
    BY <1>4, <1>7, <2>1, <2>2 DEF ReadIsSound
<1>9. Timely(left, gen, query, next) /\ \A r \in others : RequestIsSound(r, gen, query, next, left)
  BY <1>1, <1>6, <1>7, OthersAreSound
<1>10. /\ query \in Asked /\ retry \in Nat \cup {Never} /\ wanted \in Nat \X Int /\ failures' \in 0 .. MaxFailures
       /\ next \in {0, gen}
  BY <1>3 DEF WindowsInv
<1> HIDE DEF others
<1>11. QED
  BY <1>2, <1>3, <1>4, <1>8, <1>9, <1>10, PumpKeepsInv

\* A failure more of a window.
LEMMA FailedIsSound ==
  ASSUME NEW g \in Nat, NEW failed \in Nat, failed < MaxFailures, NEW old, ReadIsSound(old, g, failed), NEW w \in Nat,
         old # NoRead, old.gen # 0, NEW tries, tries = 1 + (IF w \in DOMAIN old.failed THEN old.failed[w].tries ELSE 0),
         NEW read, read = [old EXCEPT !.failed = With(@, w, [wait |-> RetryAfter(tries), tries |-> tries])]
  PROVE  ReadIsSound(read, g, failed + 1) /\ read.query = old.query /\ read.gen = old.gen
<1> DEFINE try == [wait |-> RetryAfter(tries), tries |-> tries]
<1>1. Core(old) /\ Told(old) /\ old \in ReadType /\ old.failed \in Maps(WaitType)
  BY DEF ReadIsSound, Core, ReadType
<1>2. \A v \in DOMAIN old.failed : old.failed[v].tries \in 1 .. failed
  BY DEF ReadIsSound
<1>3. tries \in 1 .. failed + 1 /\ tries \in Nat
  BY <1>2
<1>4. RetryAfter(tries) \in Nat
  BY <1>3, WindowsAssumption
<1>5. try \in WaitType /\ try.tries = tries
  BY <1>3, <1>4 DEF WaitType
<1> HIDE DEF try
<1>6. read = [old EXCEPT !.failed = With(old.failed, w, try)]
  BY DEF try
<1>7. /\ read.failed = With(old.failed, w, try) /\ read.query = old.query /\ read.gen = old.gen
      /\ read.windows = old.windows /\ read.total = old.total /\ read.matched = old.matched
      /\ read.seen = old.seen /\ read.end = old.end /\ read.bounded = old.bounded
  BY <1>1, <1>6 DEF ReadType
<1>8. read.failed \in Maps(WaitType) /\ Extends(read.failed, old.failed, w, try)
  <2> DEFINE f == old.failed
             h == read.failed
  <2>1. f \in Maps(WaitType) /\ h = With(f, w, try)
    BY <1>1, <1>7
  <2> HIDE DEF f, h
  <2>2. h \in Maps(WaitType) /\ Extends(h, f, w, try)
    BY <1>5, <2>1, WithMap
  <2>3. QED
    BY <2>2 DEF f, h
<1>9. read \in ReadType
  <2>1. read = [old EXCEPT !.failed = read.failed]
    BY <1>6, <1>7
  <2>2. QED
    BY <1>1, <1>8, <2>1 DEF ReadType
<1>10. Core(read) /\ Told(read)
  BY <1>1, <1>7, <1>9 DEF Core, Told
<1>11. \A v \in DOMAIN read.failed : read.failed[v].tries \in 1 .. failed + 1
  <2>1. DOMAIN read.failed = DOMAIN old.failed \cup {w}
    BY <1>8 DEF Extends
  <2>2. \A v \in DOMAIN read.failed : read.failed[v] = IF v = w THEN try ELSE old.failed[v]
    BY <1>8, <2>1 DEF Extends
  <2>3. ASSUME NEW v \in DOMAIN read.failed PROVE read.failed[v].tries \in 1 .. failed + 1
    <3>1. CASE v = w
      BY <1>3, <1>5, <2>2, <3>1
    <3>2. CASE v # w
      <4>1. old.failed[v].tries \in 1 .. failed
        BY <1>2, <2>1, <3>2
      <4>2. QED
        BY <2>2, <3>2, <4>1
    <3>3. QED
      BY <3>1, <3>2
  <2>4. QED
    BY <2>3
<1>12. QED
  BY <1>7, <1>10, <1>11 DEF ReadIsSound

LEMMA WindowFailsKeepsInv ==
  ASSUME WindowsInv, NEW request \in requests, WindowFails(request)
  PROVE  WindowsInv'
<1> DEFINE w == request.window
           others == requests \ {request}
           on == inflight \ {w}
           tries == 1 + (IF w \in DOMAIN shown.failed THEN shown.failed[w].tries ELSE 0)
           read == [shown EXCEPT !.failed = With(@, w, [wait |-> RetryAfter(tries), tries |-> tries])]
<1>1. ~request.first /\ Current(request)
  BY DEF WindowFails
<1>2. /\ shown' = read /\ Pumped(read, on, next, wanted, retry, others)
      /\ query' = query /\ gen' = gen /\ next' = next /\ wanted' = wanted
  BY DEF WindowFails
<1>3. /\ gen \in Nat /\ gen # 0 /\ next = 0 /\ shown.gen = gen /\ shown # NoRead /\ w \in Nat
      /\ on = OnTheirWay(others, gen) /\ on \in SUBSET Nat /\ IsFiniteSet(on) /\ Cardinality(on) <= InFlight
  BY <1>1, Answered
<1>4. failures \in Nat /\ failures < MaxFailures /\ failures' = failures + 1 /\ failures' \in 0 .. MaxFailures
  BY WindowsAssumption DEF WindowFails, WindowsInv
<1>5. ReadIsSound(read, gen, failures + 1) /\ read.query = shown.query /\ read.gen = shown.gen
  <2>1. ReadIsSound(shown, gen, failures) /\ shown.gen # 0
    BY <1>3 DEF WindowsInv
  <2> HIDE DEF w
  <2>2. QED
    BY <1>3, <1>4, <2>1, FailedIsSound
<1> HIDE DEF on, w, tries, read
<1>6. Timely(read, gen, query, next) /\ \A r \in others : RequestIsSound(r, gen, query, next, read)
  BY <1>1, <1>5, OthersAreSound
<1>7. /\ query \in Asked /\ retry \in Nat \cup {Never} /\ wanted \in Nat \X Int /\ next \in {0, gen}
  BY DEF WindowsInv
<1> HIDE DEF others
<1>8. QED
  BY <1>2, <1>3, <1>4, <1>5, <1>6, <1>7, PumpKeepsInv
LEMMA FirstFailsKeepsInv ==
  ASSUME WindowsInv, NEW request \in requests, FirstFails(request)
  PROVE  WindowsInv'
<1>1. /\ request.first /\ request.gen = gen /\ shown' = NoRead /\ next' = 0 /\ requests' = requests \ {request}
      /\ failures' = failures + 1 /\ failures < MaxFailures
      /\ query' = query /\ gen' = gen /\ inflight' = inflight /\ wanted' = wanted /\ retry' = retry
  BY DEF FirstFails, Current
<1>2. RequestIsSound(request, gen, query, next, shown)
  BY DEF WindowsInv
<1>3. /\ request \in [gen : Nat \ {0}, query : Queries, window : Nat, first : BOOLEAN]
      /\ request.window = 0 /\ request.query = query /\ next = gen /\ gen # 0 /\ gen \in Nat
  BY <1>1, <1>2 DEF RequestIsSound
<1>4. ReadIsSound(NoRead, gen, failures')
  BY <1>3, NothingIsSound
<1>5. Timely(NoRead, gen, query, 0)
  BY DEF Timely
<1>6. ASSUME NEW r \in requests' PROVE RequestIsSound(r, gen, query, 0, NoRead)
  <2>1. r \in requests /\ r # request /\ RequestIsSound(r, gen, query, next, shown) /\ shown.gen # gen
    BY <1>1, <1>3 DEF WindowsInv, Timely
  <2>2. r \in [gen : Nat \ {0}, query : Queries, window : Nat, first : BOOLEAN] /\ r.gen <= gen /\ (r.first => r.window = 0)
    BY <2>1 DEF RequestIsSound
  <2>3. r.gen = gen => r.first /\ r.query = query /\ r.window = 0
    BY <2>1, <2>2 DEF RequestIsSound
  <2>4. r.gen # gen
    BY <1>1, <1>3, <2>1, <2>2, <2>3
  <2>5. QED
    BY <2>2, <2>4 DEF RequestIsSound
<1>7. inflight' = OnTheirWay(requests', gen)
  BY <1>1 DEF WindowsInv, OnTheirWay
<1>8. failures' \in 0 .. MaxFailures
  BY <1>1, WindowsAssumption DEF WindowsInv
<1>9. GoesOnReading'
  BY <1>1 DEF GoesOnReading
<1>10. /\ query' \in Asked /\ gen' \in Nat /\ next' \in {0, gen'} /\ wanted' \in Nat \X Int /\ retry' \in Nat \cup {Never}
       /\ inflight' \in SUBSET Nat /\ IsFiniteSet(inflight') /\ Cardinality(inflight') <= InFlight
  BY <1>1 DEF WindowsInv
<1>11. QED
  BY <1>1, <1>4, <1>5, <1>6, <1>7, <1>8, <1>9, <1>10 DEF WindowsInv

LEMMA DroppedKeepsInv ==
  ASSUME WindowsInv, NEW request \in requests, Dropped(request)
  PROVE  WindowsInv'
<1>1. /\ request.gen # gen /\ requests' = requests \ {request}
      /\ query' = query /\ shown' = shown /\ gen' = gen /\ next' = next /\ inflight' = inflight /\ wanted' = wanted
      /\ timer' = timer /\ retry' = retry /\ failures' = failures
  BY DEF Dropped, Current
<1>2. OnTheirWay(requests', gen) = OnTheirWay(requests, gen)
  BY <1>1 DEF OnTheirWay
<1>3. \A r \in requests' : RequestIsSound(r, gen', query', next', shown')
  BY <1>1 DEF WindowsInv
<1>4. GoesOnReading'
  BY <1>1 DEF WindowsInv, GoesOnReading, Missing
<1>5. QED
  BY <1>1, <1>2, <1>3, <1>4 DEF WindowsInv

LEMMA WantKeepsInv ==
  ASSUME WindowsInv, NEW range \in Ranges, Want(range)
  PROVE  WindowsInv'
<1>1. /\ wanted' = range /\ timer' /\ query' = query /\ shown' = shown /\ gen' = gen /\ next' = next
      /\ inflight' = inflight /\ requests' = requests /\ retry' = retry /\ failures' = failures
  BY DEF Want
<1>2. wanted' \in Nat \X Int
  BY <1>1, WindowsAssumption
<1>3. GoesOnReading'
  BY <1>1 DEF GoesOnReading
<1>4. QED
  BY <1>1, <1>2, <1>3 DEF WindowsInv

\* A pump of what is shown.
LEMMA PumpOfShown ==
  ASSUME WindowsInv, NEW wake \in Nat \cup {Never}, Pumped(shown, inflight, next, wanted, wake, requests),
         query' = query, shown' = shown, gen' = gen, next' = next, wanted' = wanted, failures' = failures
  PROVE  WindowsInv'
<1>1. /\ gen \in Nat /\ query \in Asked /\ next \in {0, gen} /\ wanted \in Nat \X Int /\ failures' \in 0 .. MaxFailures
      /\ ReadIsSound(shown, gen, failures') /\ Timely(shown, gen, query, next)
      /\ \A r \in requests : RequestIsSound(r, gen, query, next, shown)
      /\ inflight = OnTheirWay(requests, gen) /\ inflight \in SUBSET Nat /\ IsFiniteSet(inflight)
      /\ Cardinality(inflight) <= InFlight
  BY DEF WindowsInv
<1>2. QED
  BY <1>1, PumpKeepsInv

LEMMA TickKeepsInv ==
  ASSUME WindowsInv, Tick
  PROVE  WindowsInv'
<1> DEFINE failed == [w \in DOMAIN shown.failed |-> [wait |-> Larger(0, shown.failed[w].wait - 1), tries |-> shown.failed[w].tries]]
           read == [shown EXCEPT !.failed = failed]
<1>1. /\ retry > 0 /\ retry' = retry - 1 /\ shown' = read /\ query' = query /\ gen' = gen /\ next' = next
      /\ inflight' = inflight /\ requests' = requests /\ wanted' = wanted /\ failures' = failures
  <2>1. shown' = read
    BY Zenon DEF Tick
  <2> HIDE DEF read
  <2>2. QED
    BY <2>1 DEF Tick
<1>2. retry' \in Nat
  BY <1>1 DEF WindowsInv, Never
<1>3. ReadIsSound(shown, gen, failures) /\ Core(shown) /\ Told(shown) /\ shown \in ReadType /\ shown.failed \in Maps(WaitType)
  BY DEF WindowsInv, ReadIsSound, Core, ReadType
<1>4. ASSUME NEW w \in DOMAIN shown.failed
      PROVE  failed[w] \in WaitType /\ failed[w].tries = shown.failed[w].tries
  <2>1. shown.failed[w] \in WaitType
    BY <1>3, MapsDef
  <2>2. failed[w] = [wait |-> Larger(0, shown.failed[w].wait - 1), tries |-> shown.failed[w].tries]
    OBVIOUS
  <2>3. Larger(0, shown.failed[w].wait - 1) \in Nat
    BY <2>1 DEF Larger, WaitType
  <2>4. QED
    BY <2>1, <2>2, <2>3 DEF WaitType
<1>5. DOMAIN failed = DOMAIN shown.failed
  OBVIOUS
<1>6. failed \in Maps(WaitType)
  <2>1. DOMAIN shown.failed \subseteq Nat
    BY <1>3, MapsDef
  <2>2. failed \in [DOMAIN shown.failed -> WaitType]
    BY <1>4
  <2> HIDE DEF failed
  <2>3. QED
    BY <1>5, <2>1, <2>2, MapsDef
<1> HIDE DEF failed
<1>7. /\ read \in ReadType /\ read.failed = failed /\ read.query = shown.query /\ read.gen = shown.gen
      /\ read.windows = shown.windows /\ read.total = shown.total /\ read.matched = shown.matched
      /\ read.seen = shown.seen /\ read.end = shown.end /\ read.bounded = shown.bounded
  BY <1>3, <1>6 DEF ReadType
<1>8. Core(read) /\ Told(read)
  BY <1>3, <1>7 DEF Core, Told
<1> HIDE DEF read
<1>9. shown # NoRead \/ shown = NoRead
  OBVIOUS
<1>10. read # NoRead => read.gen # 0 /\ read.query \in Queries
  <2>1. CASE shown # NoRead
    BY <1>3, <1>7, <2>1 DEF ReadIsSound
  <2>2. CASE shown = NoRead
    <3>1. DOMAIN failed = {}
      BY <1>5, <2>2 DEF NoRead
    <3>2. failed = shown.failed
      BY <1>5, <2>2, <3>1 DEF NoRead, failed
    <3>3. read = shown
      BY <1>3, <3>2 DEF read, ReadType
    <3>4. QED
      BY <2>2, <3>3
  <2>3. QED
    BY <2>1, <2>2
<1>11. ReadIsSound(read, gen, failures)
  <2>1. \A w \in DOMAIN read.failed : read.failed[w].tries \in 1 .. failures
    BY <1>3, <1>4, <1>5, <1>7 DEF ReadIsSound
  <2>2. QED
    BY <1>3, <1>7, <1>8, <1>10, <2>1 DEF ReadIsSound
<1>12. Timely(read, gen, query, next)
  <2>1. read # NoRead => shown # NoRead
    <3>1. shown = NoRead => shown.gen = 0
      BY NothingIsSound
    <3>2. QED
      BY <1>7, <1>10, <3>1
  <2>2. QED
    BY <1>7, <2>1 DEF WindowsInv, Timely
<1>13. \A r \in requests : RequestIsSound(r, gen, query, next, read)
  BY <1>7 DEF WindowsInv, RequestIsSound
<1>14. GoesOnReading'
  BY <1>2 DEF GoesOnReading, Never
<1>15. QED
  BY <1>1, <1>2, <1>11, <1>12, <1>13, <1>14 DEF WindowsInv

-----------------------------------------------------------------------------
LEMMA WindowsInitInv == WindowsInit => WindowsInv
<1> SUFFICES ASSUME WindowsInit PROVE WindowsInv
  OBVIOUS
<1>1. /\ query = NoQuery /\ shown = NoRead /\ gen = 0 /\ next = 0 /\ inflight = {} /\ requests = {}
      /\ wanted = <<0, 0>> /\ retry = Never /\ failures = 0
  BY DEF WindowsInit
<1>2. ReadIsSound(shown, gen, failures) /\ Timely(shown, gen, query, next)
  BY <1>1, NothingIsSound DEF Timely
<1>3. IsFiniteSet(inflight) /\ Cardinality(inflight) <= InFlight
  BY <1>1, FS_EmptySet, WindowNat
<1>4. inflight = OnTheirWay(requests, gen) /\ GoesOnReading
  BY <1>1 DEF OnTheirWay, GoesOnReading
<1>5. QED
  BY <1>1, <1>2, <1>3, <1>4, WindowsAssumption DEF WindowsInv, Asked

LEMMA WindowsStep == WindowsInv /\ [WindowsNext]_windowVars => WindowsInv'
<1> SUFFICES ASSUME WindowsInv, [WindowsNext]_windowVars PROVE WindowsInv'
  OBVIOUS
<1>1. ASSUME NEW q \in Queries \cup {NoQuery}, AskFor(q) PROVE WindowsInv'
  BY <1>1, StartQueryKeepsInv DEF AskFor, Asked
<1>2. CASE Remount
  <2>1. query \in Asked /\ StartQuery(query) /\ wanted' = wanted /\ failures' = failures
    BY <1>2 DEF Remount, WindowsInv
  <2>2. QED
    BY <2>1, StartQueryKeepsInv
<1>3. ASSUME NEW request \in requests, NEW reply \in Replies(request.query, request.window),
             First(request, reply) \/ Arrives(request, reply)
      PROVE  WindowsInv'
  BY <1>3, FirstKeepsInv, ArrivesKeepsInv
<1>4. ASSUME NEW request \in requests, FirstFails(request) \/ WindowFails(request) \/ Dropped(request)
      PROVE  WindowsInv'
  BY <1>4, FirstFailsKeepsInv, WindowFailsKeepsInv, DroppedKeepsInv
<1>5. ASSUME NEW range \in Ranges, Want(range) PROVE WindowsInv'
  BY <1>5, WantKeepsInv
<1>6. CASE Throttled
  <2>1. retry \in Nat \cup {Never}
    BY DEF WindowsInv
  <2>2. QED
    BY <1>6, <2>1, PumpOfShown DEF Throttled
<1>7. CASE Wake
  BY <1>7, PumpOfShown DEF Wake
<1>8. CASE Tick
  BY <1>8, TickKeepsInv
<1>9. CASE UNCHANGED windowVars
  <2>1. /\ query' = query /\ shown' = shown /\ gen' = gen /\ next' = next /\ inflight' = inflight /\ wanted' = wanted
        /\ requests' = requests /\ timer' = timer /\ retry' = retry /\ failures' = failures
    BY <1>9 DEF windowVars
  <2>2. GoesOnReading'
    BY <2>1 DEF WindowsInv, GoesOnReading, Missing
  <2>3. QED
    BY <2>1, <2>2 DEF WindowsInv
<1>10. CASE WindowsRest
  BY <1>9, <1>10 DEF WindowsRest
<1>11. QED
  BY <1>1, <1>2, <1>3, <1>4, <1>5, <1>6, <1>7, <1>8, <1>9, <1>10 DEF WindowsNext

LEMMA WindowsInvShows == WindowsInv => GridShowsTheTable
<1> SUFFICES ASSUME WindowsInv PROVE GridShowsTheTable
  OBVIOUS
<1>1. Core(shown) /\ Told(shown) /\ Cardinality(DOMAIN shown.windows) <= Keeps
  BY DEF WindowsInv, ReadIsSound
<1>2. Drawn \in {shown, NoRead} /\ (Drawn # NoRead => Drawn = shown /\ query # NoQuery)
  BY DEF Drawn
<1>3. Core(Drawn) /\ Told(Drawn)
  BY <1>1, <1>2, WindowsAssumption, NothingIsSound DEF WindowsInv
<1>4. \A w \in DOMAIN Drawn.windows : Drawn.windows[w] = RowsAt(Drawn.query, w)
  BY <1>3 DEF Core
<1>5. Drawn # NoRead /\ next = 0 => shown.gen = gen /\ Drawn.query = query
  BY <1>2 DEF WindowsInv, Timely
<1>6. (Extent(Drawn).exact => Extent(Drawn).count = Drawn.query.length) /\ Extent(Drawn).seen <= Drawn.query.length
  BY <1>3, ExtentFacts
<1>7. inflight = {r.window : r \in {s \in requests : s.gen = gen /\ ~s.first}} /\ Cardinality(inflight) <= InFlight
  BY DEF WindowsInv, OnTheirWay
<1>8. Drawn # NoRead /\ next = 0 /\ Missing(Drawn, {}, wanted) # {} => inflight # {} \/ timer \/ retry # Never
  BY <1>2, <1>5 DEF WindowsInv, GoesOnReading
<1>9. QED
  BY <1>1, <1>4, <1>5, <1>6, <1>7, <1>8, Zenon DEF GridShowsTheTable

\* The grid draws what the table has: every row it draws is the one at its place of one
\* query, an exact count is the number of that query's rows, no more windows are on their
\* way or held than IN_FLIGHT and KEEP, and while a window in view is missing something is
\* due that asks for it (windows.ts), whatever is asked, fails or comes late.
THEOREM GridShowsTheTableAlways == WindowsSpec => []GridShowsTheTable
<1>1. WindowsInit => WindowsInv
  BY WindowsInitInv
<1>2. WindowsInv /\ [WindowsNext]_windowVars => WindowsInv'
  BY WindowsStep
<1>3. WindowsInv => GridShowsTheTable
  BY WindowsInvShows
<1>4. QED
  BY <1>1, <1>2, <1>3, PTL DEF WindowsSpec
=============================================================================
