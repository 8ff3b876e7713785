---------------------------- MODULE CatalogStorage ----------------------------
(***************************************************************************)
(* Whose credentials read the files of a catalog's table, and how vended   *)
(* ones are renewed while they are in use (src/src/catalog/vended.rs).     *)
(*                                                                         *)
(* A storage property is known by its key and by where it comes from: the  *)
(* client's configuration on this machine, the catalog's configuration     *)
(* endpoint, the table's own configuration, or the credential entry whose  *)
(* prefix is the longest that fits the table.  "key" stands for the pair   *)
(* of properties without which there is no credential (s3.access-key-id    *)
(* and s3.secret-access-key), "session" for s3.session-token and "expires" *)
(* for s3.session-token-expires-at-ms.  The requests for the table's files *)
(* run at once and share the vended credential.                            *)
(***************************************************************************)
EXTENDS Naturals

CONSTANTS
  FileRequests,   \* requests for the table's files
  Shapes,         \* bound: the sets of keys a source may send
  MaxGen          \* bound: the answers of the catalog that hold credentials

Keys == {"key", "session", "expires"}

\* The keys told apart are those sent, and the table may be vended credentials.
ASSUME StorageAssumption == Shapes \subseteq SUBSET Keys /\ MaxGen \in Nat \ {0}

VARIABLES
  local,     \* the keys configured for the catalog on this machine
  server,    \* the keys the catalog's configuration endpoint sent
  overrides, \* it sent them as overrides, not as defaults
  endpoint,  \* the catalog advertises its credentials endpoint
  storage,   \* TableStorage: whose credentials read the table
  current,   \* Vended.current: where each of its properties comes from, and its age
  issued,    \* credentials the catalog has vended so far
  due,       \* those within the margin before their expiry
  at,        \* where each request's get_credential is
  since,     \* history: the age of the current credential when it was called
  got        \* the credential it has been sent, or has returned

sources == <<local, server, overrides, endpoint>>
requestVars == <<at, since, got>>
storageVars == <<sources, storage, current, issued, due, requestVars>>

Origins == {"local", "server", "table", "entry"}
Credentials ==
  [key : Origins, session : Origins \cup {"none"}, expires : Origins \cup {"none"},
   gen : 1..MaxGen]
NoCredential == [key |-> "none", session |-> "none", expires |-> "none", gen |-> 0]
Finished == {"done", "failed"}

\* Among the rest, a credential has a key.
StorageTypeOK ==
  /\ local \in Shapes /\ server \in Shapes /\ overrides \in BOOLEAN /\ endpoint \in BOOLEAN
  /\ storage \in {"unknown", "vended", "catalog", "ambient", "signing", "forbidden"}
  /\ IF storage = "vended" THEN current \in Credentials ELSE current = NoCredential
  /\ issued \in 0..MaxGen /\ due \in SUBSET (1..issued)
  /\ at \in [FileRequests -> {"idle", "asking", "answered"} \cup Finished]
  /\ since \in [FileRequests -> 0..MaxGen]
  /\ got \in [FileRequests -> Credentials \cup {NoCredential}]

StorageInit ==
  /\ local \in Shapes /\ server \in Shapes /\ overrides \in BOOLEAN /\ endpoint \in BOOLEAN
  /\ storage = "unknown" /\ current = NoCredential /\ issued = 0 /\ due = {}
  /\ at = [r \in FileRequests |-> "idle"]
  /\ since = [r \in FileRequests |-> 0]
  /\ got = [r \in FileRequests |-> NoCredential]

-----------------------------------------------------------------------------
From(origin, keys) == [k \in keys |-> origin]

\* The properties `under`, and over them those of `props`.
Over(props, under) ==
  [k \in DOMAIN props \cup DOMAIN under |-> IF k \in DOMAIN props THEN props[k] ELSE under[k]]

\* s3_credential: the credential in a set of properties that holds a key.
Credential(props, gen) ==
  LET origin(k) == IF k \in DOMAIN props THEN props[k] ELSE "none"
  IN [key |-> origin("key"), session |-> origin("session"), expires |-> origin("expires"),
      gen |-> gen]

Vends(keys) == "key" \in keys

\* ServerConfig.props: the client's configuration is over the catalog's defaults
\* and under its overrides.  The table's own configuration is over both.
ServerProps ==
  IF overrides THEN Over(From("server", server), From("local", local))
  ELSE Over(From("local", local), From("server", server))
TableProps(table) == Over(From("table", table), ServerProps)

Vend(props) ==
  /\ storage' = "vended"
  /\ issued' = 1
  /\ current' = Credential(props, 1)

ReadWith(choice) == storage' = choice /\ UNCHANGED <<current, issued>>

\* `storage_for`: the table has been loaded, with the keys of its own
\* configuration and of its credential entry.
Load(table, entry) ==
  /\ storage = "unknown"
  /\ \/ Vends(entry) /\ Vend(Over(From("entry", entry), TableProps(table)))
     \/ ~Vends(entry) /\ Vends(table) /\ Vend(TableProps(table))
     \/ /\ ~Vends(entry) /\ ~Vends(table)
        /\ \/ ReadWith("signing")
           \/ Vends(local) /\ ReadWith("catalog")
           \/ ~Vends(local) /\ (ReadWith("ambient") \/ ReadWith("forbidden"))
  /\ UNCHANGED <<sources, due, requestVars>>

Fresh == current.expires = "none" \/ current.gen \notin due

\* `get_credential`, when the current one will do.
TakeCurrent(r) ==
  /\ at[r] = "idle" /\ storage = "vended" /\ Fresh
  /\ at' = [at EXCEPT ![r] = "done"]
  /\ since' = [since EXCEPT ![r] = current.gen]
  /\ got' = [got EXCEPT ![r] = current]
  /\ UNCHANGED <<sources, storage, current, issued, due>>

\* `get_credential`, when it is time to renew: the catalog is asked, with no
\* lock held, so several requests may ask at once.
Ask(r) ==
  /\ at[r] = "idle" /\ storage = "vended" /\ ~Fresh
  /\ at' = [at EXCEPT ![r] = "asking"]
  /\ since' = [since EXCEPT ![r] = current.gen]
  /\ UNCHANGED <<sources, storage, current, issued, due, got>>

\* Renewal.props: the credentials endpoint sends entries only.
Renewed(tableKeys, entryKeys) ==
  Over(From("entry", entryKeys), From("table", IF endpoint THEN {} ELSE tableKeys))

\* The catalog answers, with what it vends now.
Answer(r) ==
  /\ at[r] = "asking" /\ issued < MaxGen
  /\ issued' = issued + 1
  /\ \E tableKeys, entryKeys \in Shapes :
       /\ Vends(DOMAIN Renewed(tableKeys, entryKeys))
       /\ got' = [got EXCEPT ![r] = Credential(Renewed(tableKeys, entryKeys), issued + 1)]
  /\ at' = [at EXCEPT ![r] = "answered"]
  /\ UNCHANGED <<sources, storage, current, due, since>>

\* Mutant: a request takes what another one was sent.
JoinAnother(r) ==
  /\ at[r] \in {"asking", "answered"}
  /\ \E other \in FileRequests :
       /\ at[other] = "answered"
       /\ current' = got[other]
       /\ got' = [got EXCEPT ![r] = got[other]]
  /\ at' = [at EXCEPT ![r] = "done"]
  /\ UNCHANGED <<sources, storage, issued, due, since>>

\* The answer is read: it is the current credential, whatever is by now.
Keep(r) ==
  /\ at[r] = "answered"
  /\ current' = got[r]
  /\ at' = [at EXCEPT ![r] = "done"]
  /\ UNCHANGED <<sources, storage, issued, due, since, got>>

\* The catalog answers without credentials, with an error or not in time.
GiveUp(r) ==
  /\ at[r] = "asking"
  /\ at' = [at EXCEPT ![r] = "failed"]
  /\ UNCHANGED <<sources, storage, current, issued, due, since, got>>

\* A credential comes within the margin before its expiry.
FallDue(gen) ==
  /\ gen \in (1..issued) \ due
  /\ due' = due \cup {gen}
  /\ UNCHANGED <<sources, storage, current, issued, requestVars>>

\* Without vended credentials there is nothing to renew.
StorageQuiet ==
  /\ storage \notin {"unknown", "vended"} \/ \A r \in FileRequests : at[r] \in Finished
  /\ UNCHANGED storageVars

RequestStep(r) == TakeCurrent(r) \/ Ask(r) \/ Answer(r) \/ Keep(r) \/ GiveUp(r)

StorageNext ==
  \/ \E table, entry \in Shapes : Load(table, entry)
  \/ \E r \in FileRequests : RequestStep(r)
  \/ \E gen \in 1..MaxGen : FallDue(gen)
  \/ StorageQuiet

StorageSpec == StorageInit /\ [][StorageNext]_storageVars

-----------------------------------------------------------------------------
Uses(credential, origin) ==
  origin \in {credential.key, credential.session, credential.expires}

\* "Vended means the catalog sent it" (vended.rs:93): a renewed credential holds no
\* part of the keys configured on this machine, nor of the merged configuration,
\* whatever the catalog sent the first time and sends now (vended.rs:64-73).  The first
\* one may: a key sent without a session token takes the one of this machine (99).
RenewedIsTheTables ==
  current.gen > 1 => ~Uses(current, "local") /\ ~Uses(current, "server")

\* Requests that renew at once may replace a newer credential with an older
\* one, but none is handed a credential older than the one that was current
\* when it asked (vended.rs:405-428).
NeverHandedOlder == \A r \in FileRequests : at[r] = "done" => got[r].gen >= since[r]

\* A renewed credential is the table's, and no older than the one it replaces was
\* when it was asked for.
RenewalIsSound == StorageTypeOK /\ RenewedIsTheTables /\ NeverHandedOlder
=============================================================================
