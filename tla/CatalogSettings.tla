--------------------------- MODULE CatalogSettings ---------------------------
(***************************************************************************)
(* Reading the configured catalogs: catalogs.toml, then the environment    *)
(* over it, then a check of every catalog (src/src/catalog/config.rs).     *)
(*                                                                         *)
(* A setting is a catalog's name, a key and a value.  A key is a sequence  *)
(* of parts: `s3.endpoint` is a key of two, a nested table in the file and *)
(* two pieces of a variable.  The environment comes in no order.           *)
(***************************************************************************)
EXTENDS CatalogNames, FiniteSetsExt

CONSTANTS
  Key,       \* the keys the check looks at, by their names
  Files,     \* what the file may hold, as settings; nothing, when there is none
  Settings,  \* what an operator may put into the environment, as a setting
  Strays,    \* other variables with the prefix of the catalogs'
  MaxWanted  \* bound: the settings put into the environment

VARIABLES
  file,      \* the file, as a set of settings
  readable,  \* others may read it
  wanted,    \* the settings put into the environment, each in the variable of its name
  garbled,   \* those whose value is not UTF-8
  left,      \* variables not applied yet
  catalogs,  \* name -> key -> value
  warnings,
  stage

inputs == <<file, readable, wanted, garbled>>
settingsVars == <<inputs, left, catalogs, warnings, stage>>

Unset == "unset"
Empty == ""

\* The variable of a setting.
Variable(s) == [var |-> EnvVar(s.name, s.key), value |-> s.value]

SettingsInit ==
  /\ file \in Files /\ readable \in BOOLEAN
  /\ wanted \in UNION {kSubset(n, Settings) : n \in 0..MaxWanted}
  /\ \A s, t \in wanted : s.name = t.name /\ s.key = t.key => s = t
  /\ garbled \in SUBSET wanted
  /\ \E stray \in {{}} \cup {{v} : v \in Strays} :
       left = {Variable(s) : s \in wanted \ garbled} \cup {[var |-> v, value |-> "x"] : v \in stray}
  /\ catalogs = <<>> /\ warnings = {} /\ stage = "file"

\* What is configured for a name and a key.
Get(name, key) ==
  IF name \in DOMAIN catalogs /\ key \in DOMAIN catalogs[name] THEN catalogs[name][key] ELSE Unset

\* The keys that are asked for.
KnownKeys == {Key[k] : k \in DOMAIN Key}
Asked == KnownKeys \cup {s.key : s \in Settings}

\* Names are texts, a setting's can be put into the name of a variable, and the
\* other variables set nothing that is asked for.
SettingsAssumption ==
  /\ \A f \in Files : \A s \in f : s.name \in Seq(Nat)
  /\ \A s \in Settings : /\ IsCatalogName(s.name)
                         /\ EnvKey(EnvVar(s.name, s.key)) = [name |-> s.name, key |-> s.key]
  /\ \A v \in Strays : IsCatalogName(EnvKey(v).name) => EnvKey(v).key \notin Asked

IsSecret(key) == key \in {Key["credential"], Key["token"], Key["secret"], Key["session"]}

Unusable == stage' = "failed" /\ UNCHANGED <<inputs, left, catalogs, warnings>>

\* `parse_file`: names are told apart without regard to case, and two that
\* differ in case only are an error; so is a name that is none.
Names(settings) == {s.name : s \in settings}
Parses ==
  /\ \A s \in file : IsCatalogName(s.name)
  /\ \A m, n \in Names(file) : Lower(m) = Lower(n) => m = n

\* `flatten`: keys are lowercased, and values of any kind are texts.
LowerKey(key) == [i \in DOMAIN key |-> Lower(key[i])]
Lines(settings, key) == {s \in settings : LowerKey(s.key) = key}
Flattened(settings) ==
  [k \in {LowerKey(s.key) : s \in settings} |-> (CHOOSE s \in Lines(settings, k) : TRUE).value]

\* A file that others may read, with a secret in it, is worth a warning.
ReadFile ==
  /\ stage = "file"
  /\ IF file = {} THEN stage' = "env" /\ UNCHANGED <<catalogs, warnings>>
     ELSE /\ Parses
          /\ catalogs' = [n \in {Lower(m) : m \in Names(file)} |->
                            Flattened({s \in file : Lower(s.name) = n})]
          /\ warnings' = IF readable /\ \E n \in DOMAIN catalogs' : \E k \in DOMAIN catalogs'[n] : IsSecret(k)
                         THEN {"permissions"} ELSE {}
          /\ stage' = "env"
  /\ UNCHANGED <<inputs, left>>
FileFails == stage = "file" /\ file # {} /\ ~Parses /\ Unusable

\* Mutant: a value of the file stays.
WithUnder(props, key, value) ==
  [k \in DOMAIN props \cup {key} |-> IF k \in DOMAIN props THEN props[k] ELSE value]

\* A value in the environment is over the file's, and an empty one removes it.
With(props, key, value) ==
  IF value = Empty THEN [k \in DOMAIN props \ {key} |-> props[k]]
  ELSE [k \in DOMAIN props \cup {key} |-> IF k = key THEN value ELSE props[k]]

\* `apply_env`, one variable: a catalog the file does not mention is defined.
ApplyVariable(v) ==
  LET set == EnvKey(v.var)
      props == IF set.name \in DOMAIN catalogs THEN catalogs[set.name] ELSE <<>>
  IN /\ v \in left /\ left' = left \ {v}
     /\ IF set = Nobodys THEN UNCHANGED catalogs
        ELSE /\ set.name \in DOMAIN catalogs \/ IsCatalogName(set.name)
             /\ catalogs' = [n \in DOMAIN catalogs \cup {set.name} |->
                          IF n = set.name THEN With(props, set.key, v.value) ELSE catalogs[n]]
     /\ UNCHANGED <<inputs, warnings, stage>>
VariableFails(v) ==
  /\ v \in left /\ EnvKey(v.var) # Nobodys
  /\ EnvKey(v.var).name \notin DOMAIN catalogs /\ ~IsCatalogName(EnvKey(v.var).name)
  /\ Unusable

\* A catalog that only removals have named configures nothing.
Retain ==
  /\ stage = "env" /\ left = {}
  /\ catalogs' = [n \in {m \in DOMAIN catalogs : catalogs[m] # <<>>} |-> catalogs[n]]
  /\ stage' = "check"
  /\ UNCHANGED <<inputs, left, warnings>>

\* `check_endpoint`: a login crosses no network in plaintext.
MaySend(uri) == uri \in {"https", "http to this machine"}

\* `validate`.
Valid(name) ==
  LET get(k) == Get(name, Key[k])
  IN /\ get("type") \in {Unset, "rest"}
     /\ MaySend(get("uri"))
     /\ get("oauth2-server-uri") = Unset \/ MaySend(get("oauth2-server-uri"))
     /\ get("token") = Unset \/ get("credential") = Unset
     /\ get("storage-fallback") \in {Unset, "ambient", "none"}

\* One catalog that cannot be used fails them all.  Keys that are not read and
\* variables that cannot be are told of.
Check ==
  /\ stage = "check" /\ \A n \in DOMAIN catalogs : Valid(n)
  /\ warnings' = warnings \cup {"unknown" : n \in {m \in DOMAIN catalogs : ~(DOMAIN catalogs[m] \subseteq KnownKeys)}}
                   \cup {"not UTF-8" : s \in garbled}
  /\ stage' = "loaded"
  /\ UNCHANGED <<inputs, left, catalogs>>
CheckFails == stage = "check" /\ (\E n \in DOMAIN catalogs : ~Valid(n)) /\ Unusable

SettingsNext ==
  \/ ReadFile \/ FileFails \/ Retain \/ Check \/ CheckFails
  \/ stage = "env" /\ \E v \in left : ApplyVariable(v) \/ VariableFails(v)

SettingsSpec == SettingsInit /\ [][SettingsNext]_settingsVars

-----------------------------------------------------------------------------
InFile(name, key) ==
  LET lines == {s \in Lines(file, key) : Lower(s.name) = name}
  IN IF lines = {} THEN Unset ELSE (CHOOSE s \in lines : TRUE).value

\* What an operator puts into the variable of a catalog's name and of a key is
\* what the catalog is used with, whatever the file says and in whatever order
\* the variables come: "A value in the environment wins over the file's value for
\* the same key, and an empty one removes it" (config.rs:20-21).  What no
\* variable sets is the file's.
EnvironmentWins ==
  stage = "loaded" =>
    \A name \in Names(Settings) \cup {Lower(n) : n \in Names(file)} :
      \A key \in Asked :
        LET set == {t \in wanted \ garbled : t.name = name /\ t.key = key}
        IN Get(name, key) = IF set = {} THEN InFile(name, key)
                            ELSE LET t == CHOOSE t \in set : TRUE
                                 IN IF t.value = Empty THEN Unset ELSE t.value
=============================================================================
