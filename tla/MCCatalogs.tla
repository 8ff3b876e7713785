------------------------------ MODULE MCCatalogs ------------------------------
(***************************************************************************)
(* The parts that talk to catalogs and stores, each on its own: `part`     *)
(* says which one a behaviour is about, and the others stay as they are.   *)
(*   login      CatalogLogin: two calls, and every token they can ask for  *)
(*   browse     CatalogBrowse: two catalogs' worth of names, listed in     *)
(*              every way a catalog may page                               *)
(*   settings   CatalogSettings: a file, and two settings over it          *)
(*   objects    ObjectReads: two readers of an object that is replaced     *)
(*   session    McpSession: a client that may hang up, every kind of line,  *)
(*              and a call that may never return                           *)
(***************************************************************************)
EXTENDS CatalogLogin, ObjectReads, CatalogSettings, TLC

CONSTANTS c1, c2, i1, i2, null

VARIABLES
  part,
  style, tree, changed, known, call, page, listing, opened, spell, steps,
  inbox, unclosed, listening, phase, accepting, toolCall, running, asked, answers, withdrawn

In == INSTANCE MCCatalogInputs
Browse == INSTANCE CatalogBrowse WITH
  Catalogs <- In!CatalogsThere, Trees <- In!Trees, Additions <- In!Additions,
  Withheld <- In!Withheld, PlannedThere <- In!PlannedThere, Typed <- In!Typed,
  Styles <- {"pages", "whole", "stuck", "endless", "deep", "flat"}, ListCap <- 3, MaxPages <- 4, MaxSteps <- 3

MCKey == In!KeyOfName
MCFiles == In!SettingsFiles
MCSettings == In!SettingsThere
MCStrays == In!StraysThere
ASSUME SettingsAreSpelled == SettingsAssumption

MCOptions == In!ReaderOptions
Session == INSTANCE McpSession WITH
  reading <- unclosed, open <- accepting, call <- toolCall, Ids <- {i1, i2}, NullId <- null,
  Methods <- {"tools/call", "notifications/cancelled", "badId", "blank"},
  MaxRequests <- 2, MaxInbox <- 1, MaxRunning <- 1, Patience <- 1, MayHangUp <- TRUE

loginVars == vars
walkVars == <<style, tree, changed, known, call, page, listing, opened, spell, steps>>
sessionVars == <<inbox, unclosed, listening, phase, accepting, toolCall, running, asked, answers, withdrawn>>

\* What a part is like while another is looked at.  No call is under way.
BrowseParked ==
  /\ style = {} /\ tree = {} /\ changed = {} /\ known = {} /\ call = {} /\ page = {} /\ listing = {}
  /\ opened = {} /\ spell = {} /\ steps = {}
SettingsParked ==
  /\ file = {} /\ readable = FALSE /\ wanted = {} /\ garbled = {} /\ left = {}
  /\ catalogs = <<>> /\ warnings = {} /\ stage = "file"
ObjectsParked == ObjectInit /\ \A r \in Readers : reading[r] = NotReading(CHOOSE o \in Options : TRUE)
SessionParked ==
  /\ inbox = <<>> /\ unclosed = FALSE /\ listening = FALSE /\ phase = "exited" /\ accepting = FALSE /\ toolCall = <<>>
  /\ running = 0 /\ asked = <<>> /\ answers = [n \in 1 .. 2 |-> <<>>] /\ withdrawn = {}

CatalogsInit ==
  \/ /\ part = "login" /\ Init
     /\ BrowseParked /\ SettingsParked /\ ObjectsParked /\ SessionParked
  \/ /\ part = "browse" /\ Browse!WalkInit
     /\ Init /\ SettingsParked /\ ObjectsParked /\ SessionParked
  \/ /\ part = "settings" /\ SettingsInit
     /\ Init /\ BrowseParked /\ ObjectsParked /\ SessionParked
  \/ /\ part = "objects" /\ ObjectInit
     /\ Init /\ BrowseParked /\ SettingsParked /\ SessionParked
  \/ /\ part = "session" /\ Session!Init
     /\ Init /\ BrowseParked /\ SettingsParked /\ ObjectsParked

CatalogsNext ==
  \/ /\ part = "login" /\ Next
     /\ UNCHANGED <<part, walkVars, settingsVars, objectVars, sessionVars>>
  \/ /\ part = "browse" /\ Browse!WalkNext
     /\ UNCHANGED <<part, loginVars, settingsVars, objectVars, sessionVars>>
  \/ /\ part = "settings" /\ SettingsNext
     /\ UNCHANGED <<part, loginVars, walkVars, objectVars, sessionVars>>
  \/ /\ part = "objects" /\ ObjectNext
     /\ UNCHANGED <<part, loginVars, walkVars, settingsVars, sessionVars>>
  \/ /\ part = "session" /\ Session!Next
     /\ UNCHANGED <<part, loginVars, walkVars, settingsVars, objectVars>>

allVars == <<part, loginVars, walkVars, settingsVars, objectVars, sessionVars>>

\* A call of the catalog that has started goes on, and so does a read: an exchange
\* and a request end at their deadlines at the latest.  The session's loop runs, and
\* time passes in it.  (A behaviour is about one part, so that one condition serves
\* for a step of each.)
First ==
  \/ part = "login" /\ Step(c1) /\ UNCHANGED <<walkVars, settingsVars, objectVars, sessionVars>>
  \/ part = "objects" /\ ReadStep(1) /\ UNCHANGED <<loginVars, walkVars, settingsVars, sessionVars>>
  \/ part = "session" /\ Session!Loop /\ UNCHANGED <<loginVars, walkVars, settingsVars, objectVars>>
Second ==
  \/ part = "login" /\ Step(c2) /\ UNCHANGED <<walkVars, settingsVars, objectVars, sessionVars>>
  \/ part = "objects" /\ ReadStep(2) /\ UNCHANGED <<loginVars, walkVars, settingsVars, sessionVars>>
  \/ part = "session" /\ Session!Tick /\ UNCHANGED <<loginVars, walkVars, settingsVars, objectVars>>

CatalogsSpec ==
  /\ CatalogsInit /\ [][CatalogsNext]_allVars
  /\ WF_allVars(part' = part /\ First) /\ WF_allVars(part' = part /\ Second)

\* What the module of each part that is not extended states of it.
BrowseIsTrue == part = "browse" => Browse!BrowseIsTrue

\* Whatever is refused, expires or times out, every call and every read ends.
CallsEnd == EveryCallEnds /\ \A r \in Readers : ReadEnds(r)

\* Every request is answered or withdrawn, and a session whose client is done ends.
SessionSettles == part = "session" => Session!SessionSettles
=============================================================================
