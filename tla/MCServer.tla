------------------------------- MODULE MCServer -------------------------------
(***************************************************************************)
(* The server, what its requests are resolved by, and its grid, each alone:*)
(* `part` says which one a behaviour is about, and the others stay as they *)
(* are.                                                                    *)
(*   server   QueryServer: one request of every kind, next to two programs *)
(*            that embed the database engine, a cache of one pool          *)
(*   place    Locations: every kind of place, listed and opened            *)
(*   windows  GridWindows: a grid of three queries, two of one table       *)
(***************************************************************************)
EXTENDS QueryServer, GridWindows, Locations

CONSTANTS r1, e1, e2

VARIABLE part

MCEntry == [file |-> [kind |-> "file", in |-> TRUE], table |-> [kind |-> "delta", in |-> TRUE],
            away |-> [kind |-> "file", in |-> FALSE], database |-> [kind |-> "database", in |-> FALSE]]

Wish(endpoint, paths) ==
  [endpoint |-> endpoint, token |-> "right", inQuery |-> FALSE, paths |-> paths, limit |-> 1,
   limited |-> FALSE, sql |-> TRUE, plain |-> FALSE, stream |-> FALSE, arrow |-> TRUE]

MCWishes ==
  {Wish("schema", <<"table">>), Wish("preview", <<"away">>), Wish("rows", <<"file">>),
   Wish("query", <<"file", "table">>), Wish("run", <<"file">>), Wish("query", <<>>),
   Wish("workspaces", <<>>),
   [Wish("page", <<>>) EXCEPT !.token = "none"], [Wish("engines", <<>>) EXCEPT !.inQuery = TRUE],
   [Wish("query", <<"file">>) EXCEPT !.stream = TRUE, !.limited = TRUE, !.limit = 3],
   [Wish("query", <<"database">>) EXCEPT !.stream = TRUE], Wish("list", <<"database">>)}

MCServers ==
  {[token |-> TRUE, root |-> TRUE, loopback |-> FALSE, sql |-> TRUE, database |-> FALSE],
   [token |-> FALSE, root |-> FALSE, loopback |-> TRUE, sql |-> FALSE, database |-> TRUE]}

MCEmbeddedAsks ==
  {[AskOf(Wish("preview", <<"database">>)) EXCEPT !.credentials = "own"],
   [AskOf(Wish("query", <<"database">>)) EXCEPT !.scheme = "sqlite", !.cap = 0]}

In == INSTANCE MCCatalogInputs
MCWorlds == In!PlaceWorlds
MCMarkers == In!PlaceMarkers
MCElsewhere == In!PlacesElsewhere
Seen == INSTANCE MCInputs
MCQueries == Seen!GridQueries
MCRanges == Seen!GridRanges

serverVars == vars

\* What a part is like while another is looked at.  No request has arrived.
ServerParked == Init /\ server = CHOOSE s \in Servers : TRUE
PlaceParked ==
  posture = "never" /\ world = {} /\ vended = FALSE /\ listed = NotListed /\ answer = NotAsked /\ sent = {}

PartsInit ==
  \/ part = "server" /\ Init /\ PlaceParked /\ WindowsInit
  \/ part = "place" /\ ServerParked /\ LocationsInit /\ WindowsInit
  \/ part = "windows" /\ ServerParked /\ PlaceParked /\ WindowsInit

PartsNext ==
  \/ part = "server" /\ Next /\ UNCHANGED <<part, placeVars, windowVars>>
  \/ part = "place" /\ LocationsNext /\ UNCHANGED <<part, serverVars, windowVars>>
  \/ part = "windows" /\ WindowsNext /\ UNCHANGED <<part, serverVars, placeVars>>

PartsSpec == PartsInit /\ [][PartsNext]_<<part, serverVars, placeVars, windowVars>> /\ Fairness
===============================================================================
