---------------------------- MODULE CatalogBrowse ----------------------------
(***************************************************************************)
(* Walking a REST catalog: a name is read, its namespaces and tables are   *)
(* listed page by page, an entry of the listing is walked into or opened   *)
(* (src/src/catalog/registry.rs, and the listings of catalog/rest.rs).     *)
(*                                                                         *)
(* Between any two requests the catalog may gain or lose a namespace or a  *)
(* table.  How it pages is its own affair: `style` says which of the ways  *)
(* that are seen in the field it has.                                      *)
(*   pages     one entry at a time, and no token with the last             *)
(*   whole     everything at once, whatever was asked                      *)
(*   stuck     as `pages`, and answers the token it was sent at the end    *)
(*   endless   as `pages`, and always answers with a new token             *)
(*   deep      as `whole`, nested namespaces among the top-level ones      *)
(*   flat      as `whole`, the top-level namespaces under every parent     *)
(***************************************************************************)
EXTENDS CatalogNames

CONSTANTS
  Catalogs,     \* the configured catalogs' names; the first one is browsed
  Trees,        \* what a catalog may hold at first: {[kind, path]}, a path a sequence of names
  Additions,    \* what others may create
  Withheld,     \* tables with restrictions a reader has to apply
  PlannedThere, \* tables whose scans the catalog plans itself
  Typed,        \* references a user may type
  Styles,
  ListCap,      \* LIST_CAP
  MaxPages,     \* MAX_PAGES
  MaxSteps      \* bound: listings and openings of one walk

VARIABLES
  style,
  tree,      \* what the catalog holds
  changed,   \* others have changed it
  known,     \* the client has read the catalog's configuration
  call,      \* the listing or the opening under way
  page,      \* its paging: the token, the names taken, and what has been counted
  listing,   \* what the browser shows
  opened,    \* what opening a table has answered
  spell,     \* history: what was there all the time of a call, and at some time of it
  steps      \* taken

walkVars == <<style, tree, changed, known, call, page, listing, opened, spell, steps>>

ns == "namespace"
tb == "table"

EmptyToken == [sent |-> {}, serial |-> 0]
NoPage == [token |-> EmptyToken, names |-> <<>>, seen |-> 0, pages |-> 0, more |-> FALSE]
NoCall == [at |-> "idle", ref |-> Root]
NoListing == [of |-> Refused, entries |-> {}, truncated |-> FALSE, capped |-> FALSE]
NotOpened == [answer |-> "none", path |-> <<>>]

TreeIsSound(t) ==
  \A e \in t : Len(e.path) > 1 => [kind |-> ns, path |-> Front(e.path)] \in t

WalkInit ==
  /\ style \in Styles /\ tree \in Trees /\ changed = FALSE /\ known = FALSE
  /\ call = NoCall /\ page = NoPage /\ listing = NoListing /\ opened = NotOpened
  /\ spell = [always |-> {}, ever |-> {}] /\ steps = 0

-----------------------------------------------------------------------------
\* The catalog.

Child(entry, kind, path) == entry.kind = kind /\ entry.path # <<>> /\ Front(entry.path) = path

\* What a listing of a kind under a path is about, as full paths.
Listed(kind, path) ==
  CASE kind = ns /\ style = "flat" -> {e.path : e \in {f \in tree : f.kind = ns /\ Len(f.path) = 1}}
    [] kind = ns /\ style = "deep" /\ path = <<>> -> {e.path : e \in {f \in tree : f.kind = ns}}
    [] OTHER -> {e.path : e \in {f \in tree : Child(f, kind, path)}}

\* The answer to a token: the entries of a page, in the catalog's order, and
\* the next token.
Pages(kind, path, token) ==
  LET left == Listed(kind, path) \ token.sent
      fresh == [sent |-> token.sent, serial |-> token.serial + 1]
      end == CASE style = "stuck" -> token [] style = "endless" -> fresh [] OTHER -> EmptyToken
  IN IF style \in {"whole", "deep", "flat"}
     THEN {[items |-> items, next |-> EmptyToken] : items \in SetToSeqs(Listed(kind, path))}
     ELSE IF left = {} THEN {[items |-> <<>>, next |-> end]}
     ELSE {[items |-> <<one>>,
            next |-> IF left = {one} THEN end
                     ELSE [sent |-> token.sent \cup {one}, serial |-> token.serial + 1]] :
             one \in left}

\* Others create a namespace or a table, or drop one that is empty.
Change ==
  /\ ~changed /\ changed' = TRUE
  /\ tree' \in {tree \cup {e} : e \in Additions} \cup {tree \ {e} : e \in tree}
  /\ TreeIsSound(tree')
  /\ spell' = [always |-> spell.always \cap tree', ever |-> spell.ever \cup tree']
  /\ UNCHANGED <<style, known, call, page, listing, opened, steps>>

-----------------------------------------------------------------------------
\* The client.

Path(ref) == AsNamespace(ref).namespace

\* A call begins with the text of a reference: it fails at once, is answered at
\* once, or goes to the catalog.
Begin == steps < MaxSteps /\ call.at = "idle" /\ steps' = steps + 1 /\ opened' = NotOpened
Known(ref) == ref # Refused /\ (ref.catalog = NoName \/ Contains(Catalogs, ref.catalog))
Send(at, ref) ==
  /\ call' = [at |-> at, ref |-> ref]
  /\ page' = NoPage
  /\ spell' = [always |-> tree, ever |-> tree]
Stay == UNCHANGED <<style, tree, changed, known>>

\* `list`: `catalog://` lists the configured catalogs; a reference to a table
\* lists the namespace of that name.
ListText(text) ==
  Begin /\ \E ref \in {Parse(text)} :
     /\ \/ /\ ~Known(ref)
           /\ listing' = NoListing
           /\ UNCHANGED <<call, page, spell>>
        \/ /\ ref = Root
           /\ listing' = [NoListing EXCEPT !.of = Root, !.entries =
                {[name |-> n, kind |-> ns, path |-> n \o <<Slash>>] : n \in ToSet(Catalogs)}]
           /\ UNCHANGED <<call, page, spell>>
        \/ /\ Known(ref) /\ ref.catalog = Head(Catalogs)
           /\ Send(ns, AsNamespace(ref))
           /\ listing' = [NoListing EXCEPT !.of = AsNamespace(ref)]
     /\ Stay

\* `load_table`.
OpenText(text) ==
  /\ steps < MaxSteps /\ call.at = "idle" /\ steps' = steps + 1
  /\ \E ref \in {Parse(text)} :
     /\ \/ /\ ~Known(ref)
           /\ opened' = [answer |-> "refused", path |-> <<>>]
           /\ UNCHANGED <<call, page, spell>>
        \/ /\ Known(ref) /\ (ref.table = NoName \/ ref.namespace = <<>>)
           /\ opened' = [answer |-> "no table's name", path |-> Path(ref)]
           /\ UNCHANGED <<call, page, spell>>
        \/ /\ Known(ref) /\ ref.table # NoName /\ ref.namespace # <<>> /\ ref.catalog = Head(Catalogs)
           /\ Send("load", ref)
           /\ opened' = NotOpened
     /\ UNCHANGED listing
     /\ Stay

\* `server_config`: the first request of a client asks for the configuration.
FetchConfig ==
  /\ call.at # "idle" /\ ~known
  /\ known' = TRUE
  /\ UNCHANGED <<style, tree, changed, call, page, listing, opened, spell, steps>>

Answer(answer) ==
  /\ opened' = [answer |-> answer, path |-> Path(call.ref)]
  /\ call' = NoCall
  /\ UNCHANGED <<page, listing>>

\* A request that is refused, has no answer in time, or one that makes no sense:
\* the call fails as a whole.  (`namespace_exists` fails without an answer only.)
FailRequest ==
  /\ call.at # "idle"
  /\ call' = NoCall /\ page' = NoPage
  /\ listing' = IF call.at \in {"load", "exists"} THEN listing ELSE NoListing
  /\ opened' = IF call.at \in {"load", "exists"} THEN [answer |-> "failed", path |-> <<>>] ELSE opened
  /\ UNCHANGED <<style, tree, changed, known, spell, steps>>

\* What is sent is a full path: what is not under the parent is skipped.
UnderParent(levels, path) == Len(path) > Len(levels) /\ SubSeq(path, 1, Len(levels)) = levels

\* `namespaces` takes the level right under the parent, once; `tables` takes all.
Taken(names, path) ==
  LET levels == call.ref.namespace
  IN CASE call.at = tb -> Append(names, Last(path))
       [] call.at = ns /\ UnderParent(levels, path) ->
            IF Contains(names, path[Len(levels) + 1]) THEN names
            ELSE Append(names, path[Len(levels) + 1])
       [] OTHER -> names

\* Mutant: the pages end at the cap as they do at the last one.
EndsAtCap(p) ==
  p.next = EmptyToken \/ p.next = page.token \/ page.seen + Len(p.items) >= ListCap
\* `paged`: no token, or the one that was sent, is the end.
Ends(p) == p.next = EmptyToken \/ p.next = page.token

\* A page is read; the listing goes on unless it has ended or reached a cap.
TakePage ==
  /\ call.at \in {ns, tb} /\ known
  /\ \E p \in Pages(call.at, call.ref.namespace, page.token) :
       LET seen == page.seen + Len(p.items)
           cut == ~Ends(p) /\ (seen >= ListCap \/ page.pages + 1 = MaxPages)
       IN /\ page' = [token |-> p.next, names |-> FoldLeft(Taken, page.names, p.items),
                      seen |-> seen, pages |-> page.pages + 1, more |-> cut]
          /\ call' = [call EXCEPT !.at = IF ~Ends(p) /\ ~cut THEN @
                                         ELSE IF @ = ns THEN "namespaces" ELSE "tables"]
  /\ UNCHANGED <<style, tree, changed, known, listing, opened, spell, steps>>

\* `Names::capped`.
WithinCap(names) == SubSeq(names, 1, Min({Len(names), ListCap}))

Entry(name, kind) ==
  [name |-> name, kind |-> kind,
   path |-> Show(IF kind = ns THEN ChildNamespace(call.ref, name) ELSE ChildTable(call.ref, name))]

\* The names of one kind are there, as many as there will be.  A catalog keeps
\* its tables in namespaces, so it is not asked for its own.
Collect ==
  /\ call.at \in {"namespaces", "tables"}
  /\ LET kind == IF call.at = "namespaces" THEN ns ELSE tb
     IN /\ listing' =
             [listing EXCEPT
                !.entries = @ \cup {Entry(n, kind) : n \in ToSet(WithinCap(page.names))},
                !.truncated = @ \/ page.more \/ Len(page.names) > ListCap,
                !.capped = @ \/ page.seen >= ListCap \/ page.pages = MaxPages]
        /\ call' = IF kind = ns /\ call.ref.namespace # <<>> THEN [call EXCEPT !.at = tb] ELSE NoCall
        /\ page' = NoPage
  /\ UNCHANGED <<style, tree, changed, known, opened, spell, steps>>

\* `load_table`'s answer.  A table that is not there may be a namespace, which is
\* asked for on its own; a missing namespace is an error that says so, if the
\* catalog says what is missing.
LoadTable ==
  LET path == Path(call.ref)
  IN /\ call.at = "load" /\ known
     /\ \/ /\ [kind |-> tb, path |-> path] \in tree
           /\ Answer(CASE path \in PlannedThere -> "unsupported"
                       [] path \in Withheld \ PlannedThere -> "forbidden"
                       [] OTHER -> "loaded")
        \/ /\ [kind |-> ns, path |-> Front(path)] \notin tree
           /\ Answer("no namespace")
        \/ /\ [kind |-> tb, path |-> path] \notin tree
           /\ call' = [call EXCEPT !.at = "exists"]
           /\ UNCHANGED <<page, listing, opened>>
     /\ UNCHANGED <<style, tree, changed, known, spell, steps>>

\* Any answer that is no success, a refusal or an error of the catalog as much
\* as "no such namespace", says that there is none.
NamespaceExists ==
  /\ call.at = "exists"
  /\ \/ [kind |-> ns, path |-> Path(call.ref)] \in tree /\ Answer("namespace")
     \/ Answer("no table")
  /\ UNCHANGED <<style, tree, changed, known, spell, steps>>

\* The user types a reference, walks into an entry or up, or opens one.
Type == \E text \in Typed : ListText(text) \/ OpenText(text)
Walk == \E e \in listing.entries : e.kind = ns /\ call.at = "idle" /\ ListText(e.path)
Up == Parent(listing.of) # Refused /\ listing.of # Refused /\ ListText(Show(Parent(listing.of)))
Open == \E e \in listing.entries : e.kind = tb /\ OpenText(e.path)

WalkNext ==
  \/ Change \/ FetchConfig \/ FailRequest \/ TakePage \/ Collect \/ LoadTable \/ NamespaceExists
  \/ Type \/ Walk \/ Up \/ Open

-----------------------------------------------------------------------------
\* What the entries shown lead to, by the catalog's own paths.
Shown ==
  {[kind |-> IF ref.table = NoName THEN ns ELSE tb, path |-> Path(ref)] :
     ref \in {Parse(e.path) : e \in listing.entries}}
Within(entries) ==
  {e \in entries : Child(e, ns, listing.of.namespace) \/ Child(e, tb, listing.of.namespace)}

\* A listing that is over shows children of what was asked for and no others,
\* each under a path that leads there; it shows all that were there while it was
\* made, or says that it was cut short, which it says at a cap only.
ListingIsWhole ==
  listing.of \notin {Refused, Root} /\ call = NoCall /\ opened = NotOpened =>
    /\ Shown \subseteq spell.ever
    /\ Shown = Within(Shown)
    /\ listing.truncated \/ style = "flat" \/ Within(spell.always) \subseteq Shown
    /\ listing.truncated => listing.capped

\* What opening a table says of it was so while it was asked.  That there is no
\* table says nothing of a namespace by that name: the catalog may have failed to
\* answer for one that is there.
OpenedIsThere ==
  LET is(kind, when) == [kind |-> kind, path |-> opened.path] \in when
  IN CASE opened.answer = "loaded" -> is(tb, spell.ever) /\ opened.path \notin Withheld \cup PlannedThere
       [] opened.answer = "namespace" -> is(ns, spell.ever)
       [] opened.answer \in {"no table", "no namespace"} -> ~is(tb, spell.always)
       [] OTHER -> TRUE

\* Browsing shows and opens what the catalog holds under the names it shows
\* ("Every entry's `path` is a name this catalog accepts back", mod.rs:63).
BrowseIsTrue == ListingIsWhole /\ OpenedIsThere
=============================================================================
