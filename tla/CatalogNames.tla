----------------------------- MODULE CatalogNames -----------------------------
(***************************************************************************)
(* `catalog://` references (src/src/catalog/reference.rs) and the names of *)
(* the variables that configure a catalog (src/src/catalog/config.rs).     *)
(*                                                                         *)
(* A text is a sequence of ASCII codes.  A reference is written here       *)
(* without its scheme, `catalog://`.                                       *)
(***************************************************************************)
EXTENDS Integers, Sequences, SequencesExt

Slash == 47
Percent == 37
AtSign == 64
Dash == 45
Underscore == 95
Dot == 46
Plus == 43

Digits == 48..57
Uppers == 65..90
Lowers == 97..122
Alphanumeric == Digits \cup Uppers \cup Lowers
Control == (0..31) \cup {127}

Lower(text) == [i \in DOMAIN text |-> IF text[i] \in Uppers THEN text[i] + 32 ELSE text[i]]
Upper(text) == [i \in DOMAIN text |-> IF text[i] \in Lowers THEN text[i] - 32 ELSE text[i]]
Replaced(text, this, that) == [i \in DOMAIN text |-> IF text[i] = this THEN that ELSE text[i]]

\* `split`: the pieces between separators, of which there is always one.
SplitAt(text, separator) ==
  FoldLeft(LAMBDA pieces, c : IF c = separator THEN Append(pieces, <<>>)
                              ELSE [pieces EXCEPT ![Len(pieces)] = Append(@, c)],
           <<<<>>>>, text)

Joined(pieces, separator) ==
  FoldLeft(LAMBDA text, piece : text \o separator \o piece,
           IF pieces = <<>> THEN <<>> ELSE Head(pieces),
           IF pieces = <<>> THEN <<>> ELSE Tail(pieces))

IsCatalogName(name) ==
  /\ Len(name) \in 1..63
  /\ Head(name) \in Alphanumeric
  /\ \A i \in DOMAIN name : name[i] \in Alphanumeric \cup {Dash}

HexDigit(n) == IF n < 10 THEN 48 + n ELSE 55 + n
Escape(c) == <<Percent, HexDigit(c \div 16), HexDigit(c % 16)>>

Encode(segment) ==
  FlattenSeq([i \in DOMAIN segment |->
    IF segment[i] \in {Percent, Slash, AtSign} \cup Control THEN Escape(segment[i])
    ELSE <<segment[i]>>])

\* The value of a digit, and of two; a sign before a digit is a number to the
\* parser.  No text has a byte below zero or above 127.
Bad == -1
Nibble(c) ==
  CASE c \in Digits -> c - 48
    [] c \in 65..70 -> c - 55
    [] c \in 97..102 -> c - 87
    [] OTHER -> Bad
Byte(high, low) ==
  LET value == IF high = Plus THEN Nibble(low) ELSE 16 * Nibble(high) + Nibble(low)
  IN IF Nibble(low) = Bad \/ (high # Plus /\ Nibble(high) = Bad) \/ value > 127 THEN Bad ELSE value

\* What is decoded, and the escape that is being read; a text that ends inside
\* one, or holds a bad one, is refused.
DecodeNext(read, c) ==
  CASE read.escape = <<>> /\ c # Percent -> [read EXCEPT !.text = Append(@, c)]
    [] read.escape = <<>> /\ c = Percent -> [read EXCEPT !.escape = <<c>>]
    [] Len(read.escape) = 1 -> [read EXCEPT !.escape = Append(@, c)]
    [] OTHER -> [text |-> Append(read.text, Byte(read.escape[2], c)), escape |-> <<>>]
Decode(segment) ==
  LET read == FoldLeft(DecodeNext, [text |-> <<>>, escape |-> <<>>], segment)
  IN IF read.escape = <<>> THEN read.text ELSE <<Bad>>
Decodes(segment) == ~Contains(Decode(segment), Bad)

\* A reference: no catalog names every one, no table names a namespace.
NoName == <<>>
Ref(catalog, namespace, table) == [catalog |-> catalog, namespace |-> namespace, table |-> table]
Root == Ref(NoName, <<>>, NoName)
Refused == Ref(<<Bad>>, <<>>, NoName)

Parse(text) ==
  LET namesNamespace == text # <<>> /\ Last(text) = Slash
      all == SplitAt(text, Slash)
      segments == IF namesNamespace THEN Front(all) ELSE all
      levels == Tail(segments)
      decoded == [i \in DOMAIN levels |-> Decode(levels[i])]
      readable == \A i \in DOMAIN levels :
                    levels[i] # <<>> /\ ~Contains(levels[i], AtSign) /\ Decodes(levels[i])
  IN CASE text = <<>> -> Root
       [] text # <<>> /\ (~IsCatalogName(Head(segments)) \/ ~readable) -> Refused
       [] OTHER ->
            IF namesNamespace \/ levels = <<>> THEN Ref(Lower(Head(segments)), decoded, NoName)
            ELSE Ref(Lower(Head(segments)), Front(decoded), Last(decoded))

Show(ref) ==
  IF ref.catalog = NoName THEN <<>>
  ELSE ref.catalog \o <<Slash>>
         \o FlattenSeq([i \in DOMAIN ref.namespace |-> Encode(ref.namespace[i]) \o <<Slash>>])
         \o Encode(ref.table)

AsNamespace(ref) ==
  Ref(ref.catalog, IF ref.table = NoName THEN ref.namespace ELSE Append(ref.namespace, ref.table), NoName)
ChildNamespace(ref, level) ==
  LET of == AsNamespace(ref) IN [of EXCEPT !.namespace = Append(@, level)]
ChildTable(ref, name) == [AsNamespace(ref) EXCEPT !.table = name]

\* What a reference is listed under; nothing, for the catalogs themselves.
Parent(ref) ==
  CASE ref.table # NoName -> [ref EXCEPT !.table = NoName]
    [] ref.table = NoName /\ ref.catalog = NoName -> Refused
    [] ref.table = NoName /\ ref.catalog # NoName /\ ref.namespace = <<>> -> Root
    [] OTHER -> [ref EXCEPT !.namespace = Front(@)]

-----------------------------------------------------------------------------
\* The name and the key a variable sets, after its prefix: `__` separates, and a
\* single `_` stands for `-`.
SplitDouble(text) ==
  FoldLeft(LAMBDA pieces, c :
             LET last == Last(pieces)
             IN IF c = Underscore /\ last.half
                THEN Append(Front(pieces), [text |-> Front(last.text), half |-> FALSE])
                       \o <<[text |-> <<>>, half |-> FALSE]>>
                ELSE Append(Front(pieces), [text |-> Append(last.text, c), half |-> c = Underscore]),
           <<[text |-> <<>>, half |-> FALSE]>>, text)

\* A variable with no name, no key or an empty part of a key is nobody's.
Nobodys == [name |-> <<>>, key |-> <<>>]
EnvKey(var) ==
  LET pieces == SplitDouble(var)
      named(i) == Replaced(Lower(pieces[i].text), Underscore, Dash)
  IN IF Len(pieces) = 1 \/ \E i \in DOMAIN pieces : pieces[i].text = <<>> THEN Nobodys
     ELSE [name |-> named(1), key |-> [i \in 1..(Len(pieces) - 1) |-> named(i + 1)]]

EnvVar(name, key) ==
  Joined([i \in 1..(Len(key) + 1) |->
            Upper(Replaced(IF i = 1 THEN name ELSE key[i - 1], Dash, Underscore))],
         <<Underscore, Underscore>>)
=============================================================================
