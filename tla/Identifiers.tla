----------------------------- MODULE Identifiers -----------------------------
(****************************************************************************)
(* Names of portnames and of discovery instances in the forms they are      *)
(* written in, in two sections.                                             *)
(****************************************************************************)
EXTENDS Naturals, Sequences, SequencesExt, Functions

-----------------------------------------------------------------------------
(***************************************************************************)
(* Names as the runtime normalises them: slugs (lib/runtime/src/slug.rs)    *)
(* and the ids of portnames, which arrive as paths or URLs and leave as     *)
(* both (lib/runtime/src/protocols.rs).                                     *)
(*                                                                         *)
(* A text is a sequence of symbols: "a" a letter of a slug, "A" its capital,*)
(* "@" a character no slug has, "pgd:" the scheme's letters, and "NS", "C", *)
(* "E" the default names.                                                   *)
(***************************************************************************)
CONSTANTS Fragments,   \* short texts a name is put together from
          MaxParts     \* of a name

VARIABLES text, parts

nameVars == <<text, parts>>

-----------------------------------------------------------------------------
(* Slugs                                                                      *)

IsSlugChar(c) == c \in {"a", "-", "_"}
IsUniqueSlugChar(c) == c \in {"a", "_"}

Lower(c) == IF c = "A" THEN "a" ELSE c
\* sanitize_with: lower case, and what is not kept becomes an underscore
Sanitized(s, kept) == [i \in DOMAIN s |-> IF Lower(s[i]) \in kept THEN Lower(s[i]) ELSE "_"]

\* Slug::new: leading underscores go
SlugNew(s) ==
  LET firsts == {i \in DOMAIN s : s[i] # "_"}
  IN  IF firsts = {} THEN <<>> ELSE SubSeq(s, CHOOSE i \in firsts : \A j \in firsts : i <= j, Len(s))

Slugify(s) == SlugNew(Sanitized(s, {"a", "-", "_"}))

\* slugify_unique: the name without dashes and the hash of the text as it was;
\* the hash (blake3) tells texts apart and starts with no underscore.
SlugifyUnique(s) == [name |-> SlugNew(Append(Sanitized(s, {"a", "_"}), "_")), hash |-> s]

\* Mutant of TryFromAccepts: the stricter set of the unique slugs
TryFromUnique(s) == \A i \in DOMAIN s : IsUniqueSlugChar(s[i])
\* try_from and deserialize take a slug as it stands
TryFromAccepts(s) == \A i \in DOMAIN s : IsSlugChar(s[i])

-----------------------------------------------------------------------------
(* Portname ids                                                               *)

Scheme == <<"pgd:", "/", "/">>

Trimmed(s) ==
  LET inner == {i \in DOMAIN s : s[i] \notin {" ", "/", "."}}
  IN  IF inner = {} THEN <<>>
      ELSE SubSeq(s, CHOOSE i \in inner : \A j \in inner : i <= j,
                     CHOOSE i \in inner : \A j \in inner : i >= j)

\* the pieces between dots and slashes
Pieces(s) ==
  FoldLeft(LAMBDA acc, c : IF c \in {".", "/"} THEN Append(acc, <<>>)
                           ELSE [acc EXCEPT ![Len(acc)] = Append(@, c)], << <<>> >>, s)

\* Mutant of ParsePortnameSegments: a URL is taken as a path
ParseWithScheme(s) == SelectSeq(Pieces(Trimmed(s)), LAMBDA p : p # <<>>)

\* parse_portname_segments: the scheme is looked for before anything is trimmed
ParsePortnameSegments(s) ==
  LET rest == IF IsPrefix(Scheme, s) THEN SubSeq(s, Len(Scheme) + 1, Len(s)) ELSE s
  IN  SelectSeq(Pieces(Trimmed(rest)), LAMBDA p : p # <<>>)

Joined(names, sep) ==
  FoldLeft(LAMBDA acc, p : acc \o <<sep>> \o p, Head(names), Tail(names))

Id(namespace, servicegroup, name) == <<namespace, servicegroup, name>>
DefaultId == Id(<<"NS">>, <<"C">>, <<"E">>)

\* From<&str>: one segment is the service group, more than three join into the name
PortNameIdFrom(s) ==
  LET seg == ParsePortnameSegments(s)
  IN  CASE Len(seg) = 0 -> DefaultId
        [] Len(seg) = 1 -> Id(<<"NS">>, seg[1], <<"E">>)
        [] Len(seg) = 2 -> Id(seg[1], seg[2], <<"E">>)
        [] OTHER -> Id(seg[1], seg[2], Joined(SubSeq(seg, 3, Len(seg)), "_"))

Display(id) == Joined(id, "/")
AsUrl(id) == Scheme \o Joined(id, ".")

-----------------------------------------------------------------------------
NameInit == text = <<>> /\ parts = 0
Type(f) == parts < MaxParts /\ parts' = parts + 1 /\ text' = text \o f
NameNext == \E f \in Fragments : Type(f)
NameSpec == NameInit /\ [][NameNext]_nameVars

-----------------------------------------------------------------------------
\* An id means the same wherever it is written down and read again: as the path
\* that Display writes and as the URL of as_url, however the name was typed first.
SameId ==
  LET id == PortNameIdFrom(text)
  IN  PortNameIdFrom(Display(id)) = id /\ PortNameIdFrom(AsUrl(id)) = id

\* A slug stays what it is: slugify changes it no more, and deserialising accepts
\* it.  The name part of a unique slug is a slug too.
SlugsStay ==
  LET slug == Slugify(text)
  IN  /\ Slugify(slug) = slug /\ TryFromAccepts(slug)
      /\ TryFromAccepts(SlugifyUnique(text).name)

-----------------------------------------------------------------------------
(***************************************************************************)
(* The ids of discovery and the document a worker publishes about itself:   *)
(* the instance ids of lib/runtime/src/discovery/mod.rs with their paths,   *)
(* and DiscoveryMetadata of discovery/metadata.rs, which keeps what is      *)
(* registered under those paths.                                            *)
(*                                                                         *)
(* A name is a sequence of symbols; an id is [kind, namespace, group, name, *)
(* number, suffix], with "none" for no model suffix.                        *)
(***************************************************************************)
CONSTANTS Known,       \* ids that get registered
          MaxCalls     \* bound: calls that register or unregister

VARIABLES document,    \* kind -> path -> id
          registered,  \* what was registered and not unregistered
          calls

idsVars == <<document, registered, calls>>

Kinds == {"portname", "model", "event"}
Digits == <<"0", "1", "2", "3", "4", "5", "6", "7", "8", "9", "a", "b", "c", "d", "e", "f">>

\* {:x} and from_str_radix(_, 16), for numbers of at most two digits
Hex(n) == IF n < 16 THEN <<Digits[n + 1]>> ELSE <<Digits[(n \div 16) + 1], Digits[(n % 16) + 1]>>
Digit(c) == CHOOSE d \in 0 .. 15 : Digits[d + 1] = c
IsHex(s) == s # <<>> /\ \A i \in DOMAIN s : s[i] \in {Digits[d] : d \in 1 .. 16}
FromHex(s) == FoldLeft(LAMBDA n, c : 16 * n + Digit(c), 0, s)

\* Mutant of ToPath: two names share a segment
ToPathShort(id) ==
  id.namespace \o id.group \o <<"/">> \o id.name \o <<"/">> \o Hex(id.number)
  \o (IF id.suffix = <<"none">> THEN <<>> ELSE <<"/">> \o id.suffix)

ToPath(id) ==
  id.namespace \o <<"/">> \o id.group \o <<"/">> \o id.name \o <<"/">> \o Hex(id.number)
  \o (IF id.suffix = <<"none">> THEN <<>> ELSE <<"/">> \o id.suffix)

Split(path) ==
  FoldLeft(LAMBDA acc, c : IF c = "/" THEN Append(acc, <<>>)
                           ELSE [acc EXCEPT ![Len(acc)] = Append(@, c)], << <<>> >>, path)

\* from_path: four parts, a model may have a fifth
NoId == [kind |-> "none"]
FromPath(kind, path) ==
  LET p == Split(path)
  IN  IF Len(p) \notin (IF kind = "model" THEN {4, 5} ELSE {4}) \/ ~IsHex(p[4]) THEN NoId
      ELSE [kind |-> kind, namespace |-> p[1], group |-> p[2], name |-> p[3],
            number |-> FromHex(p[4]), suffix |-> IF Len(p) = 5 THEN p[5] ELSE <<"none">>]

-----------------------------------------------------------------------------
(* DiscoveryMetadata                                                          *)

IdsInit ==
  /\ document = [k \in Kinds |-> << >>]
  /\ registered = {} /\ calls = 0

Call == calls < MaxCalls /\ calls' = calls + 1

\* Register(kind, id): into the kind's own map, refused for an id of another kind
Register(kind, id) ==
  /\ Call
  /\ IF kind = id.kind
     THEN /\ document' = [document EXCEPT ![kind] =
               [p \in DOMAIN @ \cup {ToPath(id)} |-> IF p = ToPath(id) THEN id ELSE @[p]]]
          /\ registered' = registered \cup {id}
     ELSE UNCHANGED <<document, registered>>
Unregister(kind, id) ==
  /\ Call
  /\ IF kind = id.kind
     THEN /\ document' = [document EXCEPT ![kind] = Restrict(@, DOMAIN @ \ {ToPath(id)})]
          /\ registered' = registered \ {id}
     ELSE UNCHANGED <<document, registered>>

IdsNext ==
  \E id \in Known :
    \/ \E kind \in Kinds : Register(kind, id)
    \/ Unregister(id.kind, id)

IdsSpec == IdsInit /\ [][IdsNext]_idsVars

GetAll(kind) == {document[kind][p] : p \in DOMAIN document[kind]}

\* A query names a kind and how far down the names it looks; the scope of an event
\* channel query is the deepest name it gives.
Queries(id) ==
  [kind : {id.kind}, level : 0 .. 3, namespace : {id.namespace}, group : {id.group}, name : {id.name}]
\* instance_matches_query; an event channel is asked about every name given
MatchesQuery(id, q) ==
  /\ q.level >= 1 => id.namespace = q.namespace
  /\ q.level >= 2 => id.group = q.group
  /\ q.level >= 3 => id.name = q.name
Filter(q) == {id \in GetAll(q.kind) : MatchesQuery(id, q)}

-----------------------------------------------------------------------------
\* The document holds what is registered and nothing else, so that no instance
\* hides another: ids meet in a path only when they are the same.
DocumentExact == \A k \in Kinds : GetAll(k) = {id \in registered : id.kind = k}

\* A path leads back to its id, whatever the id's kind and suffix: the one who
\* sees a key deleted knows which instance is gone.
PathsLeadBack ==
  \A k \in Kinds : \A p \in DOMAIN document[k] : FromPath(k, p) = document[k][p]

\* What a query finds shrinks with its scope and never mixes kinds.
ScopesNest ==
  \A id \in registered : \A q \in Queries(id) :
    /\ id \in Filter(q)
    /\ q.level > 0 => Filter(q) \subseteq Filter([q EXCEPT !.level = @ - 1])
    /\ \A f \in Filter(q) : f.kind = q.kind
=============================================================================
