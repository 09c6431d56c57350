---------------------------- MODULE FileMetadata ----------------------------
(***************************************************************************)
(* The table of a file: directives in its leading comments                 *)
(* (filemeta.ParseSource), else the first sidecar file next to it          *)
(* (filemeta.LoadSidecar), put together by resolveFileBaseTable of the     *)
(* command line and of the language server.  Nothing is remembered: each   *)
(* compilation and each request of the editor resolves the table again,    *)
(* as is done here once.                                                   *)
(*                                                                         *)
(* The json package, the file system and the order in which Go walks a map *)
(* are external: a sidecar is absent, broken, or has an object's entries.  *)
(***************************************************************************)
EXTENDS SourceCharacters

CONSTANTS
  NoValue,        \* an empty value (a key that is not there is "unset")
  RawKeys,        \* keys as sidecars spell them
  Normalized      \* normalizeKey: what each of them is to the reader

VARIABLES
  path,           \* the text has a path (an untitled buffer has none)
  sidecars,       \* <<stem.meta.json, name.formql.meta.json>>
  at,             \* leadingComments' index, from 1
  comments,       \* the comments it has collected
  unread,         \* those whose directives have still to be merged
  params,         \* key to value, as merged from the directives
  resolving,      \* "comments", "directives", "sidecar", or "resolved"
  answer          \* the table, or the error, that is returned

metadataVars == <<path, sidecars, at, comments, unread, params, resolving, answer>>

Keys == {"table", "base_table", "other"}
ASSUME KeysAssumption == Normalized \in [RawKeys -> Keys]

NoParams == [k \in Keys |-> "unset"]
Span(from, to) == [from |-> from, to |-> to]

\* An entry a sidecar lacks, or has as null, is "unset", a nested value "object".
Sidecar(state, entries) == [state |-> state, entries |-> entries]
NoEntries == [k \in RawKeys |-> "unset"]
Absent == Sidecar("absent", NoEntries)

MetadataInit ==
  /\ at = 1 /\ comments = << >> /\ unread = << >> /\ params = NoParams
  /\ resolving = "comments" /\ answer = "none"

\* Metadata.BaseTable, and whether it gives a table.
Named(value) == value \notin {"unset", NoValue}
BaseTable(ps) == IF Named(ps["base_table"]) THEN ps["base_table"] ELSE ps["table"]

Answer(a) ==
  /\ answer' = a /\ resolving' = "resolved"
  /\ UNCHANGED <<path, sidecars, at, comments, unread, params>>

-----------------------------------------------------------------------------
(***************************************************************************)
(* leadingComments: a line comment ends at a newline or a carriage return, *)
(* whatever comes first; a block comment that is not closed is dropped.    *)
(***************************************************************************)
Reading == resolving = "comments"
Has(i, c) == i \in DOMAIN text /\ text[i] = c
Opens(second) == Has(at, "slash") /\ Has(at + 1, second)
EndOfLine(i) ==
  FirstOf({j \in i..Len(text) + 1 : j = Len(text) + 1 \/ text[j] \in {"lf", "cr"}}, i)
CommentEnds == {j \in at + 2..Len(text) : Has(j, "star") /\ Has(j + 1, "slash")}

TakeSpaces ==
  /\ Reading /\ at \in DOMAIN text /\ text[at] \in Spaces
  /\ at' = FirstOf({j \in at..Len(text) + 1 : j = Len(text) + 1 \/ text[j] \notin Spaces}, at)
  /\ UNCHANGED <<path, sidecars, comments, unread, params, resolving, answer>>

Take(comment, next) ==
  /\ comments' = Append(comments, comment)
  /\ at' = next
  /\ UNCHANGED <<path, sidecars, unread, params, resolving, answer>>

TakeLineComment ==
  Reading /\ Opens("slash") /\ Take(Span(at + 2, EndOfLine(at + 2)), EndOfLine(at + 2))

TakeBlockComment ==
  /\ Reading /\ Opens("star") /\ CommentEnds # {}
  /\ Take(Span(at + 2, Min(CommentEnds)), Min(CommentEnds) + 2)

AtEnd ==
  at \in DOMAIN text =>
    /\ text[at] \notin Spaces
    /\ ~Opens("slash")
    /\ ~(Opens("star") /\ CommentEnds # {})

EndOfComments ==
  /\ Reading /\ AtEnd
  /\ unread' = comments
  /\ resolving' = "directives"
  /\ UNCHANGED <<path, sidecars, at, comments, params, answer>>

-----------------------------------------------------------------------------
(***************************************************************************)
(* ParseSource: a comment is a directive when it starts with one; what     *)
(* stands behind it is blank, or parseParams fails.                        *)
(***************************************************************************)
NonSpaces(comment) == {i \in comment.from..comment.to - 1 : text[i] \notin Spaces}
IsDirective(comment) ==
  NonSpaces(comment) # {} /\ text[Min(NonSpaces(comment))] \in Directives
IsMalformed(comment) ==
  IsDirective(comment) /\ \E i \in NonSpaces(comment) : i # Min(NonSpaces(comment))

\* parseParams: of the parameters with one key the last stays.
GivenBy(comment) ==
  LET ps == Parameters[text[Min(NonSpaces(comment))]]
      With(k) == {i \in DOMAIN ps : ps[i].key = k}
  IN [k \in Keys |-> IF ~IsDirective(comment) \/ With(k) = {} THEN "unset" ELSE ps[Max(With(k))].value]

Contradicts(comment) ==
  \E k \in Keys : GivenBy(comment)[k] # "unset" /\ params[k] \notin {"unset", GivenBy(comment)[k]}

MergedWith(ps, comment) ==
  [k \in Keys |-> IF GivenBy(comment)[k] = "unset" THEN ps[k] ELSE GivenBy(comment)[k]]

\* Mutant of MergeDirective: the last directive wins.
OverrideDirective ==
  /\ resolving = "directives" /\ unread # << >> /\ ~IsMalformed(Head(unread))
  /\ params' = MergedWith(params, Head(unread))
  /\ unread' = Tail(unread)
  /\ UNCHANGED <<path, sidecars, at, comments, resolving, answer>>

MergeDirective ==
  /\ resolving = "directives" /\ unread # << >>
  /\ ~IsMalformed(Head(unread)) /\ ~Contradicts(Head(unread))
  /\ params' = MergedWith(params, Head(unread))
  /\ unread' = Tail(unread)
  /\ UNCHANGED <<path, sidecars, at, comments, resolving, answer>>

DirectiveFails ==
  /\ resolving = "directives" /\ unread # << >>
  /\ IsMalformed(Head(unread)) \/ Contradicts(Head(unread))
  /\ Answer("directive_error")

NamedBySource ==
  /\ resolving = "directives" /\ unread = << >> /\ Named(BaseTable(params))
  /\ Answer(BaseTable(params))

NotNamedBySource ==
  /\ resolving = "directives" /\ unread = << >> /\ ~Named(BaseTable(params))
  /\ IF path THEN resolving' = "sidecar" /\ UNCHANGED <<path, sidecars, at, comments, unread, params, answer>>
             ELSE Answer("missing")

-----------------------------------------------------------------------------
(***************************************************************************)
(* LoadSidecar reads the first of the two files that is there, and         *)
(* decodeSidecar stores its entries in the order of a walk over a map, so  *)
(* that of two keys that normalize to one either may stay.                 *)
(***************************************************************************)
Found == FirstOf({i \in 1..3 : i = 3 \/ sidecars[i].state # "absent"}, 1)

Spellings(entries, k) ==
  {r \in RawKeys : Normalized[r] = k /\ entries[r] # "unset"}

DecodedAs(entries, ps) ==
  \A k \in Keys :
    IF Spellings(entries, k) = {} THEN ps[k] = "unset"
                                  ELSE \E r \in Spellings(entries, k) : ps[k] = entries[r]

ReadSidecar ==
  /\ resolving = "sidecar" /\ Found < 3
  /\ sidecars[Found].state = "object"
  /\ \A r \in RawKeys : sidecars[Found].entries[r] # "object"
  /\ \E ps \in [Keys -> {"unset"} \cup {sidecars[Found].entries[r] : r \in RawKeys}] :
       /\ DecodedAs(sidecars[Found].entries, ps)
       /\ Answer(IF Named(BaseTable(ps)) THEN BaseTable(ps) ELSE "missing")

SidecarFails ==
  /\ resolving = "sidecar" /\ Found < 3
  /\ sidecars[Found].state = "broken" \/ \E r \in RawKeys : sidecars[Found].entries[r] = "object"
  /\ Answer("sidecar_error")

NoSidecar == resolving = "sidecar" /\ Found = 3 /\ Answer("missing")

MetadataNext ==
  /\ \/ TakeSpaces \/ TakeLineComment \/ TakeBlockComment \/ EndOfComments
     \/ MergeDirective \/ DirectiveFails \/ NamedBySource \/ NotNamedBySource
     \/ ReadSidecar \/ SidecarFails \/ NoSidecar
  /\ UNCHANGED text
=============================================================================
