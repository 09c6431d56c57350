----------------------------- MODULE SourceText -----------------------------
(***************************************************************************)
(* A formula file as the command line and the language server go through   *)
(* it: the metadata reader finds its table, then the lexer reads it.  The  *)
(* two have no code in common, and must agree on what a leading comment    *)
(* is.                                                                     *)
(***************************************************************************)
EXTENDS Lexer, FileMetadata

CONSTANT
  Families   \* of files: how a text begins, over which characters and how long it
             \* goes on (a bound), and which paths and sidecars it may have

ASSUME FamiliesAssumption ==
  \A f \in Families :
    /\ f.prefix \in Seq(Characters) /\ f.letters \subseteq Characters /\ f.length \in Nat
    /\ \A p \in f.places :
         /\ p.path \in BOOLEAN
         /\ \A i \in {1, 2} : p.sidecars[i].state \in {"absent", "broken", "object"}

vars == <<text, lexerVars, metadataVars>>

Init ==
  /\ \E f \in Families :
       /\ \E n \in 0..f.length : \E t \in [1..n -> f.letters] : text = f.prefix \o t
       /\ \E p \in f.places : path = p.path /\ sidecars = p.sidecars
  /\ MetadataInit
  /\ LexerInit

Next ==
  \/ resolving # "resolved" /\ MetadataNext /\ UNCHANGED lexerVars
  \/ resolving = "resolved" /\ LexerNext /\ UNCHANGED metadataVars

Spec == Init /\ [][Next]_vars

-----------------------------------------------------------------------------
(***************************************************************************)
(* Texts the two readers take for the same: lines end in a newline, alone  *)
(* or behind a carriage return, blanks are those the lexer knows, and      *)
(* there is no byte 0.  Otherwise they part: the metadata reader ends a    *)
(* line at a carriage return alone, goes past a form feed, and past a 0,   *)
(* where the lexer takes the text to be over.                              *)
(***************************************************************************)
Conventional ==
  \A i \in DOMAIN text :
    text[i] \notin {"vt", "nul"} /\ (text[i] = "cr" => i < Len(text) /\ text[i + 1] = "lf")

Leading == {i \in DOMAIN skipped : lexed = << >> \/ skipped[i].from < lexed[1].from}

(***************************************************************************)
(* The comments in which ParseSource looks for directives are those the    *)
(* lexer skips in front of the first token: none inside a token or behind  *)
(* one, none left out, each no longer than the lexer's.                    *)
(***************************************************************************)
SameLeadingComments ==
  Conventional /\ lexing # "on" =>
    /\ DOMAIN comments = Leading
    /\ \A i \in Leading :
         comments[i].from = skipped[i].from + 2 /\ comments[i].to <= skipped[i].to

(***************************************************************************)
(* The table of a file, said of the comments the lexer skips: the one that *)
(* their directives name, base_table before table, unless one of them is   *)
(* malformed or two of them give one parameter two values; else what the   *)
(* first sidecar there is names.  One directive may give a parameter       *)
(* twice, then the last of its values counts.  A second sidecar is not     *)
(* looked at, even if the first names no table.  Where a sidecar spells a  *)
(* key in two ways either value may be taken, in the order of a walk over  *)
(* a map, so that such a file may have any of the tables that its          *)
(* spellings name, and no other.                                           *)
(***************************************************************************)
\* What a comment says: without what opens it and, if it is a block, closes it.
Inside(c) ==
  LET last == IF text[c.from + 1] = "star" THEN c.to - 3 ELSE c.to - 1
  IN {i \in c.from + 2..last : text[i] \notin Spaces}
Given ==
  {text[Min(Inside(skipped[i]))] : i \in {i \in Leading : Inside(skipped[i]) # {}}} \cap Directives
IsLastOf(ps, k, i) == ps[i].key = k /\ \A j \in DOMAIN ps : j > i => ps[j].key # k
Values(k) ==
  UNION {{Parameters[d][i].value : i \in {i \in DOMAIN Parameters[d] : IsLastOf(Parameters[d], k, i)}} :
           d \in Given}
Names(k) == Values(k) \ {NoValue}
Wrong ==
  \/ \E i \in Leading : \E j \in Inside(skipped[i]) :
       j # Min(Inside(skipped[i])) /\ text[Min(Inside(skipped[i]))] \in Directives
  \/ \E k \in Keys : \E v, w \in Values(k) : v # w

FirstSidecar ==
  IF ~path \/ Found = 3 THEN Absent ELSE sidecars[Found]
InSidecar(k) == {FirstSidecar.entries[r] : r \in Spellings(FirstSidecar.entries, k)}
MayLack(k) == InSidecar(k) \subseteq {NoValue} \/ NoValue \in InSidecar(k)

OfSidecar ==
  IF FirstSidecar.state = "broken" \/ \E r \in RawKeys : FirstSidecar.entries[r] = "object"
    THEN {"sidecar_error"}
  ELSE (InSidecar("base_table") \ {NoValue}) \cup
       (IF MayLack("base_table") THEN InSidecar("table") \ {NoValue} ELSE {}) \cup
       (IF MayLack("base_table") /\ MayLack("table") THEN {"missing"} ELSE {})

Possible ==
  IF Wrong THEN {"directive_error"}
  ELSE IF Names("base_table") # {} THEN Names("base_table")
  ELSE IF Names("table") # {} THEN Names("table") ELSE OfSidecar

TableIsTheOneNamed ==
  Conventional /\ lexing # "on" => answer \in Possible

(***************************************************************************)
(* What the lexer returns is what is written.  The tokens stand in the     *)
(* order of the text, a number, a name or an operator goes on as far as it *)
(* can, and a string literal says its value: quoted again, with a          *)
(* backslash in front of each quote, it is what was written.  (So no value *)
(* ends in a backslash: there is no way to write one.)  The end is that of *)
(* the text, or a byte 0, behind which nothing is read.                    *)
(***************************************************************************)
Quoted(value) ==
  FlattenSeq([k \in DOMAIN value |->
                IF value[k] = "quote" THEN <<"backslash", "quote">> ELSE <<value[k]>>])

AsWritten(token) ==
  LET written == SubSeq(text, token.from, token.to - 1)
      points == {i \in DOMAIN written : written[i] = "dot"}
  IN CASE token.type = "STRING" ->
            <<"quote">> \o Quoted(Value(token)) \o <<"quote">> = written
       [] token.type = "NUMBER" ->
            /\ ToSet(written) \subseteq {"digit", "dot"} /\ Cardinality(points) <= 1
            /\ Ch(token.to) \notin {"digit"} \cup (IF points = {} THEN {"dot"} ELSE {})
       [] token.type = "IDENT" ->
            ToSet(written) \subseteq {"letter", "digit"} /\ Ch(token.to) \notin {"letter", "digit"}
       [] OTHER -> written \in TwoCharacters \/ <<Last(written), Ch(token.to)>> \notin TwoCharacters

TokensReadAsWritten ==
  /\ \A k \in DOMAIN lexed :
       /\ lexed[k].from < lexed[k].to
       /\ k < Len(lexed) => lexed[k].to <= lexed[k + 1].from
       /\ AsWritten(lexed[k])
  /\ lexing = "eof" => pos = Len(text) + 1 \/ text[pos] = "nul"
=============================================================================
