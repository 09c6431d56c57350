---------------------------- MODULE EditorSymbols ----------------------------
(***************************************************************************)
(* What the editor features make of a text: symbolAtPosition               *)
(* (pkg/formql/lsp/symbols.go) for hover and definition, completionPrefix  *)
(* (pkg/formql/tooling/completion.go) for completion.  They read the       *)
(* characters around the cursor and not the tree of the parser, so that    *)
(* they work on texts that do not parse; here they are compared with it.   *)
(*                                                                         *)
(* To them a text is its tokens and what is written between any two: no    *)
(* character, blanks, or a comment.                                        *)
(***************************************************************************)
EXTENDS DocumentParser

Words == Identifiers \cup {"NUMBER"}    \* made of isIdentifierByte characters (no decimal point)
Dotted == Words \cup {"DOT"}            \* made of isDottedIdentifierByte characters

(***************************************************************************)
(* Layouts under which the lexer reads the tokens again: two words have    *)
(* something between them, except that a name may follow on a number.      *)
(* Only gaps within names and paths, or behind a name in front of a        *)
(* parenthesis, are looked at by anybody; the others are left empty.       *)
(***************************************************************************)
CanTouch(a, b) == a \in Words /\ b \in Words => a = "NUMBER" /\ b \in Identifiers

Layouts(ts) ==
  LET looked == {i \in 1..Len(ts) - 1 : ts[i] \in Dotted /\ ts[i + 1] \in Dotted \cup {"LPAREN"}}
  IN {[i \in 1..Len(ts) - 1 |-> IF i \in looked THEN g[i] ELSE "none"] :
        g \in {g \in [looked -> {"none", "blank", "comment"}] :
                 \A i \in looked : g[i] = "none" => CanTouch(ts[i], ts[i + 1])}}

\* dottedSpanAtPosition, textPrefixAtOffset: the tokens written without a gap around token i.
Run(ts, gap, i) ==
  {j \in 1..Len(ts) :
     LET between == IF j < i THEN j..i ELSE i..j
     IN \A k \in between : ts[k] \in Dotted /\ (k = Max(between) \/ gap[k] = "none")}

Symbol(kind, chain) == [kind |-> kind, chain |-> chain]
NoSymbol == Symbol("none", << >>)

\* normalizedSegments fails on an empty name: a dot with no word in front of it.
WellFormed(ts, run, i) ==
  \A k \in run : k < i /\ ts[k] = "DOT" => k - 1 \in run /\ ts[k - 1] \in Words

\* The names in front of token i, as positions: the nth has n up to and with itself.
Chain(ts, run, i) ==
  LET names == {k \in run : k < i /\ ts[k] \in Words}
  IN [n \in 1..Cardinality(names) |->
        CHOOSE k \in names : Cardinality({j \in names : j <= k}) = n]

\* Mutant of IsFunctionCall: the parenthesis has to follow at once.
IsTightFunctionCall(ts, gap, i) ==
  i < Len(ts) /\ ts[i + 1] = "LPAREN" /\ gap[i] = "none"

IsFunctionCall(ts, gap, i) ==
  i < Len(ts) /\ ts[i + 1] = "LPAREN" /\ gap[i] \in {"none", "blank"}

SymbolAt(ts, gap, i) ==
  LET run == Run(ts, gap, i)
      dots == {k \in run : ts[k] = "DOT"}
  IN CASE dots = {} /\ ts[i] = "TRUE" -> NoSymbol
       [] dots = {} /\ ts[i] # "TRUE" ->
            Symbol(IF IsFunctionCall(ts, gap, i) THEN "function" ELSE "base_column", << >>)
       [] dots # {} /\ ~WellFormed(ts, run, i) -> NoSymbol
       [] OTHER -> Symbol(IF \E k \in dots : k > i THEN "relationship" ELSE "related_field",
                          Chain(ts, run, i))

\* The chain of relationships whose fields are offered behind token i.
CompletionChain(ts, gap, i) ==
  LET run == Run(ts, gap, i)
  IN IF WellFormed(ts, run, i) THEN Chain(ts, run, i) ELSE << >>

-----------------------------------------------------------------------------
\* All trees of the parsed text: the items' and, step by step, their children.
Nodes ==
  LET Down[n \in 0..Len(tokens)] ==
        IF n = 0 THEN {items[i].expr : i \in DOMAIN items}
        ELSE Down[n - 1] \cup UNION {ToSet(t.kids) : t \in Down[n - 1]}
  IN Down[Len(tokens)]

Tight(t, gap) == \A k \in t.at..Last(t.kids).at - 1 : gap[k] = "none"

(***************************************************************************)
(* Where the text parses, hover, definition and completion take each name  *)
(* for what it is in the tree: a column, a function, a relationship or a   *)
(* field behind a chain of relationships; and a constant for nothing.      *)
(* That is so for every way to write the text, except that a path has to   *)
(* be written without gaps, and a call without a comment in front of its   *)
(* parenthesis, where the parser asks for neither.  (TRUE( is a call to    *)
(* the parser and a constant to the editor: there is no such function.)    *)
(***************************************************************************)
Follows(t, ts, gap) ==
  CASE t.kind = "column" ->
         /\ SymbolAt(ts, gap, t.at) = Symbol("base_column", << >>)
         /\ CompletionChain(ts, gap, t.at) = << >>
    [] t.kind = "literal" /\ ts[t.at] = "TRUE" -> SymbolAt(ts, gap, t.at) = NoSymbol
    [] t.kind = "call" ->
         ts[t.at] # "TRUE" /\ gap[t.at] # "comment" => SymbolAt(ts, gap, t.at) = Symbol("function", << >>)
    [] t.kind = "path" /\ Tight(t, gap) ->
         \A n \in DOMAIN t.kids :
           LET chain == [m \in 1..n - 1 |-> t.kids[m].at]
           IN /\ SymbolAt(ts, gap, t.kids[n].at) =
                   Symbol(IF n < Len(t.kids) THEN "relationship" ELSE "related_field", chain)
              /\ CompletionChain(ts, gap, t.kids[n].at) = chain
    [] OTHER -> TRUE

SymbolsFollowTheTree ==
  outcome = Parsed =>
    LET ts == Front(tokens)
    IN \A t \in Nodes : \A gap \in Layouts(ts) : Follows(t, ts, gap)
=============================================================================
