--------------------------- MODULE DocumentParser ---------------------------
(***************************************************************************)
(* The parser of formulas and documents, pkg/formql/frontend/parser.go.    *)
(*                                                                         *)
(* Parse and ParseDocument are one recursive descent each; here the Go     *)
(* stack is the variable stack, of trees that still lack children, and a   *)
(* label says in which function, at which statement, the parser is.  It    *)
(* asks the lexer for one token at a time and never looks further ahead,   *)
(* so a text is drawn token by token.  A token is its type; the words      *)
(* "as" and true/false/null, which are identifiers to the lexer, are told  *)
(* apart as AS and TRUE, a number that ParseFloat refuses is HUGE, and     *)
(* ILLEGAL is where the lexer fails.                                       *)
(***************************************************************************)
EXTENDS Integers, Sequences, FiniteSets, SequencesExt

CONSTANTS
  Lexicon,      \* the tokens texts are made of
  MaxTokens     \* bound: tokens of a text, the end of input included

Identifiers == {"IDENT", "AS", "TRUE"}
Comparisons == {"GT", "GTE", "LT", "LTE", "EQ", "NEQ"}
Additions == {"PLUS", "MINUS", "AMPERSAND"}
Multiplications == {"MULTIPLY", "DIVIDE"}
TokenTypes ==
  Identifiers \cup Comparisons \cup Additions \cup Multiplications \cup
  {"NUMBER", "HUGE", "STRING", "LPAREN", "RPAREN", "COMMA", "DOT", "EOF", "ILLEGAL"}

ASSUME LexiconAssumption == Lexicon \subseteq TokenTypes /\ "EOF" \in Lexicon
ASSUME BoundAssumption == MaxTokens \in Nat \ {0}

\* parseComparison, parseExpression and parseTerm: what binds at each level.
Operators == <<Comparisons, Additions, Multiplications>>

StartsExpression(t) == t \in Identifiers \cup {"NUMBER", "HUGE", "STRING", "LPAREN", "MINUS"}

VARIABLES
  mode,      \* which of Parse and ParseDocument was called
  tokens,    \* the tokens read, the last one is p.current
  label,     \* where the parser is
  level,     \* which of the three loops over operators it is in
  stack,     \* the calls that wait: trees that still lack children
  node,      \* the tree the last call returned
  items,     \* doc.Items
  outcome    \* nothing yet, the error and where it is reported, or "parsed"

vars == <<mode, tokens, label, level, stack, node, items, outcome>>

(***************************************************************************)
(* A tree has the position of its token.  A frame of the stack is a tree   *)
(* of kind "paren", "negate", "binary" or "call" without its last child.   *)
(***************************************************************************)
Tree(kind, at, kids) == [kind |-> kind, at |-> at, kids |-> kids]
Leaf(kind, at) == Tree(kind, at, << >>)
Item(expr, alias) == [expr |-> expr, alias |-> alias]   \* alias: its token, or 0
NoTree == Leaf("none", 0)

Outcome(code, at) == [code |-> code, at |-> at]
Pending == Outcome("pending", 0)
Parsed == Outcome("parsed", 0)

Current == Last(tokens)
Pos == Len(tokens)
Top == IF stack = << >> THEN NoTree ELSE Last(stack)

Push(frame) == stack' = Append(stack, frame)
Pop == stack' = Front(stack)
WithChild(frame, child) == [frame EXCEPT !.kids = Append(@, child)]

Init ==
  /\ mode \in {"formula", "document"}
  /\ tokens = << >> /\ label = "new" /\ level = 3
  /\ stack = << >> /\ node = NoTree /\ items = << >>
  /\ outcome = Pending

Goto(l) == label' = l /\ UNCHANGED <<tokens, outcome>>

\* A call's ")" is the current token.
ClosesCall ==
  /\ label = "arguments" \/ (label = "value" /\ Top.kind = "call")
  /\ Current = "RPAREN"

(***************************************************************************)
(* eat() and next(): the token that follows, or the lexer's error.  That   *)
(* error is passed on, except by what closes a call: it puts one of its    *)
(* own in the place of whatever eat(")") returns, about the ")" itself.    *)
(***************************************************************************)
LexerFailed == IF ClosesCall THEN Outcome("unexpected_token", Pos) ELSE Outcome("lexer_error", Pos + 1)

ReadToken(l) == \E t \in IF Len(tokens) + 1 < MaxTokens THEN Lexicon ELSE {"EOF"} :
  /\ tokens' = Append(tokens, t)
  /\ IF t = "ILLEGAL"
       THEN label' = "done" /\ outcome' = LexerFailed
       ELSE label' = l /\ UNCHANGED outcome

FailAt(code, at) ==
  /\ label' = "done" /\ outcome' = Outcome(code, at)
  /\ UNCHANGED <<mode, tokens, level, stack, node, items>>
Fail(code) == FailAt(code, Pos)
MissingOperator == Fail("missing_operator_between_expressions")

-----------------------------------------------------------------------------
NewParser ==
  /\ label = "new"
  /\ ReadToken("start")
  /\ UNCHANGED <<mode, level, stack, node, items>>

Empty ==
  /\ label = "start" /\ Current = "EOF"
  /\ Fail("empty")

Start ==
  /\ label = "start" /\ Current # "EOF"
  /\ Goto(IF mode = "document" THEN "item" ELSE "factor")
  /\ UNCHANGED <<mode, level, stack, node, items>>

-----------------------------------------------------------------------------
(***************************************************************************)
(* parseFactor, parseIdentifierLike and parseRelationshipPath.             *)
(***************************************************************************)
Literal ==
  /\ label = "factor" /\ Current \in {"NUMBER", "STRING"}
  /\ node' = Leaf("literal", Pos)
  /\ ReadToken("operand")
  /\ UNCHANGED <<mode, level, stack, items>>

OpenFrame(kind) ==
  /\ Push(Leaf(kind, Pos))
  /\ ReadToken("factor")
  /\ UNCHANGED <<mode, level, node, items>>

Negate == label = "factor" /\ Current = "MINUS" /\ OpenFrame("negate")
OpenParen == label = "factor" /\ Current = "LPAREN" /\ OpenFrame("paren")

FactorFails ==
  /\ label = "factor"
  /\ \/ Current = "HUGE" /\ Fail("invalid_numeric_literal")
     \/ Current = "PLUS" /\ Fail("unsupported_unary_plus")
     \/ Current = "EOF" /\ Fail("unexpected_end_of_formula")
     \/ /\ ~StartsExpression(Current) /\ Current \notin {"PLUS", "EOF"}
        /\ Fail("unexpected_token")

Name ==
  /\ label = "factor" /\ Current \in Identifiers
  /\ node' = Leaf("column", Pos)
  /\ ReadToken("name")
  /\ UNCHANGED <<mode, level, stack, items>>

OpenCall ==
  /\ label = "name" /\ Current = "LPAREN"
  /\ Push(Leaf("call", node.at))
  /\ ReadToken("arguments")
  /\ UNCHANGED <<mode, level, node, items>>

IsConstant == tokens[node.at] = "TRUE"

Constant ==
  /\ label = "name" /\ Current # "LPAREN" /\ IsConstant
  /\ node' = Leaf("literal", node.at)
  /\ Goto("operand")
  /\ UNCHANGED <<mode, level, stack, items>>

OpenPath ==
  /\ label = "name" /\ Current = "DOT" /\ ~IsConstant
  /\ node' = Tree("path", node.at, <<Leaf("segment", node.at)>>)
  /\ ReadToken("segment")
  /\ UNCHANGED <<mode, level, stack, items>>

Column ==
  /\ label = "name" /\ Current \notin {"LPAREN", "DOT"} /\ ~IsConstant
  /\ Goto("operand")
  /\ UNCHANGED <<mode, level, stack, node, items>>

Segment ==
  /\ label = "segment" /\ Current \in Identifiers
  /\ node' = WithChild(node, Leaf("segment", Pos))
  /\ ReadToken("dot")
  /\ UNCHANGED <<mode, level, stack, items>>

SegmentMissing ==
  /\ label = "segment" /\ Current \notin Identifiers
  /\ Fail("invalid_path")

Dot ==
  /\ label = "dot"
  /\ IF Current = "DOT" THEN ReadToken("segment") ELSE Goto("operand")
  /\ UNCHANGED <<mode, level, stack, node, items>>

-----------------------------------------------------------------------------
(***************************************************************************)
(* The calls that wait for a factor: an operand of a minus sign, or of an  *)
(* operator of the loops of parseTerm, parseExpression, parseComparison.   *)
(***************************************************************************)
CloseNegate ==
  /\ label = "operand" /\ Top.kind = "negate"
  /\ node' = WithChild(Top, node)
  /\ Pop
  /\ UNCHANGED <<mode, tokens, label, level, items, outcome>>

EndFactor ==
  /\ label = "operand" /\ Top.kind # "negate"
  /\ level' = 3
  /\ Goto("loop")
  /\ UNCHANGED <<mode, stack, node, items>>

\* Mutant of AtLevel: operators of one level associate to the right.
AtLevelToTheRight(frame) ==
  frame.kind = "binary" /\ tokens[frame.at] \in Operators[level] /\ Current \notin Operators[level]

AtLevel(frame) == frame.kind = "binary" /\ tokens[frame.at] \in Operators[level]

CloseBinary ==
  /\ label = "loop" /\ AtLevel(Top)
  /\ node' = WithChild(Top, node)
  /\ Pop
  /\ UNCHANGED <<mode, tokens, label, level, items, outcome>>

OpenBinary ==
  /\ label = "loop" /\ ~AtLevel(Top) /\ Current \in Operators[level]
  /\ Push(Tree("binary", Pos, <<node>>))
  /\ ReadToken("factor")
  /\ UNCHANGED <<mode, level, node, items>>

LeaveLoop ==
  /\ label = "loop" /\ ~AtLevel(Top) /\ Current \notin Operators[level]
  /\ level' = IF level > 1 THEN level - 1 ELSE 3
  /\ Goto(IF level > 1 THEN "loop" ELSE "value")
  /\ UNCHANGED <<mode, stack, node, items>>

-----------------------------------------------------------------------------
(***************************************************************************)
(* The callers of parseComparison: a parenthesis, a call, Parse itself, or *)
(* the loop of ParseDocument.                                              *)
(***************************************************************************)
CloseParen ==
  /\ label = "value" /\ Top.kind = "paren" /\ Current = "RPAREN"
  /\ Pop
  /\ ReadToken("operand")
  /\ UNCHANGED <<mode, level, node, items>>

ParenFails ==
  /\ label = "value" /\ Top.kind = "paren" /\ Current # "RPAREN"
  /\ IF StartsExpression(Current) THEN MissingOperator ELSE Fail("unexpected_token")

BeginArguments ==
  /\ label = "arguments" /\ Current # "RPAREN"
  /\ Goto("factor")
  /\ UNCHANGED <<mode, level, stack, node, items>>

CloseCall(call) ==
  /\ node' = call
  /\ Pop
  /\ ReadToken("operand")
  /\ UNCHANGED <<mode, level, items>>

NoArguments == label = "arguments" /\ Current = "RPAREN" /\ CloseCall(Top)

InCall == label = "value" /\ Top.kind = "call"

\* Mutant of NextArgument: a list of arguments may end in a comma.
NextArgumentIfAny ==
  /\ InCall /\ Current = "COMMA"
  /\ stack' = Append(Front(stack), WithChild(Top, node))
  /\ ReadToken("arguments")
  /\ UNCHANGED <<mode, level, node, items>>

NextArgument ==
  /\ InCall /\ Current = "COMMA"
  /\ stack' = Append(Front(stack), WithChild(Top, node))
  /\ ReadToken("factor")
  /\ UNCHANGED <<mode, level, node, items>>

LastArgument == InCall /\ Current = "RPAREN" /\ CloseCall(WithChild(Top, node))

CallFails ==
  /\ InCall /\ Current \notin {"COMMA", "RPAREN"}
  /\ IF StartsExpression(Current) THEN MissingOperator ELSE Fail("unexpected_token")

\* Mutant of AtTop: a formula goes on as the item of a document does.
AtTopOfEither(m) == label = "value" /\ stack = << >>

AtTop(m) == label = "value" /\ stack = << >> /\ mode = m

Accept(result) ==
  /\ items' = result
  /\ label' = "done" /\ outcome' = Parsed
  /\ UNCHANGED <<mode, tokens, level, stack, node>>

EndFormula == AtTop("formula") /\ Current = "EOF" /\ Accept(<<Item(node, 0)>>)

FormulaFails ==
  /\ AtTop("formula") /\ Current # "EOF"
  /\ IF StartsExpression(Current) THEN MissingOperator
                                  ELSE Fail("unexpected_token_after_expression")

-----------------------------------------------------------------------------
(***************************************************************************)
(* The loop of parseDocument.                                              *)
(***************************************************************************)
BeginItem ==
  /\ label = "item" /\ Current # "COMMA"
  /\ Goto("factor")
  /\ UNCHANGED <<mode, level, stack, node, items>>

EmptyItem == label = "item" /\ Current = "COMMA" /\ Fail("empty_select_item")

EndItem(alias) ==
  /\ items' = Append(items, Item(node, alias))
  /\ UNCHANGED <<mode, level, stack, node>>

Unnamed == AtTop("document") /\ Current # "AS" /\ EndItem(0) /\ Goto("separator")

As ==
  /\ AtTop("document") /\ Current = "AS"
  /\ ReadToken("alias")
  /\ UNCHANGED <<mode, level, stack, node, items>>

Alias == label = "alias" /\ Current \in Identifiers /\ EndItem(Pos) /\ ReadToken("separator")

AliasMissing ==
  /\ label = "alias" /\ Current \notin Identifiers
  /\ Fail("expected_alias_identifier")

EndDocument == label = "separator" /\ Current = "EOF" /\ Accept(items)

Separator ==
  /\ label = "separator" /\ Current = "COMMA"
  /\ ReadToken("next_item")
  /\ UNCHANGED <<mode, level, stack, node, items>>

NextItem ==
  /\ label = "next_item" /\ Current # "EOF"
  /\ Goto("item")
  /\ UNCHANGED <<mode, level, stack, node, items>>

\* The comma is to blame, not the end that follows it.
TrailingComma == label = "next_item" /\ Current = "EOF" /\ FailAt("trailing_comma", Pos - 1)

SeparatorMissing ==
  /\ label = "separator" /\ Current \notin {"EOF", "COMMA"}
  /\ IF StartsExpression(Current) THEN MissingOperator
                                  ELSE Fail("unexpected_token_after_select_item")

Factor ==
  \/ Literal \/ Negate \/ OpenParen \/ FactorFails
  \/ Name \/ OpenCall \/ Constant \/ OpenPath \/ Column \/ Segment \/ SegmentMissing \/ Dot
Loops == CloseNegate \/ EndFactor \/ CloseBinary \/ OpenBinary \/ LeaveLoop
Closing ==
  \/ CloseParen \/ ParenFails \/ BeginArguments \/ NoArguments \/ NextArgument
  \/ LastArgument \/ CallFails \/ EndFormula \/ FormulaFails
Document ==
  \/ BeginItem \/ EmptyItem \/ Unnamed \/ As \/ Alias \/ AliasMissing
  \/ EndDocument \/ Separator \/ NextItem \/ TrailingComma \/ SeparatorMissing

Next == NewParser \/ Empty \/ Start \/ Factor \/ Loops \/ Closing \/ Document

Spec == Init /\ [][Next]_vars

-----------------------------------------------------------------------------
(***************************************************************************)
(* The language.  Derivations of a sequence of tokens are the trees of     *)
(* each level over each span from..to: comparisons, sums, products and     *)
(* factors are levels 1 to 4, lists of arguments are level 0.  Operators   *)
(* of a level associate to the left, and minus binds tighter than all.     *)
(* The definitions that lead there say what there is over one span, given  *)
(* what there is over the shorter ones and on the levels above.            *)
(***************************************************************************)
IsPath(ts, from, to) ==
  /\ to > from + 1 /\ (to - from) % 2 = 0
  /\ ts[from] # "TRUE"
  /\ \A i \in from..to : IF (i - from) % 2 = 0 THEN ts[i] \in Identifiers ELSE ts[i] = "DOT"

PathOver(from, to) ==
  Tree("path", from, [i \in 1..((to - from) \div 2 + 1) |-> Leaf("segment", from + 2 * (i - 1))])

Word(ts, at) ==
  IF ts[at] \in {"NUMBER", "STRING", "TRUE"} THEN {Leaf("literal", at)}
  ELSE IF ts[at] \in Identifiers THEN {Leaf("column", at)} ELSE {}

Negated(ts, D, from, to) ==
  {Tree("negate", from, <<d>>) : d \in IF ts[from] = "MINUS" THEN D[<<4, from + 1, to>>] ELSE {}}

Enclosed(ts, D, from, to) ==
  IF ts[from] = "LPAREN" /\ ts[to] = "RPAREN" THEN D[<<1, from + 1, to - 1>>] ELSE {}

Arguments(D, from, to) == IF to = from + 2 THEN {<< >>} ELSE D[<<0, from + 2, to - 1>>]

Called(ts, D, from, to) ==
  {Tree("call", from, a) :
     a \in IF ts[from] \in Identifiers /\ ts[from + 1] = "LPAREN" /\ ts[to] = "RPAREN"
             THEN Arguments(D, from, to) ELSE {}}

Joined(ts, D, l, from, to) ==
  UNION {{Tree("binary", k, <<a, b>>) : a \in D[<<l, from, k - 1>>], b \in D[<<l + 1, k + 1, to>>]} :
           k \in {k \in from + 1..to - 1 : ts[k] \in Operators[l]}}

Listed(ts, D, from, to) ==
  {<<d>> : d \in D[<<1, from, to>>]} \cup
  UNION {{Append(a, d) : a \in D[<<0, from, k - 1>>], d \in D[<<1, k + 1, to>>]} :
           k \in {k \in from + 1..to - 1 : ts[k] = "COMMA"}}

Ways(ts, D, l, from, to) ==
  CASE to < from -> {}
    [] to >= from /\ l = 0 -> Listed(ts, D, from, to)
    [] to >= from /\ l \in 1..3 -> D[<<l + 1, from, to>>] \cup Joined(ts, D, l, from, to)
    [] to = from /\ l = 4 -> Word(ts, from)
    [] OTHER ->
         Negated(ts, D, from, to) \cup Enclosed(ts, D, from, to) \cup Called(ts, D, from, to) \cup
         (IF IsPath(ts, from, to) THEN {PathOver(from, to)} ELSE {})

Derivations(ts) ==
  LET D[s \in (0..4) \X (1..Len(ts)) \X (0..Len(ts))] == Ways(ts, D, s[1], s[2], s[3])
  IN D

\* The items of a document, over a span and listed from the start.
ItemsOver(ts, D, from, to) ==
  {Item(d, 0) : d \in D[<<1, from, to>>]} \cup
  (IF to > from + 1 /\ ts[to - 1] = "AS" /\ ts[to] \in Identifiers
     THEN {Item(d, to) : d \in D[<<1, from, to - 2>>]} ELSE {})

ItemsListed(ts, D, L, to) ==
  {<<i>> : i \in ItemsOver(ts, D, 1, to)} \cup
  UNION {{Append(a, i) : a \in L[k - 1], i \in ItemsOver(ts, D, k + 1, to)} :
           k \in {k \in 2..to - 1 : ts[k] = "COMMA"}}

ItemLists(ts, D) ==
  LET L[to \in 0..Len(ts)] == ItemsListed(ts, D, L, to) IN L

\* What Parse (formula) or ParseDocument should make of a text, the end left out.
Parses(m, ts) ==
  LET D == Derivations(ts)
  IN CASE ts = << >> -> {}
       [] ts # << >> /\ m = "formula" -> {<<Item(d, 0)>> : d \in D[<<1, 1, Len(ts)>>]}
       [] OTHER -> ItemLists(ts, D)[Len(ts)]

\* Some text that starts with p parses: p lacks at most an operand or a name, and its ")".
Viable(m, p) ==
  LET Count(t) == Cardinality({i \in DOMAIN p : p[i] = t})
      open == Count("LPAREN") - Count("RPAREN")
  IN /\ open >= 0
     /\ \E missing \in {<< >>, <<"NUMBER">>, <<"IDENT">>} :
          Parses(m, p \o missing \o [i \in 1..open |-> "RPAREN"]) # {}

-----------------------------------------------------------------------------
(***************************************************************************)
(* The parser is where its stack and its tokens say: a frame that waits    *)
(* for an operand has a token of its own, further right than the frames    *)
(* below it, an error points into the text, and only the loop of a         *)
(* document has items before the end.                                      *)
(***************************************************************************)
TypeOK ==
  /\ mode \in {"formula", "document"}
  /\ tokens \in Seq(Lexicon) /\ Len(tokens) <= MaxTokens
  /\ label \in {"new", "start", "item", "factor", "name", "segment", "dot", "arguments",
                "operand", "loop", "value", "alias", "separator", "next_item", "done"}
  /\ level \in 1..3
  /\ \A i \in DOMAIN stack :
       /\ stack[i].kind \in {"paren", "negate", "binary", "call"}
       /\ stack[i].at \in (IF i = 1 THEN 1 ELSE stack[i - 1].at + 1)..Len(tokens)
  /\ node.at \in 0..Len(tokens)
  /\ outcome.at \in 0..Len(tokens)
  /\ (label = "done") = (outcome # Pending)
  /\ mode = "formula" /\ label # "done" => items = << >>

(***************************************************************************)
(* What Parse and ParseDocument return is the tree the grammar gives the   *)
(* text, and there is one such tree: precedence, associativity, paths and  *)
(* the words that are constants in one place and names in another.         *)
(***************************************************************************)
ParsesTheGrammar ==
  outcome = Parsed => Parses(mode, Front(tokens)) = {items}

(***************************************************************************)
(* A text is refused at its first token that no text of the language       *)
(* continues with: everything before it could still have been completed,   *)
(* and the error points at that token (at the comma, for a trailing one).  *)
(* Only a character that is no token, behind a call, is blamed on the ")"  *)
(* of the call.                                                            *)
(* The hint "insert an operator between the two expressions"               *)
(* (parser.go:60) helps, with an operator there the text can go on, except *)
(* behind an alias, where the same error is given and no operator helps.   *)
(***************************************************************************)
AfterAlias == items # << >> /\ Last(items).alias = Len(tokens) - 1

\* The parser was to read on behind a call, and the lexer failed.
LexerErrorDropped ==
  /\ Current = "ILLEGAL" /\ outcome.code = "unexpected_token"
  /\ node.kind = "call" /\ Len(tokens) > 1 /\ tokens[Len(tokens) - 1] = "RPAREN"

ErrorsPointAtTheFault ==
  outcome \notin {Pending, Parsed} =>
    /\ Viable(mode, Front(tokens))
    /\ IF Current = "EOF" THEN Parses(mode, Front(tokens)) = {} ELSE ~Viable(mode, tokens)
    /\ outcome.at = IF outcome.code = "trailing_comma" \/ LexerErrorDropped
                      THEN Len(tokens) - 1 ELSE Len(tokens)
    /\ Current = "ILLEGAL" => outcome.code = "lexer_error" \/ LexerErrorDropped
    /\ outcome.code = "missing_operator_between_expressions" =>
         (Viable(mode, Append(Front(tokens), "AMPERSAND")) <=> ~AfterAlias)

=============================================================================
