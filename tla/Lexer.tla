------------------------------- MODULE Lexer -------------------------------
(***************************************************************************)
(* The lexer, pkg/formql/frontend/lexer.go: one action per turn of the     *)
(* loop of nextToken, called until it returns the end of input or fails.   *)
(* The byte 0 is what the lexer holds behind the end of its input, and so  *)
(* it takes a 0 in the text for the end.                                   *)
(***************************************************************************)
EXTENDS SourceCharacters

VARIABLES
  pos,       \* l.pos, from 1
  lexed,     \* the tokens returned so far
  skipped,   \* history: the comments skipped, from their first character to behind the last
  lexing     \* "on", "eof", or the error

lexerVars == <<pos, lexed, skipped, lexing>>

\* l.ch and l.peek
Ch(i) == IF i \in DOMAIN text THEN text[i] ELSE "nul"

\* The first index from i on whose character is, or is not, in S.
Find(S, i) == FirstOf({j \in i..Len(text) + 1 : Ch(j) \in S}, i)
FindNot(S, i) == FirstOf({j \in i..Len(text) + 1 : Ch(j) \notin S}, i)

Token(type, from, to) == [type |-> type, from |-> from, to |-> to]
Comment(from, to) == [from |-> from, to |-> to]

LexerInit == pos = 1 /\ lexed = << >> /\ skipped = << >> /\ lexing = "on"

OpensComment(second) == Ch(pos) = "slash" /\ Ch(pos + 1) = second
AtToken == Ch(pos) \notin Blanks \cup {"nul"} /\ ~OpensComment("slash") /\ ~OpensComment("star")

Emit(type, to) ==
  /\ lexed' = Append(lexed, Token(type, pos, to))
  /\ pos' = to
  /\ UNCHANGED <<skipped, lexing>>

Refuse(code) == lexing' = code /\ UNCHANGED <<pos, lexed, skipped>>

SkipWhitespace ==
  /\ Ch(pos) \in Blanks
  /\ pos' = FindNot(Blanks, pos)
  /\ UNCHANGED <<lexed, skipped, lexing>>

SkipLineComment ==
  /\ OpensComment("slash")
  /\ LET end == Find({"lf", "nul"}, pos + 2)
     IN /\ pos' = IF Ch(end) = "lf" THEN end + 1 ELSE end
        /\ skipped' = Append(skipped, Comment(pos, end))
  /\ UNCHANGED <<lexed, lexing>>

\* Where block comments close, before the next 0.
Closings(i) ==
  {j \in i..Find({"nul"}, i) : Ch(j) = "star" /\ Ch(j + 1) = "slash"}

\* Mutant of SkipBlockComment: the star that opens the comment may close it.
SkipOverlapping ==
  /\ OpensComment("star") /\ Closings(pos + 1) # {}
  /\ pos' = Min(Closings(pos + 1)) + 2
  /\ skipped' = Append(skipped, Comment(pos, pos'))
  /\ UNCHANGED <<lexed, lexing>>

SkipBlockComment ==
  /\ OpensComment("star") /\ Closings(pos + 2) # {}
  /\ pos' = Min(Closings(pos + 2)) + 2
  /\ skipped' = Append(skipped, Comment(pos, pos'))
  /\ UNCHANGED <<lexed, lexing>>

UnterminatedComment ==
  /\ OpensComment("star") /\ Closings(pos + 2) = {}
  /\ Refuse("unterminated_block_comment")

\* The second point, or what is neither digit nor point, ends a number.
ReadNumber ==
  /\ Ch(pos) = "digit"
  /\ LET point == Find({"dot", "nul"}, pos)
         end == FindNot({"digit", "dot"}, pos)
     IN Emit("NUMBER", IF point < end THEN FindNot({"digit"}, point + 1) ELSE end)

ReadIdentifier ==
  /\ Ch(pos) = "letter"
  /\ Emit("IDENT", FindNot({"letter", "digit"}, pos))

\* A backslash is dropped before a quote and kept before anything else.
Escapes(i) == i > pos /\ Ch(i) = "backslash" /\ Ch(i + 1) = "quote"

\* Mutant of StringEnds: the first quote ends the string.
FirstQuote == {j \in pos + 1..Find({"nul"}, pos) : Ch(j) = "quote"}

StringEnds == {j \in pos + 1..Find({"nul"}, pos) : Ch(j) = "quote" /\ ~Escapes(j - 1)}

ReadString ==
  /\ Ch(pos) = "quote" /\ StringEnds # {}
  /\ Emit("STRING", Min(StringEnds) + 1)

UnterminatedString ==
  /\ Ch(pos) = "quote" /\ StringEnds = {}
  /\ Refuse("unterminated_string_literal")

TwoCharacters == {<<"gt", "eq">>, <<"lt", "eq">>, <<"lt", "gt">>, <<"bang", "eq">>}

ReadOperator ==
  /\ AtToken
  /\ \/ <<Ch(pos), Ch(pos + 1)>> \in TwoCharacters /\ Emit("OPERATOR", pos + 2)
     \/ /\ Ch(pos) \in Operators1 \cup {"gt", "lt", "eq", "dot"}
        /\ <<Ch(pos), Ch(pos + 1)>> \notin TwoCharacters
        /\ Emit("OPERATOR", pos + 1)

RefuseCharacter ==
  /\ AtToken
  /\ \/ Ch(pos) = "bang" /\ Ch(pos + 1) # "eq" /\ Refuse("unexpected_bang")
     \/ Ch(pos) \in {"vt", "backslash"} \cup Directives /\ Refuse("unexpected_character")

EndOfText == Ch(pos) = "nul" /\ Refuse("eof")

LexerNext ==
  /\ lexing = "on"
  /\ \/ SkipWhitespace \/ SkipLineComment \/ SkipBlockComment \/ UnterminatedComment
     \/ ReadNumber \/ ReadIdentifier \/ ReadString \/ UnterminatedString
     \/ ReadOperator \/ RefuseCharacter \/ EndOfText
  /\ UNCHANGED text

-----------------------------------------------------------------------------
\* The value of a string token: the characters between the quotes, without escapes.
Value(token) ==
  LET dropped(i) == Ch(i) = "backslash" /\ Ch(i + 1) = "quote"
  IN FlattenSeq([k \in 1..token.to - token.from - 2 |->
                   IF dropped(token.from + k) THEN << >> ELSE <<Ch(token.from + k)>>])
=============================================================================
