-------------------------- MODULE SourceCharacters --------------------------
(***************************************************************************)
(* The text of a file, which two readers go through on their own: the      *)
(* metadata reader (FileMetadata) and the lexer (Lexer).  A character is   *)
(* named for its class; "@table=..." stands for a whole directive,         *)
(* "@formql key=value key=value" and a blank, which begins with a          *)
(* character that no token begins with.                                    *)
(***************************************************************************)
EXTENDS Integers, Sequences, FiniteSets, SequencesExt, FiniteSetsExt

CONSTANTS
  Directives,   \* characters that stand for a directive
  Parameters    \* the parameters each directive gives, in turn: keys and values

\* "unset" is what a key has before any directive gives it a value.
ASSUME DirectivesAssumption ==
  \A d \in Directives :
    /\ Len(Parameters[d]) \in Nat /\ DOMAIN Parameters[d] = 1..Len(Parameters[d])
    /\ \A i \in DOMAIN Parameters[d] :
         /\ Parameters[d][i].key \in {"table", "base_table", "other"}
         /\ Parameters[d][i].value # "unset"

VARIABLE text   \* the characters of the file

Blanks == {"space", "lf", "cr"}                  \* what the lexer skips
Spaces == Blanks \cup {"vt"}                     \* unicode.IsSpace
Operators1 == {"plus", "star", "slash"}          \* + - * / & ( ) , and the like
Characters ==
  Spaces \cup Operators1 \cup Directives \cup
  {"letter", "digit", "dot", "quote", "backslash", "gt", "lt", "eq", "bang", "nul"}

\* The least index from i on at which P holds, P being given as the set of such indexes.
FirstOf(P, i) == Min({j \in P : j >= i})
=============================================================================
