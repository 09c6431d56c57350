CONSTANTS
  Lexicon = {"IDENT", "AS", "TRUE", "NUMBER", "HUGE", "EQ", "PLUS", "MINUS", "MULTIPLY",
             "LPAREN", "RPAREN", "COMMA", "DOT", "EOF", "ILLEGAL"}
  MaxTokens = 7
SPECIFICATION Spec
CHECK_DEADLOCK FALSE
INVARIANTS
  TypeOK
  ParsesTheGrammar
  ErrorsPointAtTheFault
  SymbolsFollowTheTree
