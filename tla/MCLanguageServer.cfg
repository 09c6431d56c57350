CONSTANTS
  file = file
  untitled = untitled
  blank = blank
  named = named
  broken = broken
  orders = orders
  NotGiven = NotGiven
  Malformed = Malformed
  URIs = {file, untitled}
  FileURIs = {file}
  Texts = {blank, named, broken}
  EmptyText = blank
  Tables = {orders}
  NoTable = NotGiven
  Invalid = Malformed
  Directive <- MCDirective
  Live = TRUE
  Careless = FALSE
  OutboxCapacity = 1
  MaxSent = 3
  MaxUpsets = 1
SPECIFICATION Spec
CHECK_DEADLOCK FALSE
INVARIANTS
  TypeOK
  AnswersInOrder
  AnswersSeeTheirText
  DiagnosticsSettle
  StopsOnlyWhenTold
