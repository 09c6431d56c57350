CONSTANTS
  file = file
  untitled = untitled
  blank = blank
  named = named
  broken = broken
  orders = orders
  NotGiven = NotGiven
  Malformed = Malformed
  URIs = {file}
  FileURIs = {file}
  Texts = {blank, named}
  EmptyText = blank
  Tables = {orders}
  NoTable = NotGiven
  Invalid = Malformed
  Directive <- MCTwoDirectives
  Live = FALSE
  Careless = TRUE
  OutboxCapacity = 1
  MaxSent = 3
  MaxUpsets = 0
SPECIFICATION FairSpec
CHECK_DEADLOCK FALSE
PROPERTIES
  RequestsAreAnswered
  GoesWithTheEditor
