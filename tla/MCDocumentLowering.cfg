CONSTANTS
  id = id
  name = name
  customer = customer
  rep = rep
  manager = manager
  result = result
  ghost = ghost
  orders = orders
  customers = customers
  reps = reps
  MaxItems = 3
  NoAlias = NoAlias
  BaseTable = orders
  ResultWord = result
  MaxRelationshipDepth = 3
  Words <- MCWords
  Tables <- MCTables
  ColumnsOf <- MCColumnsOf
  Relationship <- MCRelationship
  Documents <- MCDocuments
SPECIFICATION FairSpec
INVARIANTS
  TypeOK
  JoinsInOrder
  JoinsFollowCatalog
  QueryWellScoped
  AliasesDistinct
  WarningsExact
PROPERTIES
  LoweringEnds
  ImplementsDocumentPlan
CHECK_DEADLOCK FALSE
