SPECIFICATION Spec
CONSTANTS
  ColumnTypes = {"number", "string", "boolean", "date", "unknown"}
  OtherNames = {"SUM"}
  MaxDepth = 3
INVARIANTS TypeOK AcceptedCallsRender ErrorsTellTheFault NullStandsForAnything OrderDoesNotMatter
CHECK_DEADLOCK FALSE
