SPECIFICATION Spec
CONSTANTS
  Schemas = {"public", "sales"}
  Names = {"orders", "customers", "reps"}
  Shape <- MCShape
  Indexed <- MCIndexed
  ForeignKeys <- MCForeignKeysOfTwoColumns
  Namespace = "public"
  BaseTable = "orders"
  MaxDDL = 0
INVARIANT RelationshipsAreForeignKeys
CHECK_DEADLOCK FALSE
