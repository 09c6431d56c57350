SPECIFICATION Spec
CONSTANTS
  Schemas = {"public", "sales"}
  Names = {"orders", "customers", "reps"}
  Shape <- MCShape
  Indexed <- MCIndexed
  ForeignKeys <- MCForeignKeys
  Namespace = "public"
  BaseTable = "orders"
  MaxDDL = 2
INVARIANTS TypeOK QuietLoadIsExact ServedJoinsAreReal ExtensionAgrees
CHECK_DEADLOCK FALSE
