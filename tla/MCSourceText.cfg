CONSTANTS
  Directives = {"@table=a", "@table=b", "@base_table=b", "@table=", "@", "@table=a,table=b",
                "@base_table=b,other=x,table=a"}
  Parameters <- MCParameters
  NoValue = "nothing"
  RawKeys = {"table", "Table", "base_table", "base-table"}
  Normalized <- MCNormalized
  CommentLength = 7
  TokenLength = 4
  Families <- MCFamilies
SPECIFICATION Spec
CHECK_DEADLOCK FALSE
INVARIANTS
  SameLeadingComments
  TableIsTheOneNamed
  TokensReadAsWritten
