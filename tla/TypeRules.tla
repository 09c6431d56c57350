------------------------------ MODULE TypeRules ------------------------------
(***************************************************************************)
(* The types of expressions: lowerExpr, binaryResultType, lowerCall,       *)
(* functionResultType and semanticFunctionError of                         *)
(* pkg/formql/semantics/lower.go, Unify and Compatible of                  *)
(* pkg/formql/schema/schema.go, the table of pkg/formql/builtin, and       *)
(* renderCall of pkg/formql/backend/postgres/render.go.                    *)
(*                                                                         *)
(* lowerExpr walks the tree bottom-up: it is a machine that takes the      *)
(* operands of a node from a stack and puts the node there.  A node is its *)
(* type.  A column's type is the catalog's: which PostgreSQL types it      *)
(* stands for, and what PostgreSQL makes of the rendered SQL, are not      *)
(* modelled.  Operators that the parser does not produce are left out.     *)
(***************************************************************************)
EXTENDS Integers, Sequences, SequencesExt

CONSTANTS
  ColumnTypes,      \* the types of columns in the catalog
  OtherNames,       \* names a formula may call that are no builtin
  MaxDepth          \* bound on the nodes that wait for their parent

Kinds == {"number", "string", "boolean", "date", "null"}
Types == Kinds \cup {"unknown"}

ASSUME ColumnTypesAssumption == ColumnTypes \subseteq Types \ {"null"}
ASSUME MaxDepthAssumption == MaxDepth \in Nat

VARIABLES
  stack,            \* the lowered nodes that have no parent yet
  last,             \* the node lowered last, or the error that ended it
  failed            \* an error has been returned

vars == <<stack, last, failed>>

BinaryOps == {"+", "-", "*", "/", "&", "=", "!=", "<>", ">", ">=", "<", "<="}
Comparisons == {"=", "!=", "<>", ">", ">=", "<", "<="}

\* lowerCall writes names in upper case: no name is the tag of another node.
ASSUME OtherNamesAssumption == OtherNames \cap (BinaryOps \cup {"leaf", "negate", "none"}) = {}

-----------------------------------------------------------------------------
(***************************************************************************)
(* The type rules.  A failure is named for the check that failed.          *)
(***************************************************************************)
\* Mutant of Failures: the error of Unify is dropped.
FailuresButMismatch == {"operands", "arity", "argument", "name"}

Failures == {"operands", "arity", "argument", "mismatch", "name"}

\* Mutant of AllowsType: null is a type of its own.
AllowsTypeButNull(actual, allowed) == actual \in allowed \cup {"unknown"}

AllowsType(actual, allowed) == actual \in allowed \cup {"null", "unknown"}

Compatible(left, right) == left = right \/ left = "null" \/ right = "null"

\* One iteration of Unify; returning early is a result that stays.
UnifyStep(result, current) ==
  IF result \in {"unknown", "mismatch"} THEN result
  ELSE IF current = "unknown" THEN "unknown"
  ELSE IF result = "null" THEN current
  ELSE IF current \in {"null", result} THEN result
  ELSE "mismatch"

Unify(types) == FoldLeft(UnifyStep, "null", types)

\* left and right are accepted as l and r.
Accepts(left, l, right, r) == AllowsType(left, {l}) /\ AllowsType(right, {r})

\* Mutant of SumType: a number is not added to a date, only a date to a number.
SumTypeOneWay(left, right) ==
  IF Accepts(left, "number", right, "number") THEN "number"
  ELSE IF Accepts(left, "date", right, "number") THEN "date"
  ELSE "operands"

SumType(left, right) ==
  IF Accepts(left, "number", right, "number") THEN "number"
  ELSE IF Accepts(left, "date", right, "number") \/ Accepts(left, "number", right, "date") THEN "date"
  ELSE "operands"

DifferenceType(left, right) ==
  IF Accepts(left, "number", right, "number") THEN "number"
  ELSE IF Accepts(left, "date", right, "number") THEN "date"
  ELSE IF Accepts(left, "date", right, "date") THEN "number"
  ELSE "operands"

BinaryResultType(op, left, right) ==
  CASE op = "+" -> SumType(left, right)
    [] op = "-" -> DifferenceType(left, right)
    [] op \in {"*", "/"} ->
         IF Accepts(left, "number", right, "number") THEN "number" ELSE "operands"
    [] op = "&" -> IF Accepts(left, "string", right, "string") THEN "string" ELSE "operands"
    [] op \in Comparisons -> IF Compatible(left, right) THEN "boolean" ELSE "operands"

\* Mutant of Takes: the number of arguments is not checked.
TakesAny(types, arity, allowed, result) ==
  IF \A i \in DOMAIN types : AllowsType(types[i], allowed) THEN result ELSE "argument"

(***************************************************************************)
(* A function that wants so many arguments, each of an allowed type.       *)
(***************************************************************************)
Takes(types, arity, allowed, result) ==
  IF ~arity THEN "arity"
  ELSE IF \A i \in DOMAIN types : AllowsType(types[i], allowed) THEN result
  ELSE "argument"

FunctionResultType(name, types) ==
  LET n == Len(types) IN
  CASE name = "IF" -> IF n # 3 THEN "arity"
                      ELSE IF ~AllowsType(types[1], {"boolean"}) THEN "argument"
                      ELSE Unify(Tail(types))
    [] name \in {"AND", "OR"} -> Takes(types, n >= 2, {"boolean"}, "boolean")
    [] name = "NOT" -> Takes(types, n = 1, {"boolean"}, "boolean")
    [] name = "STRING" -> Takes(types, n = 1, Types, "string")
    [] name = "DATE" -> Takes(types, n = 1, {"string", "date"}, "date")
    [] name = "COALESCE" -> IF n < 1 THEN "arity" ELSE Unify(types)
    [] name = "NULLVALUE" -> IF n # 2 THEN "arity" ELSE Unify(types)
    [] name \in {"ISNULL", "ISBLANK"} -> Takes(types, n = 1, Types, "boolean")
    [] name = "TODAY" -> Takes(types, n = 0, {}, "date")
    [] name = "ABS" -> Takes(types, n = 1, {"number"}, "number")
    [] name = "ROUND" -> Takes(types, n \in 1..2, {"number"}, "number")
    [] name = "LEN" -> Takes(types, n = 1, {"string"}, "number")
    [] name \in {"UPPER", "LOWER", "TRIM"} -> Takes(types, n = 1, {"string"}, "string")
    [] OTHER -> "name"

(***************************************************************************)
(* The codes of the diagnostics.                                           *)
(***************************************************************************)
BinaryError(op) ==
  CASE op = "&" -> "invalid_concat_operands"
    [] op \in {"*", "/"} -> "invalid_numeric_operands"
    [] op \in {"+", "-"} -> "invalid_operator_operands"
    [] op \in Comparisons -> "invalid_comparison_operands"

\* Mutant of IfError: the condition is not looked at again.
IfErrorOfBranches(types) == "incompatible_if_branches"

IfError(types) ==
  IF AllowsType(types[1], {"boolean"}) THEN "incompatible_if_branches" ELSE "invalid_if_condition"

(***************************************************************************)
(* semanticFunctionError is not told which check failed, and finds out     *)
(* again.                                                                  *)
(***************************************************************************)
FunctionError(name, types) ==
  LET n == Len(types)
      Unless(arity, code) == IF arity THEN code ELSE "invalid_function_arity"
  IN
  CASE name = "IF" -> Unless(n = 3, IfError(types))
    [] name \in {"AND", "OR"} -> Unless(n >= 2, "invalid_boolean_arguments")
    [] name = "NOT" -> Unless(n = 1, "invalid_boolean_argument")
    [] name = "DATE" -> Unless(n = 1, "invalid_date_argument")
    [] name = "COALESCE" -> Unless(n >= 1, "incompatible_coalesce_arguments")
    [] name = "NULLVALUE" -> Unless(n = 2, "incompatible_nullvalue_arguments")
    [] name = "ABS" -> Unless(n = 1, "invalid_numeric_argument")
    [] name = "ROUND" -> Unless(n \in 1..2, "invalid_numeric_argument")
    [] name \in {"LEN", "UPPER", "LOWER", "TRIM"} -> Unless(n = 1, "invalid_string_argument")
    [] name \in {"STRING", "ISNULL", "ISBLANK", "TODAY"} -> "invalid_function_arity"
    [] OTHER -> "unknown_function"

(***************************************************************************)
(* builtin.specs: <<MinArgs, MaxArgs>>, with -1 for no maximum.            *)
(***************************************************************************)
Specs ==
  [name \in {"IF", "AND", "OR", "NOT", "STRING", "DATE", "COALESCE", "NULLVALUE", "ISNULL",
             "ISBLANK", "TODAY", "ABS", "ROUND", "LEN", "UPPER", "LOWER", "TRIM"} |->
     CASE name = "IF" -> <<3, 3>>
       [] name \in {"AND", "OR"} -> <<2, -1>>
       [] name = "COALESCE" -> <<1, -1>>
       [] name = "NULLVALUE" -> <<2, 2>>
       [] name = "TODAY" -> <<0, 0>>
       [] name = "ROUND" -> <<1, 2>>
       [] OTHER -> <<1, 1>>]

FunctionNames == DOMAIN Specs \cup OtherNames

-----------------------------------------------------------------------------
(***************************************************************************)
(* renderCall: the functions it knows, and the arguments that it writes,   *)
(* joined by a separator or picked one by one by their index.              *)
(***************************************************************************)
Rendered ==
  {"IF", "AND", "OR", "NOT", "STRING", "DATE", "COALESCE", "NULLVALUE", "ISNULL", "ISBLANK",
   "TODAY", "ABS", "ROUND", "LEN", "UPPER", "LOWER", "TRIM"}

Written(name, n) ==
  CASE name = "IF" -> 1..3
    [] name \in {"AND", "OR", "COALESCE", "NULLVALUE", "ROUND"} -> 1..n
    [] name = "TODAY" -> {}
    [] OTHER -> {1}

-----------------------------------------------------------------------------
Init ==
  /\ stack = << >>
  /\ last = [node |-> "none", types |-> << >>, result |-> "none"]
  /\ failed = FALSE

\* The types of the n nodes lowered last.
Operands(n) == SubSeq(stack, Len(stack) - n + 1, Len(stack))
Below(n) == SubSeq(stack, 1, Len(stack) - n)

Leaf(type) ==
  /\ ~failed /\ Len(stack) < MaxDepth
  /\ stack' = Append(stack, type)
  /\ last' = [node |-> "leaf", types |-> << >>, result |-> type]
  /\ UNCHANGED failed

Literal == \E type \in Kinds \ {"date"} : Leaf(type)

Column == \E type \in ColumnTypes : Leaf(type)

(***************************************************************************)
(* A node of n operands is given its type, or the walk ends in an error.   *)
(***************************************************************************)
Lower(node, n, result, code) ==
  /\ ~failed /\ n <= Len(stack) /\ Len(stack) - n < MaxDepth
  /\ IF result \in Failures
     THEN /\ last' = [node |-> node, types |-> Operands(n), result |-> code]
          /\ failed' = TRUE
          /\ UNCHANGED stack
     ELSE /\ last' = [node |-> node, types |-> Operands(n), result |-> result]
          /\ stack' = Append(Below(n), result)
          /\ UNCHANGED failed

Negate ==
  /\ Len(stack) >= 1
  /\ Lower("negate", 1, IF AllowsType(Last(stack), {"number"}) THEN "number" ELSE "operands",
           "invalid_unary_operand")

Binary == \E op \in BinaryOps :
  /\ Len(stack) >= 2
  /\ LET types == Operands(2) IN
     Lower(op, 2, BinaryResultType(op, types[1], types[2]), BinaryError(op))

Call == \E name \in FunctionNames, n \in 0..MaxDepth :
  /\ n <= Len(stack)
  /\ Lower(name, n, FunctionResultType(name, Operands(n)), FunctionError(name, Operands(n)))

Next == Literal \/ Column \/ Negate \/ Binary \/ Call

Spec == Init /\ [][Next]_vars

-----------------------------------------------------------------------------
Codes ==
  {"invalid_unary_operand", "unknown_function", "invalid_function_arity", "invalid_if_condition",
   "incompatible_if_branches"}
    \cup {BinaryError(op) : op \in BinaryOps} \cup {FunctionError(name, <<"null", "null">>) : name \in FunctionNames}
    \cup {FunctionError(name, <<"null">>) : name \in FunctionNames}

(***************************************************************************)
(* The nodes have one of the six types, an error one of its codes.         *)
(***************************************************************************)
TypeOK ==
  /\ stack \in Seq(Types) /\ Len(stack) <= MaxDepth
  /\ failed \in BOOLEAN
  /\ last.result \in (IF failed THEN Codes ELSE Types \cup {"none"})

IsCall == last.node \in FunctionNames

(***************************************************************************)
(* functionResultType and renderCall: a call that is accepted, of however  *)
(* many arguments, is one that the renderer knows; it writes each of its   *)
(* arguments and reaches for none that is not there.                       *)
(***************************************************************************)
AcceptedCallsRender ==
  (IsCall /\ ~failed) =>
    /\ last.node \in Rendered
    /\ Written(last.node, Len(last.types)) = DOMAIN last.types

(***************************************************************************)
(* functionResultType, semanticFunctionError and builtin.specs hold three  *)
(* copies of the arities and names: a call gets the error of a name or of  *)
(* a number of arguments exactly when the table that completion and        *)
(* signatures are made from says so.                                       *)
(***************************************************************************)
ErrorsFollowSpecs ==
  IsCall =>
    LET n == Len(last.types) IN
    /\ (last.result = "unknown_function") <=> (last.node \notin DOMAIN Specs)
    /\ (last.result = "invalid_function_arity") <=>
         /\ last.node \in DOMAIN Specs
         /\ \/ n < Specs[last.node][1]
            \/ Specs[last.node][2] # -1 /\ n > Specs[last.node][2]

(***************************************************************************)
(* The arguments that the hint of an error tells to change.                *)
(***************************************************************************)
Blamed ==
  CASE last.result = "invalid_if_condition" -> {1}
    [] last.result = "incompatible_if_branches" -> {2, 3}
    [] OTHER -> DOMAIN last.types

(***************************************************************************)
(* semanticFunctionError: who follows the hint, and puts arguments that    *)
(* are surely right (null) in place of the blamed ones, is rid of that     *)
(* error.                                                                  *)
(***************************************************************************)
HintsHelp ==
  (failed /\ IsCall /\ last.result \notin {"unknown_function", "invalid_function_arity"}) =>
    LET mended == [i \in DOMAIN last.types |-> IF i \in Blamed THEN "null" ELSE last.types[i]] IN
    \/ FunctionResultType(last.node, mended) \notin Failures
    \/ FunctionError(last.node, mended) # last.result

\* The error code of a call that is refused is that of the check which refused it.
ErrorsTellTheFault == ErrorsFollowSpecs /\ HintsHelp

\* The type of a node over operands of these types, or a failure.
Retyped(types) ==
  IF last.node \in BinaryOps THEN BinaryResultType(last.node, types[1], types[2])
  ELSE FunctionResultType(last.node, types)

(***************************************************************************)
(* allowsType, Compatible and Unify: null may stand for a value of any     *)
(* type.  What is refused with a null is refused with every value in its   *)
(* place; what is accepted with a null, as null or as some type, is        *)
(* accepted with a value in its place, too.  (An unknown type is accepted  *)
(* by an operator, but not by a comparison with a known one.)              *)
(***************************************************************************)
NullStandsForAnything ==
  ((IsCall \/ last.node \in BinaryOps) /\ "unknown" \notin Range(last.types)) =>
    \A i \in DOMAIN last.types : last.types[i] = "null" =>
      LET with(type) == Retyped([last.types EXCEPT ![i] = type])
          accepted == {type \in Types \ {"null", "unknown"} : with(type) \notin Failures}
      IN  IF failed THEN accepted = {}
          ELSE \E type \in accepted : last.result \in {"null", with(type)}

(***************************************************************************)
(* sum, comparison, conjunction, COALESCE and the branches of IF do not    *)
(* care which argument comes first, as long as no type is unknown; Unify   *)
(* stops at the first unknown or the first mismatch, whichever it meets.   *)
(***************************************************************************)
OrderDoesNotMatter ==
  (last.node \in {"+", "*", "&", "=", "!=", "AND", "OR", "COALESCE", "NULLVALUE", "IF"}
     /\ last.result # "invalid_function_arity" /\ "unknown" \notin Range(last.types)) =>
    LET reversed == IF last.node = "IF" THEN <<last.types[1]>> \o Reverse(Tail(last.types))
                    ELSE Reverse(last.types)
    IN  IF failed THEN Retyped(reversed) \in Failures ELSE Retyped(reversed) = last.result
=============================================================================
