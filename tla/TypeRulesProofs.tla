--------------------------- MODULE TypeRulesProofs ---------------------------
(***************************************************************************)
(* What the type rules promise, for expressions of any size and calls with *)
(* any number of arguments.                                                *)
(***************************************************************************)
EXTENDS TypeRules, SequenceTheorems, WellFoundedInduction, TLAPS

(***************************************************************************)
(* A set that holds 0, and n + 1 with each n below a bound, holds every    *)
(* number up to the bound.  (The provers cannot instantiate an induction   *)
(* rule with a predicate, so it is used through sets.)                     *)
(***************************************************************************)
LEMMA CountUp ==
  ASSUME NEW bound \in Nat, NEW S, 0 \in S,
         \A n \in Nat : n < bound /\ n \in S => n + 1 \in S
  PROVE  0..bound \subseteq S
<1> DEFINE R == OpToRel(<, Nat)
           T == (0..bound) \ S
<1>1. ASSUME NEW n \in Nat, n # 0 PROVE <<n - 1, n>> \in R
  BY <1>1 DEF OpToRel
<1>2. IsWellFoundedOn(R, Nat)
  BY NatLessThanWellFounded
<1>3. \A n \in T : n # 0 /\ n - 1 \in T
  OBVIOUS
<1>4. T \subseteq Nat
  OBVIOUS
<1> HIDE DEF R, T
<1>5. ASSUME T # {} PROVE FALSE
  <2>1. PICK n \in T : \A m \in T : <<m, n>> \notin R
    BY <1>2, <1>4, <1>5, WFMin
  <2>2. QED
    BY <1>1, <1>3, <1>4, <2>1
<1>6. QED
  BY <1>5 DEF T

(***************************************************************************)
(* Unify is a fold, that is, a function defined by recursion on sets of    *)
(* positions; it exists.                                                   *)
(***************************************************************************)
Unifies(f, types, positions) ==
  f = [s \in SUBSET positions |->
         IF s = {} THEN "null" ELSE UnifyStep(f[s \ {Max(s)}], types[Max(s)])]

LEMMA UnifyFold ==
  ASSUME NEW types
  PROVE  Unify(types) = (CHOOSE f : Unifies(f, types, DOMAIN types))[DOMAIN types]
  BY DEF Unify, FoldLeft, MapThenFoldSet, Max, Unifies

LEMMA UnifiesAt ==
  ASSUME NEW types, NEW n \in Nat, NEW f, Unifies(f, types, 1..n), NEW s \in SUBSET (1..n)
  PROVE  f[s] = IF s = {} THEN "null" ELSE UnifyStep(f[s \ {Max(s)}], types[Max(s)])
  BY DEF Unifies

LEMMA GreatestIs ==
  ASSUME NEW n \in Nat, NEW s \in SUBSET (1..n), n \in s
  PROVE  Max(s) = n
<1>1. \A x \in s : x <= n /\ x \in Nat
  OBVIOUS
<1>2. \A x \in s : (\A y \in s : x >= y) => x = n
  BY <1>1
<1>3. \E x \in s : \A y \in s : x >= y
  BY <1>1
<1> QED
  BY <1>2, <1>3 DEF Max

LEMMA UnifyExists ==
  ASSUME NEW types, NEW n \in Nat
  PROVE  \E f : Unifies(f, types, 1..n)
<1> DEFINE S == {k \in Nat : \E f : Unifies(f, types, 1..k)}
<1>1. 0 \in S
  <2> DEFINE f == [s \in SUBSET (1..0) |-> "null"]
  <2>1. SUBSET (1..0) = {{}}
    OBVIOUS
  <2>2. \A s \in SUBSET (1..0) :
          f[s] = IF s = {} THEN "null" ELSE UnifyStep(f[s \ {Max(s)}], types[Max(s)])
    BY <2>1
  <2>3. f = [s \in SUBSET (1..0) |-> f[s]]
    OBVIOUS
  <2> HIDE DEF f
  <2>4. Unifies(f, types, 1..0)
    BY <2>2, <2>3 DEF Unifies
  <2> QED
    BY <2>4
<1>2. ASSUME NEW k \in Nat, k \in S
      PROVE  k + 1 \in S
  <2>1. PICK f : Unifies(f, types, 1..k)
    BY <1>2
  <2> DEFINE g == [s \in SUBSET (1..(k + 1)) |->
                     IF k + 1 \in s THEN UnifyStep(f[s \ {k + 1}], types[k + 1]) ELSE f[s]]
  <2>2. \A s \in SUBSET (1..(k + 1)) : k + 1 \notin s => g[s] = f[s]
    OBVIOUS
  <2>3. \A s \in SUBSET (1..(k + 1)) :
          k + 1 \in s => g[s] = UnifyStep(f[s \ {k + 1}], types[k + 1])
    OBVIOUS
  <2>4. g = [s \in SUBSET (1..(k + 1)) |-> g[s]]
    OBVIOUS
  <2> HIDE DEF g
  <2>5. ASSUME NEW s \in SUBSET (1..(k + 1))
        PROVE  g[s] = IF s = {} THEN "null" ELSE UnifyStep(g[s \ {Max(s)}], types[Max(s)])
    <3>1. CASE k + 1 \in s
      <4>1. Max(s) = k + 1
        BY <3>1, GreatestIs
      <4>2. s \ {k + 1} \in SUBSET (1..(k + 1)) /\ k + 1 \notin s \ {k + 1}
        OBVIOUS
      <4>3. g[s \ {k + 1}] = f[s \ {k + 1}]
        BY <2>2, <4>2
      <4> QED
        BY <2>3, <3>1, <4>1, <4>3
    <3>2. CASE k + 1 \notin s
      <4>0. \A x \in s : x \in 1..k
        BY <3>2
      <4>1. s \in SUBSET (1..k) /\ s \ {Max(s)} \in SUBSET (1..(k + 1))
        BY <4>0
      <4>2. g[s] = f[s] /\ g[s \ {Max(s)}] = f[s \ {Max(s)}]
        BY <2>2, <3>2, <4>1
      <4>3. f[s] = IF s = {} THEN "null" ELSE UnifyStep(f[s \ {Max(s)}], types[Max(s)])
        BY <2>1, <4>1, UnifiesAt
      <4> QED
        BY <4>2, <4>3
    <3> QED
      BY <3>1, <3>2
  <2>6. Unifies(g, types, 1..(k + 1))
    BY <2>4, <2>5 DEF Unifies
  <2> QED
    BY <2>6
<1>3. n \in S
  <2> HIDE DEF S
  <2>1. 0..n \subseteq S
    BY <1>1, <1>2, CountUp
  <2> QED
    BY <2>1
<1> QED
  BY <1>3

(***************************************************************************)
(* Unify goes through the arguments one by one.                            *)
(***************************************************************************)
LEMMA UnifyOneByOne ==
  ASSUME NEW types, NEW n \in Nat, DOMAIN types = 1..n
  PROVE  \E u : /\ u[0] = "null"
                /\ \A k \in 1..n : u[k] = UnifyStep(u[k - 1], types[k])
                /\ Unify(types) = u[n]
<1>1. PICK f : Unifies(f, types, 1..n) /\ Unify(types) = f[1..n]
  <2>1. \E f : Unifies(f, types, DOMAIN types)
    BY UnifyExists
  <2>2. Unifies(CHOOSE f : Unifies(f, types, DOMAIN types), types, DOMAIN types)
    BY <2>1
  <2> QED
    BY <2>2, UnifyFold
<1> DEFINE u == [k \in 0..n |-> f[1..k]]
<1>2. u[0] = "null"
  <2>1. 1..0 = {} /\ {} \in SUBSET (1..n)
    OBVIOUS
  <2>2. f[{}] = "null"
    BY <1>1, <2>1, UnifiesAt
  <2> QED
    BY <2>1, <2>2
<1>3. ASSUME NEW k \in 1..n
      PROVE  u[k] = UnifyStep(u[k - 1], types[k])
  <2>0. k \in 0..n /\ k - 1 \in 0..n
    OBVIOUS
  <2>1. 1..k \in SUBSET (1..n) /\ 1..k # {} /\ (1..k) \ {k} = 1..(k - 1)
    OBVIOUS
  <2>2. Max(1..k) = k
    BY GreatestIs
  <2>3. \A s \in SUBSET (1..n) : s # {} => f[s] = UnifyStep(f[s \ {Max(s)}], types[Max(s)])
    <3> SUFFICES ASSUME NEW s \in SUBSET (1..n), s # {}
                 PROVE  f[s] = UnifyStep(f[s \ {Max(s)}], types[Max(s)])
      OBVIOUS
    <3>1. Unifies(f, types, 1..n)
      BY <1>1
    <3>2. f[s] = IF s = {} THEN "null" ELSE UnifyStep(f[s \ {Max(s)}], types[Max(s)])
      BY ONLY <3>1, n \in Nat, s \in SUBSET (1..n), UnifiesAt
    <3> QED
      BY <3>2
  <2>4. f[1..k] = UnifyStep(f[(1..k) \ {Max(1..k)}], types[Max(1..k)])
    BY <2>1, <2>3, Zenon
  <2>5. u[k] = f[1..k] /\ u[k - 1] = f[1..(k - 1)]
    BY <2>0
  <2> QED
    BY <2>1, <2>2, <2>4, <2>5
<1>4. Unify(types) = u[n]
  BY <1>1
<1> QED
  <2> HIDE DEF u
  <2> QED
    BY <1>2, <1>3, <1>4

(***************************************************************************)
(* What Unify tells of the first k types: the one type that all have which *)
(* have any, or that there is none; it stops where that is unknown.        *)
(***************************************************************************)
Unified(result, types, k) ==
  /\ result \in Types \cup {"mismatch"}
  /\ result \in Kinds => \A i \in 1..k : types[i] \in {result, "null"}
  /\ result \in Kinds \ {"null"} => \E i \in 1..k : types[i] = result
  /\ result = "unknown" => \E i \in 1..k : types[i] = "unknown"
  /\ result = "mismatch" => \E i, j \in 1..k :
       types[i] \notin {"null", "unknown"} /\ types[j] \notin {"null", "unknown"} /\ types[i] # types[j]

LEMMA UnifiedOneMore ==
  ASSUME NEW types, NEW k \in Nat, NEW result, Unified(result, types, k), types[k + 1] \in Types
  PROVE  Unified(UnifyStep(result, types[k + 1]), types, k + 1)
<1> DEFINE current == types[k + 1]
           after == UnifyStep(result, current)
<1>1. \A i : i \in 1..(k + 1) <=> i \in 1..k \/ i = k + 1
  OBVIOUS
<1>2. CASE result \in {"unknown", "mismatch"}
  <2>1. after = result
    BY <1>2 DEF UnifyStep
  <2> QED
    BY <1>1, <1>2, <2>1 DEF Unified, Types, Kinds
<1>3. CASE result \notin {"unknown", "mismatch"} /\ current = "unknown"
  <2>1. after = "unknown"
    BY <1>3 DEF UnifyStep
  <2> QED
    BY <1>1, <1>3, <2>1 DEF Unified, Types, Kinds
<1>4. CASE result = "null" /\ current # "unknown"
  <2>1. after = current /\ current \in Kinds
    BY <1>4 DEF UnifyStep, Types
  <2> QED
    BY <1>1, <1>4, <2>1 DEF Unified, Types, Kinds
<1>5. CASE result \in Kinds \ {"null"} /\ current \in {"null", result}
  <2>1. after = result
    BY <1>5 DEF UnifyStep, Kinds
  <2> QED
    BY <1>1, <1>5, <2>1 DEF Unified, Types, Kinds
<1>6. CASE result \in Kinds \ {"null"} /\ current \notin {"null", "unknown", result}
  <2>1. after = "mismatch"
    BY <1>6 DEF UnifyStep, Kinds
  <2>2. PICK i \in 1..k : types[i] = result
    BY <1>6 DEF Unified
  <2>3. types[i] \notin {"null", "unknown"} /\ current \notin {"null", "unknown"} /\ types[i] # current
    BY <1>6, <2>2 DEF Kinds
  <2> QED
    BY <1>1, <2>1, <2>3 DEF Unified, Types, Kinds
<1> QED
  BY <1>2, <1>3, <1>4, <1>5, <1>6 DEF Unified, Types

LEMMA UnifyMeans ==
  ASSUME NEW types \in Seq(Types)
  PROVE  Unified(Unify(types), types, Len(types))
<1> DEFINE n == Len(types)
<1>1. n \in Nat /\ DOMAIN types = 1..n /\ \A k \in 1..n : types[k] \in Types
  OBVIOUS
<1> HIDE DEF n
<1>2. PICK u : /\ u[0] = "null"
               /\ \A k \in 1..n : u[k] = UnifyStep(u[k - 1], types[k])
               /\ Unify(types) = u[n]
  BY <1>1, UnifyOneByOne
<1> DEFINE S == {k \in Nat : k <= n => Unified(u[k], types, k)}
<1>3. 0 \in S
  BY <1>2 DEF Unified, Types, Kinds
<1>4. ASSUME NEW k \in Nat, k < n /\ k \in S
      PROVE  k + 1 \in S
  <2>1. Unified(u[k], types, k) /\ k + 1 \in 1..n /\ (k + 1) - 1 = k
    BY <1>1, <1>4
  <2>2. types[k + 1] \in Types /\ u[k + 1] = UnifyStep(u[k], types[k + 1])
    BY <1>1, <1>2, <2>1
  <2>3. Unified(u[k + 1], types, k + 1)
    BY <2>1, <2>2, UnifiedOneMore
  <2> QED
    BY <2>3
<1>5. n \in S
  <2> HIDE DEF S
  <2> QED
    BY <1>1, <1>3, <1>4, CountUp
<1> QED
  BY <1>1, <1>2, <1>5 DEF n

(***************************************************************************)
(* The other way round: which types unify, if none is unknown.             *)
(***************************************************************************)
LEMMA KindsAreTypes == \A types \in Seq(Kinds) : types \in Seq(Types)
  BY DEF Types

LEMMA UnifyNulls ==
  ASSUME NEW types \in Seq(Kinds), \A i \in 1..Len(types) : types[i] = "null"
  PROVE  Unify(types) = "null"
<1>1. Unified(Unify(types), types, Len(types))
  BY KindsAreTypes, UnifyMeans
<1> QED
  BY <1>1 DEF Unified, Types

LEMMA UnifyOfKind ==
  ASSUME NEW types \in Seq(Kinds), NEW kind \in Kinds \ {"null"},
         \A i \in 1..Len(types) : types[i] \in {kind, "null"},
         \E i \in 1..Len(types) : types[i] = kind
  PROVE  Unify(types) = kind
<1>1. Unified(Unify(types), types, Len(types))
  BY KindsAreTypes, UnifyMeans
<1>2. kind \notin {"null", "unknown"}
  BY DEF Kinds
<1> QED
  BY <1>1, <1>2 DEF Unified, Types

LEMMA UnifyMismatch ==
  ASSUME NEW types \in Seq(Kinds), NEW i \in 1..Len(types), NEW j \in 1..Len(types),
         types[i] # "null", types[j] # "null", types[i] # types[j]
  PROVE  Unify(types) = "mismatch"
<1>1. Unified(Unify(types), types, Len(types))
  BY KindsAreTypes, UnifyMeans
<1>2. \A k \in 1..Len(types) : types[k] # "unknown"
  BY DEF Kinds
<1> QED
  BY <1>1, <1>2 DEF Unified, Types

-----------------------------------------------------------------------------
(***************************************************************************)
(* The names and arities of functionResultType, semanticFunctionError and  *)
(* builtin.specs.                                                          *)
(***************************************************************************)
Arity(name, n) == n >= Specs[name][1] /\ (Specs[name][2] # -1 => n <= Specs[name][2])

ErrorsAsSpecified(name, types) ==
  LET result == FunctionResultType(name, types)
      code == FunctionError(name, types)
  IN  /\ name \notin DOMAIN Specs => result = "name" /\ code = "unknown_function"
      /\ name \in DOMAIN Specs =>
           /\ code # "unknown_function"
           /\ result \in Failures => (code = "invalid_function_arity" <=> ~Arity(name, Len(types)))
           /\ result \notin Failures => Arity(name, Len(types))

LEMMA SpecsNames ==
  DOMAIN Specs = {"IF", "AND", "OR", "NOT", "STRING", "DATE", "COALESCE", "NULLVALUE", "ISNULL",
                  "ISBLANK", "TODAY", "ABS", "ROUND", "LEN", "UPPER", "LOWER", "TRIM"}
  BY DEF Specs

LEMMA SpecsValues ==
  /\ Specs["IF"] = <<3, 3>> /\ Specs["NULLVALUE"] = <<2, 2>>
  /\ Specs["TODAY"] = <<0, 0>> /\ Specs["ROUND"] = <<1, 2>>
  /\ \A name \in {"AND", "OR"} : Specs[name] = <<2, -1>>
  /\ Specs["COALESCE"] = <<1, -1>>
  /\ \A name \in {"NOT", "STRING", "DATE", "ISNULL", "ISBLANK", "ABS", "LEN", "UPPER", "LOWER", "TRIM"} :
       Specs[name] = <<1, 1>>
  BY DEF Specs

LEMMA ArityIs ==
  ASSUME NEW name, NEW n \in Nat, NEW least \in Nat, NEW most \in Nat, Specs[name] = <<least, most>>
  PROVE  Arity(name, n) <=> n \in least..most
  BY DEF Arity

LEMMA ArityIsOne ==
  ASSUME NEW name, NEW n \in Nat, NEW number \in Nat, Specs[name] = <<number, number>>
  PROVE  Arity(name, n) <=> n = number
<1>1. Arity(name, n) <=> n \in number..number
  BY ArityIs
<1> QED
  BY <1>1

LEMMA UnifyNeverArity ==
  ASSUME NEW types \in Seq(Types)
  PROVE  Unify(types) \in Types \cup {"mismatch"}
  BY UnifyMeans DEF Unified

LEMMA FollowsSpecs ==
  ASSUME NEW name, NEW types \in Seq(Types)
  PROVE  ErrorsAsSpecified(name, types)
<1> DEFINE n == Len(types)
           result == FunctionResultType(name, types)
           code == FunctionError(name, types)
<1>0. n \in Nat /\ \A i \in 1..n : types[i] \in Types
  OBVIOUS
<1>1. CASE name \notin DOMAIN Specs
  <2>1. result = "name" /\ code = "unknown_function"
    BY <1>1, SpecsNames DEF FunctionResultType, FunctionError
  <2> QED
    BY <1>1, <2>1 DEF ErrorsAsSpecified
<1>2. CASE name = "IF"
  <2>0. Specs[name] = <<3, 3>>
    BY <1>2, SpecsValues
  <2>1. Arity(name, n) <=> n = 3
    BY <1>0, <2>0, ArityIsOne
  <2>2. result \notin Failures => n = 3
    BY <1>2 DEF FunctionResultType, Failures
  <2>3. code = IF n = 3 THEN IfError(types) ELSE "invalid_function_arity"
    BY <1>2 DEF FunctionError
  <2> QED
    BY <1>2, <2>1, <2>2, <2>3, SpecsNames DEF ErrorsAsSpecified, IfError
<1>3. CASE name \in {"AND", "OR"}
  <2>1. Arity(name, n) <=> n >= 2
    BY <1>0, <1>3, SpecsValues DEF Arity
  <2>2. result \notin Failures => n >= 2
    BY <1>3 DEF FunctionResultType, Takes, Failures
  <2>3. code = IF n >= 2 THEN "invalid_boolean_arguments" ELSE "invalid_function_arity"
    BY <1>3 DEF FunctionError
  <2> QED
    BY <1>3, <2>1, <2>2, <2>3, SpecsNames DEF ErrorsAsSpecified
<1>4. CASE name \in {"NOT", "DATE", "ABS", "LEN", "UPPER", "LOWER", "TRIM"}
  <2>0. Specs[name] = <<1, 1>>
    BY <1>4, SpecsValues
  <2>1. Arity(name, n) <=> n = 1
    BY <1>0, <2>0, ArityIsOne
  <2>2. result \notin Failures => n = 1
    BY <1>4 DEF FunctionResultType, Takes, Failures
  <2>3. code \in {IF n = 1 THEN other ELSE "invalid_function_arity" :
                    other \in {"invalid_boolean_argument", "invalid_date_argument",
                               "invalid_numeric_argument", "invalid_string_argument"}}
    BY <1>4 DEF FunctionError
  <2> QED
    BY <1>4, <2>1, <2>2, <2>3, SpecsNames DEF ErrorsAsSpecified
<1>5. CASE name \in {"STRING", "ISNULL", "ISBLANK"}
  <2>0. Specs[name] = <<1, 1>>
    BY <1>5, SpecsValues
  <2>1. Arity(name, n) <=> n = 1
    BY <1>0, <2>0, ArityIsOne
  <2>2. result \notin Failures <=> n = 1
    BY <1>0, <1>5 DEF FunctionResultType, Takes, Failures, AllowsType
  <2>3. code = "invalid_function_arity"
    BY <1>5 DEF FunctionError
  <2> QED
    BY <1>5, <2>1, <2>2, <2>3, SpecsNames DEF ErrorsAsSpecified
<1>6. CASE name = "TODAY"
  <2>1. Arity(name, n) <=> n = 0
    BY <1>0, <1>6, SpecsValues DEF Arity
  <2>2. result \notin Failures <=> n = 0
    BY <1>0, <1>6 DEF FunctionResultType, Takes, Failures, AllowsType
  <2>3. code = "invalid_function_arity"
    BY <1>6 DEF FunctionError
  <2> QED
    BY <1>6, <2>1, <2>2, <2>3, SpecsNames DEF ErrorsAsSpecified
<1>7. CASE name = "COALESCE"
  <2>1. Arity(name, n) <=> n >= 1
    BY <1>0, <1>7, SpecsValues DEF Arity
  <2>2. result \notin Failures => n >= 1
    BY <1>0, <1>7 DEF FunctionResultType, Failures
  <2>3. code = IF n >= 1 THEN "incompatible_coalesce_arguments" ELSE "invalid_function_arity"
    BY <1>7 DEF FunctionError
  <2> QED
    BY <1>7, <2>1, <2>2, <2>3, SpecsNames DEF ErrorsAsSpecified
<1>8. CASE name = "NULLVALUE"
  <2>0. Specs[name] = <<2, 2>>
    BY <1>8, SpecsValues
  <2>1. Arity(name, n) <=> n = 2
    BY <1>0, <2>0, ArityIsOne
  <2>2. result \notin Failures => n = 2
    BY <1>0, <1>8 DEF FunctionResultType, Failures
  <2>3. code = IF n = 2 THEN "incompatible_nullvalue_arguments" ELSE "invalid_function_arity"
    BY <1>8 DEF FunctionError
  <2> QED
    BY <1>8, <2>1, <2>2, <2>3, SpecsNames DEF ErrorsAsSpecified
<1>9. CASE name = "ROUND"
  <2>0. Specs[name] = <<1, 2>>
    BY <1>9, SpecsValues
  <2>1. Arity(name, n) <=> n \in 1..2
    BY <1>0, <2>0, ArityIs
  <2>2. result \notin Failures => n \in 1..2
    BY <1>0, <1>9 DEF FunctionResultType, Takes, Failures
  <2>3. code = IF n \in 1..2 THEN "invalid_numeric_argument" ELSE "invalid_function_arity"
    BY <1>9 DEF FunctionError
  <2> QED
    BY <1>9, <2>1, <2>2, <2>3, SpecsNames DEF ErrorsAsSpecified
<1> QED
  BY <1>1, <1>2, <1>3, <1>4, <1>5, <1>6, <1>7, <1>8, <1>9, SpecsNames

-----------------------------------------------------------------------------
(***************************************************************************)
(* The types and the codes that the rules give.                            *)
(***************************************************************************)
LEMMA TakesGives ==
  ASSUME NEW types, NEW arity, NEW allowed, NEW result
  PROVE  Takes(types, arity, allowed, result) \in {result, "arity", "argument"}
  BY DEF Takes

LEMMA TailTypes ==
  ASSUME NEW S, NEW types \in Seq(S), Len(types) = 3
  PROVE  /\ Tail(types) \in Seq(S) /\ Len(Tail(types)) = 2
         /\ Tail(types)[1] = types[2] /\ Tail(types)[2] = types[3]
         /\ types[1] \in S /\ types[2] \in S /\ types[3] \in S
  OBVIOUS

LEMMA FunctionResults ==
  ASSUME NEW name, NEW types \in Seq(Types)
  PROVE  FunctionResultType(name, types) \in Types \cup Failures
<1> DEFINE result == FunctionResultType(name, types)
<1>0. {"arity", "argument", "name", "mismatch"} \subseteq Failures /\ {"number", "string", "boolean", "date"} \subseteq Types
  BY DEF Types, Kinds, Failures
<1>1. CASE name = "IF"
  <2>1. result \in {"arity", "argument"} \/ (Len(types) = 3 /\ result = Unify(Tail(types)))
    BY <1>1 DEF FunctionResultType
  <2>2. Len(types) = 3 => Unify(Tail(types)) \in Types \cup {"mismatch"}
    BY TailTypes, UnifyNeverArity
  <2> QED
    BY <1>0, <2>1, <2>2
<1>2. CASE name \in {"COALESCE", "NULLVALUE"}
  <2>1. result \in {"arity", Unify(types)}
    BY <1>2 DEF FunctionResultType
  <2> QED
    BY <1>0, <2>1, UnifyNeverArity
<1>3. CASE name \notin {"IF", "COALESCE", "NULLVALUE"}
  <2>1. result \in {"number", "string", "boolean", "date", "arity", "argument", "name"}
    BY <1>3 DEF FunctionResultType, Takes
  <2> QED
    BY <1>0, <2>1
<1> QED
  BY <1>1, <1>2, <1>3

LEMMA BinaryResults ==
  ASSUME NEW op \in BinaryOps, NEW left, NEW right
  PROVE  BinaryResultType(op, left, right) \in {"number", "string", "boolean", "date", "operands"}
  BY DEF BinaryResultType, BinaryOps, Comparisons, SumType, DifferenceType

LEMMA FailuresAreNoTypes == Types \cap Failures = {}
  BY DEF Types, Kinds, Failures

LEMMA ErrorOfName ==
  ASSUME NEW name, NEW types \in Seq(Types)
  PROVE  FunctionError(name, types) \in
           {"invalid_function_arity", "unknown_function", "invalid_if_condition", "incompatible_if_branches",
            FunctionError(name, <<"null">>), FunctionError(name, <<"null", "null">>)}
<1>0. Len(types) \in Nat
  OBVIOUS
<1>1. CASE name = "IF"
  BY <1>1 DEF FunctionError, IfError
<1>2. CASE name \in {"AND", "OR"}
  BY <1>0, <1>2 DEF FunctionError
<1>3. CASE name \in {"NOT", "DATE", "ABS", "LEN", "UPPER", "LOWER", "TRIM"}
  BY <1>0, <1>3 DEF FunctionError
<1>4. CASE name \in {"COALESCE", "NULLVALUE", "ROUND"}
  BY <1>0, <1>4 DEF FunctionError
<1>5. CASE name \notin {"IF", "AND", "OR", "NOT", "DATE", "ABS", "LEN", "UPPER", "LOWER", "TRIM",
                        "COALESCE", "NULLVALUE", "ROUND"}
  BY <1>0, <1>5 DEF FunctionError
<1> QED
  BY <1>1, <1>2, <1>3, <1>4, <1>5

LEMMA ErrorIsCode ==
  ASSUME NEW name \in FunctionNames, NEW types \in Seq(Types)
  PROVE  FunctionError(name, types) \in Codes
<1>1. FunctionError(name, <<"null">>) \in Codes
  BY DEF Codes
<1>2. FunctionError(name, <<"null", "null">>) \in Codes
  BY DEF Codes
<1>3. {"invalid_function_arity", "unknown_function", "invalid_if_condition", "incompatible_if_branches"} \subseteq Codes
  BY DEF Codes
<1> QED
  BY <1>1, <1>2, <1>3, ErrorOfName, Zenon

LEMMA BinaryErrorIsCode ==
  ASSUME NEW op \in BinaryOps
  PROVE  BinaryError(op) \in Codes
  BY DEF Codes

-----------------------------------------------------------------------------
(***************************************************************************)
(* The operands of a node, and what stays on the stack below them.         *)
(***************************************************************************)
LEMMA OperandsAre ==
  ASSUME stack \in Seq(Types), NEW n \in Nat, n <= Len(stack)
  PROVE  /\ Operands(n) \in Seq(Types) /\ Len(Operands(n)) = n
         /\ Below(n) \in Seq(Types) /\ Len(Below(n)) = Len(stack) - n
<1> DEFINE size == Len(stack)
<1>0. size \in Nat
  OBVIOUS
<1>1. size - n + 1 \in 1..(size + 1) /\ size \in (size - n + 1 - 1)..size
  BY <1>0
<1>2. Operands(n) \in Seq(Types) /\ Len(Operands(n)) = n
  BY <1>0, <1>1 DEF Operands
<1>3. Below(n) \in Seq(Types) /\ Len(Below(n)) = size - n
  BY <1>0 DEF Below
<1> QED
  BY <1>2, <1>3

\* last is what its rule makes of the types of the operands.
FromRule(result, code) ==
  IF failed THEN result \in Failures /\ last.result = code
  ELSE result \notin Failures /\ last.result = result

ByTheRules ==
  /\ last.types \in Seq(Types)
  /\ IsCall => FromRule(FunctionResultType(last.node, last.types), FunctionError(last.node, last.types))
  /\ last.node \in BinaryOps =>
       /\ Len(last.types) = 2
       /\ FromRule(BinaryResultType(last.node, last.types[1], last.types[2]), BinaryError(last.node))

RulesInv == TypeOK /\ ByTheRules

LEMMA NamesApart == FunctionNames \cap (BinaryOps \cup {"leaf", "negate", "none"}) = {}
<1>1. DOMAIN Specs \cap (BinaryOps \cup {"leaf", "negate", "none"}) = {}
  BY SpecsNames DEF BinaryOps
<1> QED
  BY <1>1, OtherNamesAssumption DEF FunctionNames

LEMMA TagsApart == BinaryOps \cap {"leaf", "negate", "none"} = {}
  BY DEF BinaryOps

LEMMA PutOnTop ==
  ASSUME NEW S, NEW below \in Seq(S), NEW top \in S
  PROVE  Append(below, top) \in Seq(S) /\ Len(Append(below, top)) = Len(below) + 1
  OBVIOUS

LEMMA LowerKeeps ==
  ASSUME TypeOK, NEW node, NEW n \in Nat, n <= Len(stack),
         NEW result \in Types \cup Failures, NEW code \in Codes,
         Lower(node, n, result, code)
  PROVE  /\ TypeOK'
         /\ last'.node = node /\ last'.types = Operands(n)
         /\ Operands(n) \in Seq(Types) /\ Len(Operands(n)) = n
         /\ IF failed' THEN result \in Failures /\ last'.result = code
            ELSE result \notin Failures /\ last'.result = result
<1>0. /\ stack \in Seq(Types) /\ Len(stack) \in Nat /\ MaxDepth \in Nat
      /\ failed = FALSE /\ Len(stack) <= MaxDepth /\ Len(stack) - n < MaxDepth
  BY MaxDepthAssumption DEF TypeOK, Lower
<1>1. /\ Operands(n) \in Seq(Types) /\ Len(Operands(n)) = n
      /\ Below(n) \in Seq(Types) /\ Len(Below(n)) = Len(stack) - n
  BY <1>0, OperandsAre
<1>2. CASE result \in Failures
  <2>1. /\ last' = [node |-> node, types |-> Operands(n), result |-> code]
        /\ failed' = TRUE /\ stack' = stack
    BY <1>2 DEF Lower
  <2> QED
    BY <1>0, <1>1, <1>2, <2>1 DEF TypeOK
<1>3. CASE result \notin Failures
  <2>1. /\ last' = [node |-> node, types |-> Operands(n), result |-> result]
        /\ failed' = FALSE /\ stack' = Append(Below(n), result)
    BY <1>0, <1>3 DEF Lower
  <2>2. result \in Types
    BY <1>3
  <2>3. stack' \in Seq(Types) /\ Len(stack') = (Len(stack) - n) + 1
    <3>1. Below(n) \in Seq(Types) /\ Len(Below(n)) = Len(stack) - n
      BY <1>1
    <3>2. Append(Below(n), result) \in Seq(Types) /\ Len(Append(Below(n), result)) = Len(Below(n)) + 1
      BY ONLY <2>2, <3>1, PutOnTop, Zenon
    <3> QED
      BY ONLY <2>1, <3>1, <3>2, Zenon
  <2>4. Len(stack') <= MaxDepth
    BY <1>0, <2>3
  <2> QED
    BY <1>1, <1>3, <2>1, <2>2, <2>3, <2>4 DEF TypeOK
<1> QED
  BY <1>2, <1>3

LEMMA LeafKeeps ==
  ASSUME RulesInv, NEW type \in Types, Leaf(type)
  PROVE  RulesInv'
<1>1. /\ stack \in Seq(Types) /\ Len(stack) \in Nat /\ MaxDepth \in Nat
      /\ Len(stack) < MaxDepth
      /\ last' = [node |-> "leaf", types |-> << >>, result |-> type]
      /\ stack' = Append(stack, type) /\ failed' = FALSE
  BY MaxDepthAssumption DEF RulesInv, TypeOK, Leaf
<1>2. stack' \in Seq(Types) /\ Len(stack') = Len(stack) + 1
  BY <1>1
<1>3. TypeOK'
  <2>1. Len(stack') <= MaxDepth
    BY <1>1, <1>2
  <2>2. last'.result = type /\ last'.result \in Types
    BY <1>1
  <2> QED
    BY <1>1, <1>2, <2>1, <2>2 DEF TypeOK
<1>4. "leaf" \notin FunctionNames /\ "leaf" \notin BinaryOps
  BY NamesApart, TagsApart
<1>5. << >> \in Seq(Types)
  OBVIOUS
<1> QED
  BY <1>1, <1>3, <1>4, <1>5 DEF RulesInv, ByTheRules, IsCall

LEMMA LiteralKeeps ==
  ASSUME RulesInv, Literal
  PROVE  RulesInv'
  BY LeafKeeps DEF Literal, Types

LEMMA ColumnKeeps ==
  ASSUME RulesInv, Column
  PROVE  RulesInv'
  BY LeafKeeps, ColumnTypesAssumption DEF Column

LEMMA NegateKeeps ==
  ASSUME RulesInv, Negate
  PROVE  RulesInv'
<1> DEFINE result == IF AllowsType(Last(stack), {"number"}) THEN "number" ELSE "operands"
<1>1. Len(stack) >= 1 /\ Lower("negate", 1, result, "invalid_unary_operand")
  BY DEF Negate
<1>2. TypeOK /\ stack \in Seq(Types) /\ Len(stack) \in Nat /\ 1 <= Len(stack)
  BY <1>1 DEF RulesInv, TypeOK
<1>3. result \in Types \cup Failures /\ "invalid_unary_operand" \in Codes
  BY DEF Types, Kinds, Failures, Codes
<1> HIDE DEF result
<1>4. TypeOK' /\ last'.node = "negate" /\ last'.types \in Seq(Types)
  BY <1>1, <1>2, <1>3, LowerKeeps
<1>5. "negate" \notin FunctionNames /\ "negate" \notin BinaryOps
  BY NamesApart, TagsApart
<1> QED
  BY <1>4, <1>5 DEF RulesInv, ByTheRules, IsCall

LEMMA BinaryKeeps ==
  ASSUME RulesInv, Binary
  PROVE  RulesInv'
<1> DEFINE types == Operands(2)
<1>1. PICK op \in BinaryOps :
        /\ Len(stack) >= 2
        /\ Lower(op, 2, BinaryResultType(op, types[1], types[2]), BinaryError(op))
  BY DEF Binary
<1> DEFINE result == BinaryResultType(op, types[1], types[2])
<1>2. TypeOK /\ stack \in Seq(Types) /\ Len(stack) \in Nat /\ 2 <= Len(stack)
  BY <1>1 DEF RulesInv, TypeOK
<1>3. Len(types) = 2 /\ types \in Seq(Types)
  BY <1>2, OperandsAre
<1> HIDE DEF types
<1>4. result \in Types \cup Failures
  <2>1. result \in {"number", "string", "boolean", "date", "operands"}
    BY BinaryResults
  <2> QED
    BY <2>1 DEF Types, Kinds, Failures
<1>5. BinaryError(op) \in Codes
  BY BinaryErrorIsCode
<1>6. /\ TypeOK' /\ last'.node = op /\ last'.types = types
      /\ IF failed' THEN result \in Failures /\ last'.result = BinaryError(op)
         ELSE result \notin Failures /\ last'.result = result
  <2> HIDE DEF result
  <2> QED
    BY <1>1, <1>2, <1>4, <1>5, LowerKeeps DEF types, result
<1>7. op \notin FunctionNames
  BY NamesApart
<1> QED
  BY <1>3, <1>6, <1>7 DEF RulesInv, ByTheRules, IsCall, FromRule

LEMMA CallKeeps ==
  ASSUME RulesInv, Call
  PROVE  RulesInv'
<1>1. PICK name \in FunctionNames, n \in 0..MaxDepth :
        /\ n <= Len(stack)
        /\ Lower(name, n, FunctionResultType(name, Operands(n)), FunctionError(name, Operands(n)))
  BY DEF Call
<1> DEFINE types == Operands(n)
           result == FunctionResultType(name, types)
           code == FunctionError(name, types)
<1>2. TypeOK /\ stack \in Seq(Types) /\ n \in Nat
  BY MaxDepthAssumption DEF RulesInv, TypeOK
<1>3. Len(types) = n /\ types \in Seq(Types)
  BY <1>1, <1>2, OperandsAre
<1> HIDE DEF types
<1>4. result \in Types \cup Failures
  BY <1>3, FunctionResults
<1>5. code \in Codes
  BY <1>3, ErrorIsCode
<1>6. /\ TypeOK' /\ last'.node = name /\ last'.types = types
      /\ IF failed' THEN result \in Failures /\ last'.result = code
         ELSE result \notin Failures /\ last'.result = result
  <2>1. Lower(name, n, result, code)
    BY <1>1 DEF types
  <2> HIDE DEF result, code
  <2> QED
    BY <1>1, <1>2, <1>4, <1>5, <2>1, LowerKeeps DEF types
<1>7. name \notin BinaryOps
  BY NamesApart
<1> QED
  BY <1>3, <1>6, <1>7 DEF RulesInv, ByTheRules, IsCall, FromRule

LEMMA RulesAlways == Spec => []RulesInv
<1>1. Init => RulesInv
  <2> SUFFICES ASSUME Init
               PROVE  RulesInv
    OBVIOUS
  <2>1. /\ stack = << >> /\ failed = FALSE /\ last.node = "none" /\ last.types = << >>
        /\ last.result = "none"
    BY DEF Init
  <2>2. "none" \notin FunctionNames /\ "none" \notin BinaryOps
    BY NamesApart, TagsApart
  <2>3. << >> \in Seq(Types) /\ Len(<< >>) = 0 /\ 0 <= MaxDepth
    BY MaxDepthAssumption
  <2>4. TypeOK
    BY <2>1, <2>3 DEF TypeOK
  <2> QED
    BY <2>1, <2>2, <2>3, <2>4 DEF RulesInv, ByTheRules, IsCall
<1>2. RulesInv /\ [Next]_vars => RulesInv'
  <2> SUFFICES ASSUME RulesInv, [Next]_vars
               PROVE  RulesInv'
    OBVIOUS
  <2>1. CASE UNCHANGED vars
    BY <2>1 DEF vars, RulesInv, TypeOK, ByTheRules, FromRule, IsCall
  <2> QED
    BY <2>1, LiteralKeeps, ColumnKeeps, NegateKeeps, BinaryKeeps, CallKeeps DEF Next
<1> QED
  BY <1>1, <1>2, PTL DEF Spec

(***************************************************************************)
(* lowerExpr: the nodes that wait for their parent have one of the six     *)
(* types, and what ended the walk has one of the codes of the diagnostics. *)
(***************************************************************************)
THEOREM TypesAreTypes == Spec => []TypeOK
<1>1. RulesInv => TypeOK
  BY DEF RulesInv
<1> QED
  BY <1>1, RulesAlways, PTL

(***************************************************************************)
(* What is accepted has as many arguments as renderCall writes.            *)
(***************************************************************************)
LEMMA AcceptedIsWritten ==
  ASSUME NEW name \in FunctionNames, NEW types \in Seq(Types),
         FunctionResultType(name, types) \notin Failures
  PROVE  name \in Rendered /\ Written(name, Len(types)) = DOMAIN types
<1> DEFINE n == Len(types)
           result == FunctionResultType(name, types)
<1>0. n \in Nat /\ DOMAIN types = 1..n /\ result # "arity" /\ result # "name"
  BY DEF Failures
<1>1. name \in {"IF", "AND", "OR", "NOT", "STRING", "DATE", "COALESCE", "NULLVALUE", "ISNULL",
               "ISBLANK", "TODAY", "ABS", "ROUND", "LEN", "UPPER", "LOWER", "TRIM"}
  BY <1>0 DEF FunctionResultType
<1>2. CASE name = "IF"
  <2>1. n = 3
    BY <1>0, <1>2 DEF FunctionResultType
  <2> QED BY <1>0, <1>1, <1>2, <2>1 DEF Rendered, Written
<1>3. CASE name \in {"AND", "OR", "COALESCE", "NULLVALUE", "ROUND"}
  BY <1>0, <1>1, <1>3 DEF Rendered, Written
<1>4. CASE name = "TODAY"
  <2>1. n = 0
    BY <1>0, <1>4 DEF FunctionResultType, Takes
  <2> QED BY <1>0, <1>1, <1>4, <2>1 DEF Rendered, Written
<1>5. CASE name \in {"NOT", "STRING", "DATE", "ISNULL", "ISBLANK", "ABS", "LEN", "UPPER",
                    "LOWER", "TRIM"}
  <2>1. n = 1
    BY <1>0, <1>5 DEF FunctionResultType, Takes
  <2>2. Written(name, n) = {1}
    BY <1>5 DEF Written
  <2> QED BY <1>0, <1>1, <2>1, <2>2 DEF Rendered
<1> QED BY <1>1, <1>2, <1>3, <1>4, <1>5

(***************************************************************************)
(* functionResultType and renderCall: whatever is called, with however     *)
(* many arguments, when it is accepted the renderer knows the function,    *)
(* writes every argument and reaches for none that is not there.           *)
(***************************************************************************)
THEOREM AcceptedIsRendered == Spec => []AcceptedCallsRender
<1>1. RulesInv => AcceptedCallsRender
  BY AcceptedIsWritten DEF RulesInv, ByTheRules, FromRule, AcceptedCallsRender, IsCall
<1> QED
  BY <1>1, RulesAlways, PTL

-----------------------------------------------------------------------------
(***************************************************************************)
(* What Unify accepts is of one type, or null.                             *)
(***************************************************************************)
LEMMA UnifiedKinds ==
  ASSUME NEW types \in Seq(Kinds), Unify(types) \notin Failures
  PROVE  Unify(types) \in Kinds /\ \A i \in 1..Len(types) : types[i] \in {Unify(types), "null"}
<1>1. Unified(Unify(types), types, Len(types))
  BY KindsAreTypes, UnifyMeans
<1>2. \A k \in 1..Len(types) : types[k] # "unknown"
  BY DEF Kinds
<1> QED
  BY <1>1, <1>2 DEF Unified, Types, Failures

LEMMA BinaryIs ==
  ASSUME NEW left, NEW right
  PROVE  /\ BinaryResultType("+", left, right) = SumType(left, right)
         /\ BinaryResultType("-", left, right) = DifferenceType(left, right)
         /\ \A op \in {"*", "/"} : BinaryResultType(op, left, right) =
              IF Accepts(left, "number", right, "number") THEN "number" ELSE "operands"
         /\ BinaryResultType("&", left, right) =
              IF Accepts(left, "string", right, "string") THEN "string" ELSE "operands"
         /\ \A op \in Comparisons :
              BinaryResultType(op, left, right) = IF Compatible(left, right) THEN "boolean" ELSE "operands"
  BY DEF BinaryResultType, Comparisons

-----------------------------------------------------------------------------
(***************************************************************************)
(* Most functions want arguments of some types, and give one type.         *)
(***************************************************************************)
UnifyingNames == {"IF", "COALESCE", "NULLVALUE"}

Wanted(name) ==
  CASE name \in {"AND", "OR", "NOT"} -> {"boolean"}
    [] name \in {"STRING", "ISNULL", "ISBLANK"} -> Types
    [] name = "DATE" -> {"string", "date"}
    [] name \in {"ABS", "ROUND"} -> {"number"}
    [] name = "TODAY" -> {}
    [] OTHER -> {"string"}

Given(name) ==
  CASE name \in {"AND", "OR", "NOT", "ISNULL", "ISBLANK"} -> "boolean"
    [] name \in {"DATE", "TODAY"} -> "date"
    [] name \in {"ABS", "ROUND", "LEN"} -> "number"
    [] OTHER -> "string"

\* What the types say is that all are wanted.
AllWanted(name, types) == \A i \in 1..Len(types) : AllowsType(types[i], Wanted(name))

LEMMA PlainFunction ==
  ASSUME NEW name \in DOMAIN Specs \ UnifyingNames, NEW types \in Seq(Types)
  PROVE  /\ FunctionResultType(name, types) \notin Failures <=> Arity(name, Len(types)) /\ AllWanted(name, types)
         /\ FunctionResultType(name, types) \notin Failures => FunctionResultType(name, types) = Given(name)
         /\ FunctionResultType(name, types) \in Failures \cup {Given(name)}
<1> DEFINE n == Len(types)
           result == FunctionResultType(name, types)
<1>0. n \in Nat /\ DOMAIN types = 1..n
  OBVIOUS
<1>a. {"arity", "argument"} \subseteq Failures /\ Failures \cap {"boolean", "date", "number", "string"} = {}
  BY DEF Failures
<1>1. CASE name \in {"AND", "OR"}
  <2>1. Specs[name] = <<2, -1>>
    BY <1>1, SpecsValues
  <2>2. Arity(name, n) <=> n >= 2
    BY <1>0, <2>1 DEF Arity
  <2>3. Wanted(name) = {"boolean"} /\ Given(name) = "boolean"
    BY <1>1 DEF Wanted, Given
  <2>4. result = IF n >= 2 THEN IF \A i \in 1..n : AllowsType(types[i], {"boolean"}) THEN "boolean" ELSE "argument"
                 ELSE "arity"
    BY <1>0, <1>1 DEF FunctionResultType, Takes
  <2> QED
    BY <1>a, <2>2, <2>3, <2>4 DEF AllWanted
<1>2. CASE name \in {"NOT", "STRING", "DATE", "ISNULL", "ISBLANK", "ABS", "LEN", "UPPER", "LOWER", "TRIM"}
  <2>1. Specs[name] = <<1, 1>>
    BY <1>2, SpecsValues
  <2>2. Arity(name, n) <=> n = 1
    BY <1>0, <2>1, ArityIsOne
  <2>3. Given(name) \in {"boolean", "date", "number", "string"}
    BY DEF Given
  <2>4. result = IF n = 1 THEN IF \A i \in 1..n : AllowsType(types[i], Wanted(name)) THEN Given(name) ELSE "argument"
                 ELSE "arity"
    BY <1>0, <1>2 DEF FunctionResultType, Takes, Wanted, Given
  <2> QED
    BY <1>a, <2>2, <2>3, <2>4 DEF AllWanted
<1>3. CASE name = "TODAY"
  <2>1. Specs[name] = <<0, 0>>
    BY <1>3, SpecsValues
  <2>2. Arity(name, n) <=> n = 0
    BY <1>0, <2>1, ArityIsOne
  <2>3. Wanted(name) = {} /\ Given(name) = "date"
    BY <1>3 DEF Wanted, Given
  <2>4. result = IF n = 0 THEN IF \A i \in 1..n : AllowsType(types[i], {}) THEN "date" ELSE "argument"
                 ELSE "arity"
    BY <1>0, <1>3 DEF FunctionResultType, Takes
  <2> QED
    BY <1>a, <2>2, <2>3, <2>4 DEF AllWanted
<1>4. CASE name = "ROUND"
  <2>1. Specs[name] = <<1, 2>>
    BY <1>4, SpecsValues
  <2>2. Arity(name, n) <=> n \in 1..2
    BY <1>0, <2>1, ArityIs
  <2>3. Wanted(name) = {"number"} /\ Given(name) = "number"
    BY <1>4 DEF Wanted, Given
  <2>4. result = IF n \in 1..2 THEN IF \A i \in 1..n : AllowsType(types[i], {"number"}) THEN "number" ELSE "argument"
                 ELSE "arity"
    BY <1>0, <1>4 DEF FunctionResultType, Takes
  <2> QED
    BY <1>a, <2>2, <2>3, <2>4 DEF AllWanted
<1> QED
  BY <1>1, <1>2, <1>3, <1>4, SpecsNames DEF UnifyingNames

(***************************************************************************)
(* The other functions unify.                                              *)
(***************************************************************************)
LEMMA UnifyingFunction ==
  ASSUME NEW name \in {"COALESCE", "NULLVALUE"}, NEW types \in Seq(Types)
  PROVE  IF Arity(name, Len(types)) THEN FunctionResultType(name, types) = Unify(types)
         ELSE FunctionResultType(name, types) = "arity"
<1>0. Len(types) \in Nat
  OBVIOUS
<1>1. CASE name = "COALESCE"
  <2>1. Arity(name, Len(types)) <=> Len(types) >= 1
    BY <1>0, <1>1, SpecsValues DEF Arity
  <2> QED
    BY <1>0, <1>1, <2>1 DEF FunctionResultType
<1>2. CASE name = "NULLVALUE"
  <2>1. Specs[name] = <<2, 2>>
    BY <1>2, SpecsValues
  <2>2. Arity(name, Len(types)) <=> Len(types) = 2
    BY <1>0, <2>1, ArityIsOne
  <2> QED
    BY <1>2, <2>2 DEF FunctionResultType
<1> QED
  BY <1>1, <1>2

LEMMA IfFunction ==
  ASSUME NEW types \in Seq(Types)
  PROVE  FunctionResultType("IF", types) =
           IF Len(types) # 3 THEN "arity"
           ELSE IF ~AllowsType(types[1], {"boolean"}) THEN "argument" ELSE Unify(Tail(types))
  BY DEF FunctionResultType

-----------------------------------------------------------------------------
(***************************************************************************)
(* Errors: names and numbers of arguments, and hints.                      *)
(***************************************************************************)
LEMMA ArityIsNot ==
  ASSUME NEW name \in DOMAIN Specs, NEW n \in Nat
  PROVE  ~Arity(name, n) <=> n < Specs[name][1] \/ (Specs[name][2] # -1 /\ n > Specs[name][2])
<1>1. Specs[name][1] \in Int /\ Specs[name][2] \in Int
  BY DEF Specs
<1> QED
  BY <1>1 DEF Arity

LEMMA CallsFollowSpecs ==
  ASSUME RulesInv
  PROVE  ErrorsFollowSpecs
<1> SUFFICES ASSUME IsCall
             PROVE  LET n == Len(last.types) IN
                    /\ (last.result = "unknown_function") <=> (last.node \notin DOMAIN Specs)
                    /\ (last.result = "invalid_function_arity") <=>
                         /\ last.node \in DOMAIN Specs
                         /\ \/ n < Specs[last.node][1]
                            \/ Specs[last.node][2] # -1 /\ n > Specs[last.node][2]
  BY DEF ErrorsFollowSpecs
<1> DEFINE name == last.node
           types == last.types
           n == Len(types)
           result == FunctionResultType(name, types)
           code == FunctionError(name, types)
<1>1. types \in Seq(Types) /\ FromRule(result, code) /\ n \in Nat
  BY DEF RulesInv, ByTheRules
<1>2. ErrorsAsSpecified(name, types)
  BY <1>1, FollowsSpecs
<1>3. name \in DOMAIN Specs =>
        (~Arity(name, n) <=> n < Specs[name][1] \/ (Specs[name][2] # -1 /\ n > Specs[name][2]))
  BY <1>1, ArityIsNot
<1>4. CASE failed
  <2>1. result \in Failures /\ last.result = code
    BY <1>1, <1>4 DEF FromRule
  <2>2. /\ name \notin DOMAIN Specs => code = "unknown_function"
        /\ name \in DOMAIN Specs => code # "unknown_function" /\ (code = "invalid_function_arity" <=> ~Arity(name, n))
    BY <1>2, <2>1 DEF ErrorsAsSpecified
  <2> HIDE DEF result, code, name
  <2> QED
    BY <1>3, <2>1, <2>2 DEF name
<1>5. CASE ~failed
  <2>1. result \notin Failures /\ last.result = result
    BY <1>1, <1>5 DEF FromRule
  <2>2. result \in Types
    BY <1>1, <2>1, FunctionResults
  <2>3. result \notin {"unknown_function", "invalid_function_arity"}
    BY <2>2 DEF Types, Kinds
  <2>4. name \in DOMAIN Specs /\ Arity(name, n)
    BY <1>2, <2>1 DEF ErrorsAsSpecified, Failures
  <2> HIDE DEF result, code, name
  <2> QED
    BY <1>3, <2>1, <2>3, <2>4 DEF name
<1> QED
  BY <1>4, <1>5

\* Nulls are accepted wherever their number is right.
LEMMA NullsAccepted ==
  ASSUME NEW name \in DOMAIN Specs, name # "IF", NEW types \in Seq(Kinds), Arity(name, Len(types)),
         \A i \in 1..Len(types) : types[i] = "null"
  PROVE  FunctionResultType(name, types) \notin Failures
<1>0. types \in Seq(Types)
  BY KindsAreTypes
<1>1. CASE name \in {"COALESCE", "NULLVALUE"}
  <2>1. FunctionResultType(name, types) = "null"
    BY <1>0, <1>1, UnifyingFunction, UnifyNulls
  <2> QED
    BY <2>1 DEF Failures
<1>2. CASE name \notin {"COALESCE", "NULLVALUE"}
  <2>1. AllWanted(name, types)
    BY DEF AllWanted, AllowsType
  <2>2. name \in DOMAIN Specs \ UnifyingNames
    BY <1>2 DEF UnifyingNames
  <2> QED
    BY <1>0, <2>1, <2>2, PlainFunction
<1> QED
  BY <1>1, <1>2

LEMMA OnlyKinds ==
  ASSUME NEW types \in Seq(Types), \A i \in 1..Len(types) : types[i] \in Kinds
  PROVE  types \in Seq(Kinds)
  OBVIOUS

LEMMA IfMended ==
  ASSUME NEW types \in Seq(Types), Len(types) = 3, NEW mended \in Seq(Types), Len(mended) = 3,
         \/ AllowsType(types[1], {"boolean"}) /\ mended[1] = types[1] /\ mended[2] = "null" /\ mended[3] = "null"
         \/ ~AllowsType(types[1], {"boolean"}) /\ mended[1] = "null"
  PROVE  \/ FunctionResultType("IF", mended) \notin Failures
         \/ FunctionError("IF", mended) # FunctionError("IF", types)
<1>1. CASE AllowsType(types[1], {"boolean"}) /\ mended[1] = types[1] /\ mended[2] = "null" /\ mended[3] = "null"
  <2>1. /\ Tail(mended) \in Seq(Types) /\ Len(Tail(mended)) = 2
        /\ Tail(mended)[1] = "null" /\ Tail(mended)[2] = "null"
    BY <1>1, TailTypes
  <2>2. \A i \in 1..2 : Tail(mended)[i] = "null"
    <3>1. \A i \in 1..2 : i = 1 \/ i = 2
      OBVIOUS
    <3> QED
      BY <2>1, <3>1
  <2>3. Tail(mended) \in Seq(Kinds)
    <3>1. "null" \in Kinds
      BY DEF Kinds
    <3> QED
      BY <2>1, <2>2, <3>1, OnlyKinds
  <2>4. Unify(Tail(mended)) = "null"
    BY <2>1, <2>2, <2>3, UnifyNulls
  <2>5. FunctionResultType("IF", mended) = "null"
    BY <1>1, <2>4, IfFunction
  <2> QED
    BY <2>5 DEF Failures
<1>2. CASE ~AllowsType(types[1], {"boolean"}) /\ mended[1] = "null"
  <2>1. FunctionError("IF", types) = "invalid_if_condition"
    BY <1>2 DEF FunctionError, IfError
  <2>2. AllowsType(mended[1], {"boolean"})
    BY <1>2 DEF AllowsType
  <2>3. FunctionError("IF", mended) = "incompatible_if_branches"
    BY <2>2 DEF FunctionError, IfError
  <2> QED
    BY <2>1, <2>3
<1> QED
  BY <1>1, <1>2

LEMMA MendedHelps ==
  ASSUME RulesInv
  PROVE  HintsHelp
<1> DEFINE name == last.node
           types == last.types
           n == Len(types)
           mended == [i \in DOMAIN types |-> IF i \in Blamed THEN "null" ELSE types[i]]
<1> SUFFICES ASSUME failed, IsCall, last.result \notin {"unknown_function", "invalid_function_arity"}
             PROVE  \/ FunctionResultType(name, mended) \notin Failures
                    \/ FunctionError(name, mended) # last.result
  BY DEF HintsHelp
<1>1. /\ types \in Seq(Types) /\ n \in Nat /\ DOMAIN types = 1..n
      /\ FunctionResultType(name, types) \in Failures /\ last.result = FunctionError(name, types)
  BY DEF RulesInv, ByTheRules, FromRule
<1>2. name \in DOMAIN Specs /\ Arity(name, n)
  BY <1>1, FollowsSpecs DEF ErrorsAsSpecified
<1>3. mended \in Seq(Types) /\ Len(mended) = n /\ \A i \in 1..n : mended[i] = IF i \in Blamed THEN "null" ELSE types[i]
  <2>1. "null" \in Types /\ \A i \in 1..n : types[i] \in Types
    BY <1>1 DEF Types, Kinds
  <2>2. mended = [i \in 1..n |-> IF i \in Blamed THEN "null" ELSE types[i]]
    BY <1>1
  <2> HIDE DEF mended, types
  <2> QED
    BY <1>1, <2>1, <2>2
<1> HIDE DEF mended
<1>4. CASE name = "IF"
  <2>1. Specs[name] = <<3, 3>>
    BY <1>4, SpecsValues
  <2>2. n = 3
    BY <1>1, <1>2, <2>1, ArityIsOne
  <2>3. last.result = IF AllowsType(types[1], {"boolean"}) THEN "incompatible_if_branches" ELSE "invalid_if_condition"
    BY <1>1, <1>4, <2>2 DEF FunctionError, IfError
  <2>4. CASE AllowsType(types[1], {"boolean"})
    <3>1. Blamed = {2, 3}
      BY <2>3, <2>4 DEF Blamed
    <3>2. mended[1] = types[1] /\ mended[2] = "null" /\ mended[3] = "null"
      BY <1>3, <2>2, <3>1
    <3> QED
      BY <1>1, <1>3, <1>4, <2>2, <2>4, <3>2, IfMended
  <2>5. CASE ~AllowsType(types[1], {"boolean"})
    <3>1. Blamed = {1}
      BY <2>3, <2>5 DEF Blamed
    <3>2. mended[1] = "null"
      BY <1>3, <2>2, <3>1
    <3> QED
      BY <1>1, <1>3, <1>4, <2>2, <2>5, <3>2, IfMended
  <2> QED
    BY <2>4, <2>5
<1>5. CASE name # "IF"
  <2>1. last.result \notin {"invalid_if_condition", "incompatible_if_branches"}
    BY <1>1, <1>5 DEF FunctionError
  <2>2. Blamed = 1..n
    BY <1>1, <2>1 DEF Blamed
  <2>3. \A i \in 1..n : mended[i] = "null"
    BY <1>3, <2>2
  <2>4. mended \in Seq(Kinds)
    <3>1. "null" \in Kinds
      BY DEF Kinds
    <3> QED
      BY <1>3, <2>3, <3>1
  <2> QED
    BY <1>2, <1>3, <1>5, <2>3, <2>4, NullsAccepted
<1> QED
  BY <1>4, <1>5

(***************************************************************************)
(* functionResultType, semanticFunctionError and builtin.specs: the error  *)
(* of a refused call is that of the check which refused it, for calls with *)
(* any number of arguments, and following its hint removes it.             *)
(***************************************************************************)
THEOREM ErrorsAreTrue == Spec => []ErrorsTellTheFault
<1>1. RulesInv => ErrorsTellTheFault
  BY CallsFollowSpecs, MendedHelps DEF ErrorsTellTheFault
<1> QED
  BY <1>1, RulesAlways, PTL

-----------------------------------------------------------------------------
(***************************************************************************)
(* Null, and the order of arguments: what Unify tells depends on which     *)
(* types there are.                                                        *)
(***************************************************************************)
LEMMA UnifyFails ==
  ASSUME NEW types \in Seq(Kinds), Unify(types) \in Failures
  PROVE  \E i, j \in 1..Len(types) : types[i] # "null" /\ types[j] # "null" /\ types[i] # types[j]
<1>1. Unified(Unify(types), types, Len(types))
  BY KindsAreTypes, UnifyMeans
<1>2. Unify(types) = "mismatch"
  BY <1>1, FailuresAreNoTypes DEF Unified
<1> QED
  BY <1>1, <1>2 DEF Unified

LEMMA UnifyWithin ==
  ASSUME NEW types \in Seq(Kinds), NEW kind \in Kinds, \A i \in 1..Len(types) : types[i] \in {kind, "null"}
  PROVE  Unify(types) \in {kind, "null"} /\ Unify(types) \notin Failures
<1>1. Unify(types) \in {kind, "null"}
  <2>1. CASE \A i \in 1..Len(types) : types[i] = "null"
    BY <2>1, UnifyNulls
  <2>2. CASE ~\A i \in 1..Len(types) : types[i] = "null"
    <3>1. kind \in Kinds \ {"null"} /\ \E i \in 1..Len(types) : types[i] = kind
      BY <2>2
    <3> QED
      BY <3>1, UnifyOfKind
  <2> QED
    BY <2>1, <2>2
<1>2. kind \notin Failures /\ "null" \notin Failures
  BY DEF Kinds, Failures
<1> QED
  BY <1>1, <1>2

LEMMA SameTypesUnify ==
  ASSUME NEW types \in Seq(Kinds), NEW others \in Seq(Kinds),
         \A i \in 1..Len(types) : \E j \in 1..Len(others) : others[j] = types[i],
         \A j \in 1..Len(others) : \E i \in 1..Len(types) : types[i] = others[j]
  PROVE  Unify(types) = Unify(others)
<1>1. CASE Unify(types) \in Failures
  <2>1. PICK i \in 1..Len(types), j \in 1..Len(types) :
          types[i] # "null" /\ types[j] # "null" /\ types[i] # types[j]
    BY <1>1, UnifyFails
  <2>2. PICK k \in 1..Len(others) : others[k] = types[i]
    OBVIOUS
  <2>3. PICK l \in 1..Len(others) : others[l] = types[j]
    OBVIOUS
  <2> QED
    BY <2>1, <2>2, <2>3, UnifyMismatch
<1>2. CASE Unify(types) \notin Failures
  <2> DEFINE kind == Unify(types)
  <2>1. kind \in Kinds /\ \A i \in 1..Len(types) : types[i] \in {kind, "null"}
    BY <1>2, UnifiedKinds
  <2>2. \A j \in 1..Len(others) : others[j] \in {kind, "null"}
    BY <2>1
  <2>3. CASE kind = "null"
    BY <2>2, <2>3, UnifyNulls
  <2>4. CASE kind # "null"
    <3>1. \E i \in 1..Len(types) : types[i] = kind
      <4>1. Unified(kind, types, Len(types))
        BY KindsAreTypes, UnifyMeans
      <4> QED
        BY <2>1, <2>4, <4>1 DEF Unified
    <3>2. \E j \in 1..Len(others) : others[j] = kind
      BY <3>1
    <3> QED
      BY <2>1, <2>2, <2>4, <3>2, UnifyOfKind
  <2> QED
    BY <2>3, <2>4
<1> QED
  BY <1>1, <1>2

(***************************************************************************)
(* A null among the types gives way to a type.                             *)
(***************************************************************************)
LEMMA PutIn ==
  ASSUME NEW types \in Seq(Kinds), NEW i \in 1..Len(types), NEW kind \in Kinds
  PROVE  /\ [types EXCEPT ![i] = kind] \in Seq(Kinds) /\ Len([types EXCEPT ![i] = kind]) = Len(types)
         /\ [types EXCEPT ![i] = kind][i] = kind
         /\ \A j \in 1..Len(types) : j # i => [types EXCEPT ![i] = kind][j] = types[j]
  OBVIOUS

\* Result(types): what is said of types, and of types with a kind in place of a null.
GivesWay(before, after) ==
  /\ \A kind \in Kinds \ {"null"} : after[kind] \notin Failures => before \notin Failures
  /\ before \notin Failures =>
       \E kind \in Kinds \ {"null"} : after[kind] \notin Failures /\ before \in {"null", after[kind]}

LEMMA UnifyGivesWay ==
  ASSUME NEW types \in Seq(Kinds), NEW i \in 1..Len(types), types[i] = "null"
  PROVE  GivesWay(Unify(types), [kind \in Kinds |-> Unify([types EXCEPT ![i] = kind])])
<1> DEFINE With(kind) == [types EXCEPT ![i] = kind]
           after == [kind \in Kinds |-> Unify(With(kind))]
<1>1. \A kind \in Kinds : /\ With(kind) \in Seq(Kinds) /\ Len(With(kind)) = Len(types) /\ With(kind)[i] = kind
                          /\ \A j \in 1..Len(types) : j # i => With(kind)[j] = types[j]
  BY PutIn
<1>2. \A kind \in Kinds : after[kind] = Unify(With(kind))
  OBVIOUS
<1> HIDE DEF With, after
<1>3. ASSUME NEW kind \in Kinds \ {"null"}, after[kind] \notin Failures
      PROVE  Unify(types) \notin Failures
  <2> DEFINE u == Unify(With(kind))
  <2>1. u \in Kinds /\ \A j \in 1..Len(types) : With(kind)[j] \in {u, "null"}
    BY <1>1, <1>2, <1>3, UnifiedKinds
  <2>2. \A j \in 1..Len(types) : types[j] \in {u, "null"}
    BY <1>1, <2>1
  <2> HIDE DEF u
  <2> QED
    BY <2>1, <2>2, UnifyWithin
<1>4. ASSUME Unify(types) \notin Failures
      PROVE  \E kind \in Kinds \ {"null"} : after[kind] \notin Failures /\ Unify(types) \in {"null", after[kind]}
  <2> DEFINE u == Unify(types)
             kind == IF u = "null" THEN "number" ELSE u
  <2>1. u \in Kinds /\ \A j \in 1..Len(types) : types[j] \in {u, "null"}
    BY <1>4, UnifiedKinds
  <2>2. kind \in Kinds \ {"null"} /\ kind \notin Failures
    BY <2>1 DEF Kinds, Failures
  <2>3. u \in {kind, "null"} /\ \A j \in 1..Len(types) : types[j] \in {kind, "null"}
    BY <2>1
  <2> HIDE DEF kind, u
  <2>4. \A j \in 1..Len(types) : With(kind)[j] \in {kind, "null"}
    BY <1>1, <2>2, <2>3
  <2>5. Unify(With(kind)) = kind
    BY <1>1, <2>2, <2>4, UnifyOfKind
  <2>6. after[kind] = kind
    BY <1>2, <2>2, <2>5
  <2> QED
    BY <2>2, <2>3, <2>6 DEF u
<1> QED
  BY <1>3, <1>4 DEF GivesWay, after, With

LEMMA SameTwo ==
  ASSUME NEW S, NEW s \in Seq(S), NEW t \in Seq(S), Len(s) = 2, Len(t) = 2, s[1] = t[1], s[2] = t[2]
  PROVE  s = t
<1>1. \A i \in 1..2 : i = 1 \/ i = 2
  OBVIOUS
<1>2. \A i \in 1..Len(s) : s[i] = t[i]
  BY <1>1
<1> QED
  BY <1>2

LEMMA SomethingWanted ==
  ASSUME NEW name \in DOMAIN Specs, name # "TODAY"
  PROVE  \E kind \in Kinds \ {"null"} : kind \in Wanted(name)
<1>1. {"boolean", "string", "number"} \subseteq Kinds \ {"null"}
  BY DEF Kinds
<1>2. "boolean" \in Wanted(name) \/ "string" \in Wanted(name) \/ "number" \in Wanted(name)
  BY DEF Wanted, Types, Kinds
<1> QED
  BY <1>1, <1>2

LEMMA PlainGivesWay ==
  ASSUME NEW name \in DOMAIN Specs \ UnifyingNames,
         NEW types \in Seq(Kinds), NEW i \in 1..Len(types), types[i] = "null"
  PROVE  GivesWay(FunctionResultType(name, types),
                  [kind \in Kinds |-> FunctionResultType(name, [types EXCEPT ![i] = kind])])
<1> DEFINE With(kind) == [types EXCEPT ![i] = kind]
           before == FunctionResultType(name, types)
           after == [kind \in Kinds |-> FunctionResultType(name, With(kind))]
           n == Len(types)
<1>1. \A kind \in Kinds : /\ With(kind) \in Seq(Kinds) /\ Len(With(kind)) = n /\ With(kind)[i] = kind
                          /\ \A j \in 1..n : j # i => With(kind)[j] = types[j]
  BY PutIn
<1>2. \A kind \in Kinds : after[kind] = FunctionResultType(name, With(kind))
  OBVIOUS
<1> HIDE DEF With, after
<1>3. /\ before \notin Failures <=> Arity(name, n) /\ AllWanted(name, types)
      /\ before \notin Failures => before = Given(name)
  BY KindsAreTypes, PlainFunction
<1>4. ASSUME NEW kind \in Kinds
      PROVE  /\ after[kind] \notin Failures <=> Arity(name, n) /\ AllWanted(name, With(kind))
             /\ after[kind] \notin Failures => after[kind] = Given(name)
  <2>1. With(kind) \in Seq(Types) /\ Len(With(kind)) = n
    BY <1>1, KindsAreTypes
  <2>2. after[kind] = FunctionResultType(name, With(kind))
    BY <1>2
  <2> QED
    BY <2>1, <2>2, PlainFunction
<1>5. ASSUME NEW kind \in Kinds \ {"null"}, after[kind] \notin Failures
      PROVE  before \notin Failures
  <2>1. Arity(name, n) /\ AllWanted(name, With(kind))
    BY <1>4, <1>5
  <2>2. ASSUME NEW j \in 1..n
        PROVE  AllowsType(types[j], Wanted(name))
    <3>1. CASE j = i
      BY <3>1 DEF AllowsType
    <3>2. CASE j # i
      <4>1. AllowsType(With(kind)[j], Wanted(name))
        BY <1>1, <2>1 DEF AllWanted
      <4> QED
        BY <1>1, <3>2, <4>1
    <3> QED
      BY <3>1, <3>2
  <2> QED
    BY <1>3, <2>1, <2>2 DEF AllWanted
<1>6. ASSUME before \notin Failures
      PROVE  \E kind \in Kinds \ {"null"} : after[kind] \notin Failures /\ before \in {"null", after[kind]}
  <2>1. Arity(name, n) /\ AllWanted(name, types) /\ before = Given(name)
    BY <1>3, <1>6
  <2>2. name # "TODAY"
    <3> SUFFICES ASSUME name = "TODAY"
                 PROVE  FALSE
      OBVIOUS
    <3>1. Specs[name] = <<0, 0>> /\ n \in Nat
      BY SpecsValues
    <3>2. n = 0
      BY <2>1, <3>1, ArityIsOne
    <3> QED
      BY <3>2
  <2>3. PICK kind \in Kinds \ {"null"} : kind \in Wanted(name)
    BY <2>2, SomethingWanted
  <2>4. ASSUME NEW j \in 1..n
        PROVE  AllowsType(With(kind)[j], Wanted(name))
    <3>1. CASE j = i
      BY <1>1, <2>3, <3>1 DEF AllowsType
    <3>2. CASE j # i
      <4>1. AllowsType(types[j], Wanted(name))
        BY <2>1 DEF AllWanted
      <4> QED
        BY <1>1, <3>2, <4>1
    <3> QED
      BY <3>1, <3>2
  <2>5. AllWanted(name, With(kind))
    BY <1>1, <2>4 DEF AllWanted
  <2> QED
    BY <1>4, <2>1, <2>5
<1> QED
  BY <1>5, <1>6 DEF GivesWay, after, With

LEMMA IfGivesWay ==
  ASSUME NEW types \in Seq(Kinds), NEW i \in 1..Len(types), types[i] = "null"
  PROVE  GivesWay(FunctionResultType("IF", types),
                  [kind \in Kinds |-> FunctionResultType("IF", [types EXCEPT ![i] = kind])])
<1> DEFINE With(kind) == [types EXCEPT ![i] = kind]
           before == FunctionResultType("IF", types)
           after == [kind \in Kinds |-> FunctionResultType("IF", With(kind))]
           n == Len(types)
<1>1. \A kind \in Kinds : /\ With(kind) \in Seq(Kinds) /\ Len(With(kind)) = n /\ With(kind)[i] = kind
                          /\ \A j \in 1..n : j # i => With(kind)[j] = types[j]
  BY PutIn
<1>2. \A kind \in Kinds : after[kind] = FunctionResultType("IF", With(kind))
  OBVIOUS
<1> HIDE DEF With, after
<1>3. before = IF n # 3 THEN "arity"
               ELSE IF ~AllowsType(types[1], {"boolean"}) THEN "argument" ELSE Unify(Tail(types))
  BY KindsAreTypes, IfFunction
<1>4. ASSUME NEW kind \in Kinds
      PROVE  after[kind] = IF n # 3 THEN "arity"
                           ELSE IF ~AllowsType(With(kind)[1], {"boolean"}) THEN "argument"
                           ELSE Unify(Tail(With(kind)))
  <2>1. With(kind) \in Seq(Types) /\ Len(With(kind)) = n
    BY <1>1, KindsAreTypes
  <2>2. after[kind] = FunctionResultType("IF", With(kind))
    BY <1>2
  <2> QED
    BY <2>1, <2>2, IfFunction
<1>5. CASE n # 3
  <2>1. before = "arity" /\ \A kind \in Kinds : after[kind] = "arity"
    BY <1>3, <1>4, <1>5
  <2> QED
    BY <2>1 DEF GivesWay, Failures, after, With
<1>6. CASE n = 3 /\ i = 1
  <2>1. AllowsType(types[1], {"boolean"})
    BY <1>6 DEF AllowsType
  <2>2. before = Unify(Tail(types))
    BY <1>3, <1>6, <2>1
  <2>3. \A kind \in Kinds : Tail(With(kind)) = Tail(types)
    <3> SUFFICES ASSUME NEW kind \in Kinds
                 PROVE  Tail(With(kind)) = Tail(types)
      OBVIOUS
    <3>1. /\ Tail(types) \in Seq(Kinds) /\ Len(Tail(types)) = 2
          /\ Tail(types)[1] = types[2] /\ Tail(types)[2] = types[3]
      BY <1>6, TailTypes
    <3>2. /\ Tail(With(kind)) \in Seq(Kinds) /\ Len(Tail(With(kind))) = 2
          /\ Tail(With(kind))[1] = types[2] /\ Tail(With(kind))[2] = types[3]
      <4>1. With(kind) \in Seq(Kinds) /\ Len(With(kind)) = 3
        BY <1>1, <1>6
      <4>2. With(kind)[2] = types[2] /\ With(kind)[3] = types[3]
        BY <1>1, <1>6
      <4> QED
        BY <4>1, <4>2, TailTypes
    <3> QED
      BY <3>1, <3>2, SameTwo
  <2>4. ASSUME NEW kind \in Kinds, after[kind] \notin Failures
        PROVE  before \notin Failures
    BY <1>4, <1>6, <2>2, <2>3, <2>4 DEF Failures
  <2>5. after["boolean"] = before /\ "boolean" \in Kinds \ {"null"}
    <3>1. "boolean" \in Kinds /\ With("boolean")[1] = "boolean"
      BY <1>1, <1>6 DEF Kinds
    <3>2. AllowsType(With("boolean")[1], {"boolean"})
      BY <3>1 DEF AllowsType
    <3> QED
      BY <1>4, <1>6, <2>2, <2>3, <3>1, <3>2
  <2> QED
    BY <2>4, <2>5 DEF GivesWay, after, With
<1>7. CASE n = 3 /\ i # 1
  <2> DEFINE tail == Tail(types)
             unified == [kind \in Kinds |-> Unify([tail EXCEPT ![i - 1] = kind])]
  <2>1. /\ tail \in Seq(Kinds) /\ Len(tail) = 2
        /\ tail[1] = types[2] /\ tail[2] = types[3]
    BY <1>7, TailTypes
  <2>2. i \in {2, 3} /\ i - 1 \in 1..Len(tail) /\ tail[i - 1] = "null"
    BY <1>7, <2>1
  <2>3. GivesWay(Unify(tail), unified)
    <3> HIDE DEF tail
    <3> QED
      BY <2>1, <2>2, UnifyGivesWay
  <2>4. ASSUME NEW kind \in Kinds
        PROVE  Tail(With(kind)) = [tail EXCEPT ![i - 1] = kind]
    <3> DEFINE other == [tail EXCEPT ![i - 1] = kind]
    <3>1. /\ other \in Seq(Kinds) /\ Len(other) = 2 /\ other[i - 1] = kind
          /\ \A j \in 1..2 : j # i - 1 => other[j] = tail[j]
      <4> DEFINE k == i - 1
      <4> HIDE DEF tail, k
      <4>1. k \in 1..Len(tail)
        BY <2>2 DEF k
      <4>2. /\ [tail EXCEPT ![k] = kind] \in Seq(Kinds) /\ Len([tail EXCEPT ![k] = kind]) = Len(tail)
            /\ [tail EXCEPT ![k] = kind][k] = kind
            /\ \A j \in 1..Len(tail) : j # k => [tail EXCEPT ![k] = kind][j] = tail[j]
        <5>1. tail \in Seq(Kinds)
          BY <2>1
        <5> QED
          BY <4>1, <5>1
      <4> QED
        BY <2>1, <4>2 DEF k
    <3>2. /\ Tail(With(kind)) \in Seq(Kinds) /\ Len(Tail(With(kind))) = 2
          /\ Tail(With(kind))[1] = With(kind)[2] /\ Tail(With(kind))[2] = With(kind)[3]
      BY <1>1, <1>7, TailTypes
    <3> HIDE DEF other
    <3>3. With(kind)[2] = other[1] /\ With(kind)[3] = other[2]
      <4>1. CASE i = 2
        BY <1>1, <1>7, <2>1, <3>1, <4>1
      <4>2. CASE i = 3
        BY <1>1, <1>7, <2>1, <3>1, <4>2
      <4> QED
        BY <2>2, <4>1, <4>2
    <3>4. Tail(With(kind)) = other
      BY <3>1, <3>2, <3>3, SameTwo
    <3> QED
      BY <3>4 DEF other
  <2>5. CASE AllowsType(types[1], {"boolean"})
    <3>1. before = Unify(tail)
      BY <1>3, <1>7, <2>5
    <3>2. ASSUME NEW kind \in Kinds
          PROVE  after[kind] = unified[kind]
      <4>1. With(kind)[1] = types[1]
        BY <1>1, <1>7
      <4>2. after[kind] = Unify(Tail(With(kind)))
        BY <1>4, <1>7, <2>5, <4>1
      <4> QED
        BY <2>4, <4>2
    <3> HIDE DEF unified, tail, before
    <3>3. GivesWay(before, after)
      BY <2>3, <3>1, <3>2 DEF GivesWay
    <3> QED
      BY <3>3 DEF after, With, before
  <2>6. CASE ~AllowsType(types[1], {"boolean"})
    <3>1. before = "argument"
      BY <1>3, <1>7, <2>6
    <3>2. ASSUME NEW kind \in Kinds
          PROVE  after[kind] = "argument"
      <4>1. With(kind)[1] = types[1]
        BY <1>1, <1>7
      <4> QED
        BY <1>4, <1>7, <2>6, <4>1
    <3> QED
      BY <3>1, <3>2 DEF GivesWay, Failures, after, With
  <2> QED
    BY <2>5, <2>6
<1> QED
  BY <1>5, <1>6, <1>7

LEMMA FunctionGivesWay ==
  ASSUME NEW name, NEW types \in Seq(Kinds), NEW i \in 1..Len(types), types[i] = "null"
  PROVE  GivesWay(FunctionResultType(name, types),
                  [kind \in Kinds |-> FunctionResultType(name, [types EXCEPT ![i] = kind])])
<1> DEFINE With(kind) == [types EXCEPT ![i] = kind]
           before == FunctionResultType(name, types)
           after == [kind \in Kinds |-> FunctionResultType(name, With(kind))]
           unified == [kind \in Kinds |-> Unify(With(kind))]
<1>1. \A kind \in Kinds : With(kind) \in Seq(Types) /\ Len(With(kind)) = Len(types)
  BY PutIn, KindsAreTypes
<1>2. \A kind \in Kinds : after[kind] = FunctionResultType(name, With(kind)) /\ unified[kind] = Unify(With(kind))
  OBVIOUS
<1>3. CASE name \notin DOMAIN Specs
  <2>1. before = "name" /\ \A kind \in Kinds : after[kind] = "name"
    BY <1>3, SpecsNames DEF FunctionResultType
  <2> QED
    BY <2>1 DEF GivesWay, Failures
<1>4. CASE name \in DOMAIN Specs \ UnifyingNames
  BY <1>4, PlainGivesWay
<1>5. CASE name = "IF"
  BY <1>5, IfGivesWay
<1>6. CASE name \in {"COALESCE", "NULLVALUE"}
  <2>1. GivesWay(Unify(types), unified)
    BY UnifyGivesWay
  <2> HIDE DEF With, after, unified
  <2>2. types \in Seq(Types)
    BY KindsAreTypes
  <2>3. CASE Arity(name, Len(types))
    <3>1. before = Unify(types)
      BY <1>6, <2>2, <2>3, UnifyingFunction
    <3>2. ASSUME NEW kind \in Kinds
          PROVE  after[kind] = unified[kind]
      <4>1. FunctionResultType(name, With(kind)) = Unify(With(kind))
        BY <1>1, <1>6, <2>3, UnifyingFunction
      <4> QED
        BY <1>2, <4>1
    <3> HIDE DEF before
    <3>3. GivesWay(before, after)
      BY <2>1, <3>1, <3>2 DEF GivesWay
    <3> QED
      BY <3>3 DEF before, after, With
  <2>4. CASE ~Arity(name, Len(types))
    <3>1. before = "arity"
      BY <1>6, <2>2, <2>4, UnifyingFunction
    <3>2. ASSUME NEW kind \in Kinds
          PROVE  after[kind] = "arity"
      <4>1. FunctionResultType(name, With(kind)) = "arity"
        BY <1>1, <1>6, <2>4, UnifyingFunction
      <4> QED
        BY <1>2, <4>1
    <3> HIDE DEF before
    <3>3. GivesWay(before, after)
      BY <3>1, <3>2 DEF GivesWay, Failures
    <3> QED
      BY <3>3 DEF before, after, With
  <2> QED
    BY <2>3, <2>4
<1> QED
  BY <1>3, <1>4, <1>5, <1>6, SpecsNames DEF UnifyingNames

LEMMA AcceptsKinds ==
  ASSUME NEW left \in Kinds, NEW right \in Kinds, NEW l, NEW r
  PROVE  Accepts(left, l, right, r) <=> left \in {l, "null"} /\ right \in {r, "null"}
  BY DEF Accepts, AllowsType, Kinds

LEMMA NullLeft ==
  ASSUME NEW op \in BinaryOps, NEW right \in Kinds
  PROVE  GivesWay(BinaryResultType(op, "null", right), [kind \in Kinds |-> BinaryResultType(op, kind, right)])
<1>0. "null" \in Kinds /\ {"number", "string", "boolean", "date"} \subseteq Kinds \ {"null"}
  BY DEF Kinds
<1>1. CASE op = "+"
  <2>1. \A kind \in Kinds : SumType(kind, right) =
          IF kind \in {"number", "null"} /\ right \in {"number", "null"} THEN "number"
          ELSE IF \/ kind \in {"date", "null"} /\ right \in {"number", "null"}
                  \/ kind \in {"number", "null"} /\ right \in {"date", "null"} THEN "date"
          ELSE "operands"
    BY AcceptsKinds DEF SumType
  <2> QED
    BY <1>0, <1>1, <2>1, BinaryIs DEF GivesWay, Failures
<1>2. CASE op = "-"
  <2>1. \A kind \in Kinds : DifferenceType(kind, right) =
          IF kind \in {"number", "null"} /\ right \in {"number", "null"} THEN "number"
          ELSE IF kind \in {"date", "null"} /\ right \in {"number", "null"} THEN "date"
          ELSE IF kind \in {"date", "null"} /\ right \in {"date", "null"} THEN "number"
          ELSE "operands"
    BY AcceptsKinds DEF DifferenceType
  <2> QED
    BY <1>0, <1>2, <2>1, BinaryIs DEF GivesWay, Failures
<1>3. CASE op \in {"*", "/"}
  <2>1. \A kind \in Kinds : BinaryResultType(op, kind, right) =
          IF kind \in {"number", "null"} /\ right \in {"number", "null"} THEN "number" ELSE "operands"
    BY <1>3, AcceptsKinds, BinaryIs
  <2> QED
    BY <1>0, <2>1 DEF GivesWay, Failures
<1>4. CASE op = "&"
  <2>1. \A kind \in Kinds : BinaryResultType(op, kind, right) =
          IF kind \in {"string", "null"} /\ right \in {"string", "null"} THEN "string" ELSE "operands"
    BY <1>4, AcceptsKinds, BinaryIs
  <2> QED
    BY <1>0, <2>1 DEF GivesWay, Failures
<1>5. CASE op \in Comparisons
  <2>1. \A kind \in Kinds : BinaryResultType(op, kind, right) =
          IF kind = right \/ kind = "null" \/ right = "null" THEN "boolean" ELSE "operands"
    <3> SUFFICES ASSUME NEW kind \in Kinds
                 PROVE  BinaryResultType(op, kind, right) =
                          IF kind = right \/ kind = "null" \/ right = "null" THEN "boolean" ELSE "operands"
      OBVIOUS
    <3>1. BinaryResultType(op, kind, right) = IF Compatible(kind, right) THEN "boolean" ELSE "operands"
      BY <1>5, BinaryIs
    <3>2. Compatible(kind, right) <=> kind = right \/ kind = "null" \/ right = "null"
      BY DEF Compatible
    <3> QED
      BY <3>1, <3>2
  <2>2. \E kind \in Kinds \ {"null"} : kind = right \/ right = "null"
    BY <1>0
  <2> QED
    BY <1>0, <2>1, <2>2 DEF GivesWay, Failures
<1> QED
  BY <1>1, <1>2, <1>3, <1>4, <1>5 DEF BinaryOps, Comparisons

LEMMA NullRight ==
  ASSUME NEW op \in BinaryOps, NEW left \in Kinds
  PROVE  GivesWay(BinaryResultType(op, left, "null"), [kind \in Kinds |-> BinaryResultType(op, left, kind)])
<1>0. "null" \in Kinds /\ {"number", "string", "boolean", "date"} \subseteq Kinds \ {"null"}
  BY DEF Kinds
<1>1. CASE op = "+"
  <2>1. \A kind \in Kinds : SumType(left, kind) =
          IF left \in {"number", "null"} /\ kind \in {"number", "null"} THEN "number"
          ELSE IF \/ left \in {"date", "null"} /\ kind \in {"number", "null"}
                  \/ left \in {"number", "null"} /\ kind \in {"date", "null"} THEN "date"
          ELSE "operands"
    BY AcceptsKinds DEF SumType
  <2> QED
    BY <1>0, <1>1, <2>1, BinaryIs DEF GivesWay, Failures
<1>2. CASE op = "-"
  <2>1. \A kind \in Kinds : DifferenceType(left, kind) =
          IF left \in {"number", "null"} /\ kind \in {"number", "null"} THEN "number"
          ELSE IF left \in {"date", "null"} /\ kind \in {"number", "null"} THEN "date"
          ELSE IF left \in {"date", "null"} /\ kind \in {"date", "null"} THEN "number"
          ELSE "operands"
    BY AcceptsKinds DEF DifferenceType
  <2> QED
    BY <1>0, <1>2, <2>1, BinaryIs DEF GivesWay, Failures
<1>3. CASE op \in {"*", "/"}
  <2>1. \A kind \in Kinds : BinaryResultType(op, left, kind) =
          IF left \in {"number", "null"} /\ kind \in {"number", "null"} THEN "number" ELSE "operands"
    BY <1>3, AcceptsKinds, BinaryIs
  <2> QED
    BY <1>0, <2>1 DEF GivesWay, Failures
<1>4. CASE op = "&"
  <2>1. \A kind \in Kinds : BinaryResultType(op, left, kind) =
          IF left \in {"string", "null"} /\ kind \in {"string", "null"} THEN "string" ELSE "operands"
    BY <1>4, AcceptsKinds, BinaryIs
  <2> QED
    BY <1>0, <2>1 DEF GivesWay, Failures
<1>5. CASE op \in Comparisons
  <2>1. \A kind \in Kinds : BinaryResultType(op, left, kind) =
          IF kind = left \/ kind = "null" \/ left = "null" THEN "boolean" ELSE "operands"
    <3> SUFFICES ASSUME NEW kind \in Kinds
                 PROVE  BinaryResultType(op, left, kind) =
                          IF kind = left \/ kind = "null" \/ left = "null" THEN "boolean" ELSE "operands"
      OBVIOUS
    <3>1. BinaryResultType(op, left, kind) = IF Compatible(left, kind) THEN "boolean" ELSE "operands"
      BY <1>5, BinaryIs
    <3>2. Compatible(left, kind) <=> kind = left \/ kind = "null" \/ left = "null"
      BY DEF Compatible
    <3> QED
      BY <3>1, <3>2
  <2>2. \E kind \in Kinds \ {"null"} : kind = left \/ left = "null"
    BY <1>0
  <2> QED
    BY <1>0, <2>1, <2>2 DEF GivesWay, Failures
<1> QED
  BY <1>1, <1>2, <1>3, <1>4, <1>5 DEF BinaryOps, Comparisons

LEMMA BinaryGivesWay ==
  ASSUME NEW op \in BinaryOps, NEW types \in Seq(Kinds), Len(types) = 2,
         NEW i \in 1..Len(types), types[i] = "null"
  PROVE  GivesWay(BinaryResultType(op, types[1], types[2]),
                  [kind \in Kinds |-> BinaryResultType(op, [types EXCEPT ![i] = kind][1], [types EXCEPT ![i] = kind][2])])
<1>0. types[1] \in Kinds /\ types[2] \in Kinds /\ i \in {1, 2}
  OBVIOUS
<1>1. CASE i = 1
  <2>1. \A kind \in Kinds : [types EXCEPT ![i] = kind][1] = kind /\ [types EXCEPT ![i] = kind][2] = types[2]
    BY <1>1
  <2>2. GivesWay(BinaryResultType(op, "null", types[2]), [kind \in Kinds |-> BinaryResultType(op, kind, types[2])])
    BY <1>0, NullLeft
  <2> QED
    BY <1>1, <2>1, <2>2 DEF GivesWay
<1>2. CASE i = 2
  <2>1. \A kind \in Kinds : [types EXCEPT ![i] = kind][1] = types[1] /\ [types EXCEPT ![i] = kind][2] = kind
    BY <1>2
  <2>2. GivesWay(BinaryResultType(op, types[1], "null"), [kind \in Kinds |-> BinaryResultType(op, types[1], kind)])
    BY <1>0, NullRight
  <2> QED
    BY <1>2, <2>1, <2>2 DEF GivesWay
<1> QED
  BY <1>0, <1>1, <1>2

\* The types of last are known when none is unknown.
LEMMA KnownTypes ==
  ASSUME NEW types \in Seq(Types), "unknown" \notin Range(types)
  PROVE  types \in Seq(Kinds)
<1>1. \A i \in 1..Len(types) : types[i] \in Types /\ types[i] # "unknown"
  BY DEF Range
<1>2. \A i \in 1..Len(types) : types[i] \in Kinds
  BY <1>1 DEF Types
<1> QED
  BY <1>2, OnlyKinds

LEMMA NullStands ==
  ASSUME RulesInv
  PROVE  NullStandsForAnything
<1> DEFINE types == last.types
           before == Retyped(types)
<1> SUFFICES ASSUME IsCall \/ last.node \in BinaryOps, "unknown" \notin Range(types),
                    NEW i \in DOMAIN types, types[i] = "null"
             PROVE  LET with(type) == Retyped([types EXCEPT ![i] = type])
                        accepted == {type \in Types \ {"null", "unknown"} : with(type) \notin Failures}
                    IN  IF failed THEN accepted = {}
                        ELSE \E type \in accepted : last.result \in {"null", with(type)}
  BY DEF NullStandsForAnything
<1> DEFINE after == [kind \in Kinds |-> Retyped([types EXCEPT ![i] = kind])]
<1>1. types \in Seq(Types) /\ types \in Seq(Kinds) /\ i \in 1..Len(types)
  BY KnownTypes DEF RulesInv, ByTheRules
<1>2. GivesWay(before, after) /\ (IF failed THEN before \in Failures ELSE before \notin Failures /\ last.result = before)
  <2>1. CASE last.node \in BinaryOps
    <3>1. Len(types) = 2 /\ FromRule(BinaryResultType(last.node, types[1], types[2]), BinaryError(last.node))
      BY <2>1 DEF RulesInv, ByTheRules
    <3>2. before = BinaryResultType(last.node, types[1], types[2])
      BY <2>1 DEF Retyped
    <3>3. after = [kind \in Kinds |-> BinaryResultType(last.node, [types EXCEPT ![i] = kind][1], [types EXCEPT ![i] = kind][2])]
      BY <2>1 DEF Retyped
    <3>4. GivesWay(BinaryResultType(last.node, types[1], types[2]),
                   [kind \in Kinds |-> BinaryResultType(last.node, [types EXCEPT ![i] = kind][1], [types EXCEPT ![i] = kind][2])])
      BY <1>1, <2>1, <3>1, BinaryGivesWay
    <3> HIDE DEF before, after, types
    <3> QED
      BY <3>1, <3>2, <3>3, <3>4 DEF FromRule
  <2>2. CASE last.node \notin BinaryOps
    <3>1. FromRule(FunctionResultType(last.node, types), FunctionError(last.node, types))
      BY <2>2 DEF RulesInv, ByTheRules
    <3>2. before = FunctionResultType(last.node, types)
      BY <2>2 DEF Retyped
    <3>3. after = [kind \in Kinds |-> FunctionResultType(last.node, [types EXCEPT ![i] = kind])]
      BY <2>2 DEF Retyped
    <3>4. GivesWay(FunctionResultType(last.node, types),
                   [kind \in Kinds |-> FunctionResultType(last.node, [types EXCEPT ![i] = kind])])
      BY <1>1, FunctionGivesWay
    <3> HIDE DEF before, after, types
    <3> QED
      BY <3>1, <3>2, <3>3, <3>4 DEF FromRule
  <2> QED
    BY <2>1, <2>2
<1>3. Types \ {"null", "unknown"} = Kinds \ {"null"}
  BY DEF Types, Kinds
<1>4. \A kind \in Kinds : after[kind] = Retyped([types EXCEPT ![i] = kind])
  OBVIOUS
<1> HIDE DEF before, after, types
<1>5. CASE failed
  <2>1. \A kind \in Kinds \ {"null"} : after[kind] \in Failures
    BY <1>2, <1>5 DEF GivesWay
  <2> QED
    BY <1>3, <1>4, <1>5, <2>1
<1>6. CASE ~failed
  <2>1. PICK kind \in Kinds \ {"null"} : after[kind] \notin Failures /\ before \in {"null", after[kind]}
    BY <1>2, <1>6 DEF GivesWay
  <2> QED
    BY <1>2, <1>3, <1>4, <1>6, <2>1
<1> QED
  BY <1>5, <1>6

(***************************************************************************)
(* allowsType, Compatible and Unify: what is refused with a null for an    *)
(* argument is refused with every value in its place, and what is accepted *)
(* with it is accepted with some value there, of the same type.            *)
(***************************************************************************)
THEOREM NullIsNeutral == Spec => []NullStandsForAnything
<1>1. RulesInv => NullStandsForAnything
  BY NullStands
<1> QED
  BY <1>1, RulesAlways, PTL

-----------------------------------------------------------------------------
(***************************************************************************)
(* The order of arguments.                                                 *)
(***************************************************************************)
LEMMA ReverseIs ==
  ASSUME NEW S, NEW s \in Seq(S)
  PROVE  /\ Reverse(s) \in Seq(S) /\ Len(Reverse(s)) = Len(s)
         /\ \A i \in 1..Len(s) : Reverse(s)[i] = s[Len(s) - i + 1]
<1>1. Reverse(s) = [i \in 1..Len(s) |-> s[(Len(s) - i) + 1]]
  BY DEF Reverse
<1>2. \A i \in 1..Len(s) : (Len(s) - i) + 1 \in 1..Len(s)
  OBVIOUS
<1> QED
  BY <1>1, <1>2

LEMMA ReversedTypes ==
  ASSUME NEW types \in Seq(Kinds)
  PROVE  /\ \A i \in 1..Len(types) : \E j \in 1..Len(Reverse(types)) : Reverse(types)[j] = types[i]
         /\ \A j \in 1..Len(Reverse(types)) : \E i \in 1..Len(types) : types[i] = Reverse(types)[j]
<1>1. Len(Reverse(types)) = Len(types) /\ \A i \in 1..Len(types) : Reverse(types)[i] = types[Len(types) - i + 1]
  BY ReverseIs
<1>2. \A i \in 1..Len(types) : /\ Len(types) - i + 1 \in 1..Len(types)
                               /\ Len(types) - (Len(types) - i + 1) + 1 = i
  OBVIOUS
<1> QED
  BY <1>1, <1>2

LEMMA UnifyReversed ==
  ASSUME NEW types \in Seq(Kinds)
  PROVE  Unify(Reverse(types)) = Unify(types)
  BY ReverseIs, ReversedTypes, SameTypesUnify

LEMMA BinarySwapped ==
  ASSUME NEW op \in {"+", "*", "&", "=", "!="}, NEW left, NEW right
  PROVE  BinaryResultType(op, right, left) = BinaryResultType(op, left, right)
<1>1. \A l, r : Accepts(left, l, right, r) <=> Accepts(right, r, left, l)
  BY DEF Accepts
<1>2. SumType(left, right) = SumType(right, left)
  BY <1>1 DEF SumType
<1>3. Compatible(left, right) <=> Compatible(right, left)
  BY DEF Compatible
<1>4. {"=", "!="} \subseteq Comparisons
  BY DEF Comparisons
<1>5. CASE op = "+"
  BY <1>2, <1>5, BinaryIs
<1>6. CASE op \in {"*", "&"}
  BY <1>1, <1>6, BinaryIs
<1>7. CASE op \in {"=", "!="}
  BY <1>3, <1>4, <1>7, BinaryIs
<1> QED
  BY <1>5, <1>6, <1>7

LEMMA PlainReversed ==
  ASSUME NEW name \in {"AND", "OR"}, NEW types \in Seq(Kinds)
  PROVE  IF FunctionResultType(name, types) \in Failures THEN FunctionResultType(name, Reverse(types)) \in Failures
         ELSE FunctionResultType(name, Reverse(types)) = FunctionResultType(name, types)
<1>0. /\ Reverse(types) \in Seq(Types) /\ types \in Seq(Types) /\ Len(Reverse(types)) = Len(types)
      /\ name \in DOMAIN Specs \ UnifyingNames
  BY ReverseIs, KindsAreTypes, SpecsNames DEF UnifyingNames
<1>1. AllWanted(name, types) <=> AllWanted(name, Reverse(types))
  BY ReversedTypes DEF AllWanted
<1>2. /\ FunctionResultType(name, types) \notin Failures <=> Arity(name, Len(types)) /\ AllWanted(name, types)
      /\ FunctionResultType(name, types) \notin Failures => FunctionResultType(name, types) = Given(name)
  BY <1>0, PlainFunction
<1>3. /\ FunctionResultType(name, Reverse(types)) \notin Failures <=>
           Arity(name, Len(types)) /\ AllWanted(name, Reverse(types))
      /\ FunctionResultType(name, Reverse(types)) \notin Failures =>
           FunctionResultType(name, Reverse(types)) = Given(name)
  BY <1>0, PlainFunction
<1> QED
  BY <1>1, <1>2, <1>3

LEMMA UnifyingReversed ==
  ASSUME NEW name \in {"COALESCE", "NULLVALUE"}, NEW types \in Seq(Kinds)
  PROVE  FunctionResultType(name, Reverse(types)) = FunctionResultType(name, types)
<1>1. Reverse(types) \in Seq(Types) /\ types \in Seq(Types) /\ Len(Reverse(types)) = Len(types)
  BY ReverseIs, KindsAreTypes
<1>2. Unify(Reverse(types)) = Unify(types)
  BY UnifyReversed
<1>3. IF Arity(name, Len(types)) THEN FunctionResultType(name, types) = Unify(types)
      ELSE FunctionResultType(name, types) = "arity"
  BY <1>1, UnifyingFunction
<1>4. IF Arity(name, Len(types)) THEN FunctionResultType(name, Reverse(types)) = Unify(Reverse(types))
      ELSE FunctionResultType(name, Reverse(types)) = "arity"
  BY <1>1, UnifyingFunction
<1> QED
  BY <1>2, <1>3, <1>4

LEMMA HeadAndTwo ==
  ASSUME NEW S, NEW head \in S, NEW rest \in Seq(S), Len(rest) = 2
  PROVE  /\ <<head>> \o rest \in Seq(S) /\ Len(<<head>> \o rest) = 3
         /\ (<<head>> \o rest)[1] = head
         /\ (<<head>> \o rest)[2] = rest[1] /\ (<<head>> \o rest)[3] = rest[2]
<1> DEFINE one == <<head>>
<1>1. one \in Seq(S) /\ Len(one) = 1 /\ one[1] = head
  OBVIOUS
<1> HIDE DEF one
<1>2. /\ one \o rest \in Seq(S) /\ Len(one \o rest) = Len(one) + Len(rest)
      /\ \A i \in 1..(Len(one) + Len(rest)) :
           (one \o rest)[i] = IF i <= Len(one) THEN one[i] ELSE rest[i - Len(one)]
  BY <1>1, ConcatProperties
<1> DEFINE both == one \o rest
<1> HIDE DEF both
<1>3. both \in Seq(S) /\ Len(both) = 3 /\ \A i \in 1..3 : both[i] = IF i <= 1 THEN one[i] ELSE rest[i - 1]
  BY <1>1, <1>2 DEF both
<1>4. both[1] = head /\ both[2] = rest[1] /\ both[3] = rest[2]
  BY <1>1, <1>3
<1> QED
  BY <1>3, <1>4 DEF both, one

LEMMA IfReversed ==
  ASSUME NEW types \in Seq(Kinds), Len(types) = 3
  PROVE  FunctionResultType("IF", <<types[1]>> \o Reverse(Tail(types))) = FunctionResultType("IF", types)
<1> DEFINE tail == Tail(types)
           reversed == <<types[1]>> \o Reverse(tail)
<1>1. tail \in Seq(Kinds) /\ Len(tail) = 2 /\ types[1] \in Kinds
  BY TailTypes
<1> HIDE DEF tail
<1>2. Reverse(tail) \in Seq(Kinds) /\ Len(Reverse(tail)) = 2
  BY <1>1, ReverseIs
<1>3. reversed \in Seq(Kinds) /\ Len(reversed) = 3 /\ reversed[1] = types[1]
      /\ reversed[2] = Reverse(tail)[1] /\ reversed[3] = Reverse(tail)[2]
  BY <1>1, <1>2, HeadAndTwo
<1> HIDE DEF reversed
<1>4. Tail(reversed) \in Seq(Kinds) /\ Len(Tail(reversed)) = 2
      /\ Tail(reversed)[1] = reversed[2] /\ Tail(reversed)[2] = reversed[3]
  BY <1>3, TailTypes
<1>5. Tail(reversed) = Reverse(tail)
  BY <1>2, <1>3, <1>4, SameTwo
<1>6. Unify(Tail(reversed)) = Unify(tail)
  BY <1>1, <1>5, UnifyReversed
<1>7. FunctionResultType("IF", types) =
        IF ~AllowsType(types[1], {"boolean"}) THEN "argument" ELSE Unify(tail)
  BY IfFunction, KindsAreTypes DEF tail
<1>8. FunctionResultType("IF", reversed) =
        IF ~AllowsType(reversed[1], {"boolean"}) THEN "argument" ELSE Unify(Tail(reversed))
  BY <1>3, IfFunction, KindsAreTypes
<1>9. FunctionResultType("IF", reversed) = FunctionResultType("IF", types)
  BY <1>3, <1>6, <1>7, <1>8
<1> QED
  BY <1>9 DEF reversed, tail

LEMMA OrderIsNothing ==
  ASSUME RulesInv
  PROVE  OrderDoesNotMatter
<1> DEFINE name == last.node
           types == last.types
           reversed == IF name = "IF" THEN <<types[1]>> \o Reverse(Tail(types)) ELSE Reverse(types)
<1> SUFFICES ASSUME name \in {"+", "*", "&", "=", "!=", "AND", "OR", "COALESCE", "NULLVALUE", "IF"},
                    last.result # "invalid_function_arity", "unknown" \notin Range(types)
             PROVE  IF failed THEN Retyped(reversed) \in Failures ELSE Retyped(reversed) = last.result
  BY DEF OrderDoesNotMatter
<1>1. types \in Seq(Types) /\ types \in Seq(Kinds) /\ Len(types) \in Nat
  BY KnownTypes DEF RulesInv, ByTheRules
<1>2. CASE name \in {"+", "*", "&", "=", "!="}
  <2>1. name \in BinaryOps /\ name # "IF"
    BY <1>2 DEF BinaryOps
  <2>2. Len(types) = 2 /\ FromRule(BinaryResultType(name, types[1], types[2]), BinaryError(name))
    BY <2>1 DEF RulesInv, ByTheRules
  <2>3. reversed[1] = types[2] /\ reversed[2] = types[1]
    <3>1. \A i \in 1..2 : Reverse(types)[i] = types[2 - i + 1]
      BY <1>1, <2>2, ReverseIs
    <3> QED
      BY <2>1, <3>1
  <2> HIDE DEF reversed
  <2>4. Retyped(reversed) = BinaryResultType(name, types[2], types[1])
    BY <2>1, <2>3 DEF Retyped
  <2>5. Retyped(reversed) = BinaryResultType(name, types[1], types[2])
    BY <1>2, <2>4, BinarySwapped
  <2> QED
    BY <2>2, <2>5 DEF FromRule
<1>3. CASE name \in {"AND", "OR", "COALESCE", "NULLVALUE", "IF"}
  <2>1. name \notin BinaryOps /\ name \in DOMAIN Specs
    BY <1>3, SpecsNames DEF BinaryOps
  <2>2. IsCall
    BY <2>1 DEF IsCall, FunctionNames
  <2>3. FromRule(FunctionResultType(name, types), FunctionError(name, types))
    BY <2>2 DEF RulesInv, ByTheRules
  <2>4. Retyped(reversed) = FunctionResultType(name, reversed)
    BY <2>1 DEF Retyped
  <2>5. CASE name \in {"AND", "OR"}
    <3>1. reversed = Reverse(types)
      BY <2>5
    <3> HIDE DEF reversed
    <3> QED
      BY <1>1, <2>3, <2>4, <2>5, <3>1, PlainReversed DEF FromRule
  <2>6. CASE name \in {"COALESCE", "NULLVALUE"}
    <3>1. reversed = Reverse(types)
      BY <2>6
    <3> HIDE DEF reversed
    <3> QED
      BY <1>1, <2>3, <2>4, <2>6, <3>1, UnifyingReversed DEF FromRule
  <2>7. CASE name = "IF"
    <3>1. Len(types) = 3
      <4>1. Arity(name, Len(types))
        <5>1. ErrorsAsSpecified(name, types)
          BY <1>1, FollowsSpecs
        <5> QED
          BY <2>1, <2>3, <5>1 DEF ErrorsAsSpecified, FromRule
      <4>2. Specs[name] = <<3, 3>>
        BY <2>7, SpecsValues
      <4> QED
        BY <1>1, <4>1, <4>2, ArityIsOne
    <3>2. FunctionResultType(name, reversed) = FunctionResultType(name, types)
      <4>1. reversed = <<types[1]>> \o Reverse(Tail(types))
        BY <2>7
      <4> HIDE DEF reversed
      <4> QED
        BY <1>1, <2>7, <3>1, <4>1, IfReversed
    <3> HIDE DEF reversed
    <3> QED
      BY <2>3, <2>4, <3>2 DEF FromRule
  <2> QED
    BY <1>3, <2>5, <2>6, <2>7
<1> QED
  BY <1>2, <1>3

(***************************************************************************)
(* binaryResultType, functionResultType and Unify: sums, comparisons,      *)
(* conjunctions, COALESCE, NULLVALUE and the branches of IF get the same   *)
(* type, or are refused, whichever argument comes first, as long as no     *)
(* type is unknown.                                                        *)
(***************************************************************************)
THEOREM AnyOrder == Spec => []OrderDoesNotMatter
<1>1. RulesInv => OrderDoesNotMatter
  BY OrderIsNothing
<1> QED
  BY <1>1, RulesAlways, PTL
=============================================================================
