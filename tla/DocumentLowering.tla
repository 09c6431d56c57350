-------------------------- MODULE DocumentLowering --------------------------
(***************************************************************************)
(* The semantic lowering of a parsed document (or of a single formula) to  *)
(* a plan, and the rendering of that plan to one SELECT:                   *)
(* pkg/formql/semantics/lower.go and pkg/formql/backend/postgres/render.go.*)
(*                                                                         *)
(* One lowerer walks the items from left to right.  It shares one table of *)
(* joins, one list of warnings and one set of output aliases between all   *)
(* the items, and gives all of them up at the first error.  A step of the  *)
(* model is one iteration of one of the lowerer's loops.                   *)
(*                                                                         *)
(* A join alias is its relationship path: the FNV hash that aliasForPath   *)
(* prints is taken to be injective on the paths of one plan.               *)
(***************************************************************************)
EXTENDS DocumentSyntax

VARIABLES
  document,   \* the document being lowered
  formula,    \* TRUE: LowerWithOptions + Render; FALSE: their document forms
  pc,         \* where the lowerer is
  field,      \* the item being lowered
  refs,       \* ir.FieldRefs of the current item, in the order they resolved
  hop,        \* hops of the current chain already joined
  table,      \* currentTable
  joins,      \* l.joins: path -> join
  order,      \* l.order: the paths in the order addJoin met them
  warnings,   \* l.warnOrder
  suffix,     \* the counter of uniqueAlias, 0 outside its loop
  fields,     \* the ir.SelectFields built so far
  query,      \* the artifact of the renderer
  error       \* the code of the diagnostic that ended the lowering

lowererVars == <<joins, order, warnings>>
vars == <<document, formula, pc, field, refs, hop, table, joins, order,
          warnings, suffix, fields, query, error>>

NoError == "none"
NoQuery == [from |-> BaseTable, select |-> << >>, joins |-> << >>]
CurrentItem == document[field]
CurrentRef  == CurrentItem.refs[Len(refs) + 1]
AllRefsLowered == Len(refs) = Len(CurrentItem.refs)

Fail(code) ==
  /\ pc' = "failed"
  /\ error' = code

-----------------------------------------------------------------------------
Init ==
  /\ document \in Documents
  /\ formula \in {b \in BOOLEAN : b => Len(document) = 1}
  /\ pc = "expr"
  /\ field = 1
  /\ refs = << >>
  /\ hop = 0
  /\ table = BaseTable
  /\ joins = << >>
  /\ order = << >>
  /\ warnings = << >>
  /\ suffix = 0
  /\ fields = << >>
  /\ query = NoQuery
  /\ error = NoError

\* Mutants of BeginReference: currentTable survives from the reference
\* before, and the depth limit is off by one.
BeginReferenceWhereverWeAre ==
  /\ pc = "expr"
  /\ ~AllRefsLowered
  /\ hop' = 0
  /\ IF Len(CurrentRef.chain) > NormalizedMaxRelationshipDepth
     THEN Fail("relationship_depth_exceeded")
     ELSE pc' = "path" /\ UNCHANGED error
  /\ UNCHANGED <<document, formula, field, refs, table, lowererVars, suffix, fields,
                 query>>

BeginReferenceBelowLimit ==
  /\ pc = "expr"
  /\ ~AllRefsLowered
  /\ hop' = 0
  /\ table' = BaseTable
  /\ IF Len(CurrentRef.chain) >= NormalizedMaxRelationshipDepth
     THEN Fail("relationship_depth_exceeded")
     ELSE pc' = "path" /\ UNCHANGED error
  /\ UNCHANGED <<document, formula, field, refs, lowererVars, suffix, fields, query>>

(***************************************************************************)
(* lowerExpr reaches the next reference; a chain longer than the limit is  *)
(* refused before any of its hops is looked up.                            *)
(***************************************************************************)
BeginReference ==
  /\ pc = "expr"
  /\ ~AllRefsLowered
  /\ hop' = 0
  /\ table' = BaseTable
  /\ IF Len(CurrentRef.chain) > NormalizedMaxRelationshipDepth
     THEN Fail("relationship_depth_exceeded")
     ELSE pc' = "path" /\ UNCHANGED error
  /\ UNCHANGED <<document, formula, field, refs, lowererVars, suffix, fields, query>>

\* Mutant of JoinWarnings: what is not known to be indexed is warned about.
WarnUnlessIndexed(path, relationship) ==
  (IF relationship.joinIndexed # "indexed"
   THEN <<[path |-> path, column |-> "join"]>> ELSE << >>)
  \o (IF relationship.targetIndexed # "indexed"
      THEN <<[path |-> path, column |-> "target"]>> ELSE << >>)

(***************************************************************************)
(* addJoin: a path is joined once; the warnings of a join are added with   *)
(* it, the one about its source column first.                              *)
(***************************************************************************)
JoinWarnings(path, relationship) ==
  (IF relationship.joinIndexed = "not_indexed"
   THEN <<[path |-> path, column |-> "join"]>> ELSE << >>)
  \o (IF relationship.targetIndexed = "not_indexed"
      THEN <<[path |-> path, column |-> "target"]>> ELSE << >>)

\* Mutants of AddJoin: every mention of a path lists it again, and a new join
\* goes to the front of the list.
AddJoinAgain(path, from, relationship) ==
  /\ joins' = [p \in DOMAIN joins \cup {path} |->
                 IF p = path THEN [from |-> from, to |-> relationship.to] ELSE joins[p]]
  /\ order' = Append(order, path)
  /\ warnings' = warnings \o JoinWarnings(path, relationship)

AddJoinInFront(path, from, relationship) ==
  IF path \in DOMAIN joins
  THEN UNCHANGED lowererVars
  ELSE /\ joins' = [p \in DOMAIN joins \cup {path} |->
                      IF p = path THEN [from |-> from, to |-> relationship.to]
                                  ELSE joins[p]]
       /\ order' = <<path>> \o order
       /\ warnings' = warnings \o JoinWarnings(path, relationship)

AddJoin(path, from, relationship) ==
  IF path \in DOMAIN joins
  THEN UNCHANGED lowererVars
  ELSE /\ joins' = [p \in DOMAIN joins \cup {path} |->
                      IF p = path THEN [from |-> from, to |-> relationship.to]
                                  ELSE joins[p]]
       /\ order' = Append(order, path)
       /\ warnings' = warnings \o JoinWarnings(path, relationship)

HopKey == <<table, CurrentRef.chain[hop + 1]>>

JoinHop ==
  /\ pc = "path"
  /\ hop < Len(CurrentRef.chain)
  /\ HopKey \in DOMAIN Relationship
  /\ AddJoin(SubSeq(CurrentRef.chain, 1, hop + 1), table, Relationship[HopKey])
  /\ table' = Relationship[HopKey].to
  /\ hop' = hop + 1
  /\ UNCHANGED <<document, formula, pc, field, refs, suffix, fields, query, error>>

UnknownRelationship ==
  /\ pc = "path"
  /\ hop < Len(CurrentRef.chain)
  /\ HopKey \notin DOMAIN Relationship
  /\ Fail("unknown_relationship")
  /\ UNCHANGED <<document, formula, field, refs, hop, table, lowererVars, suffix,
                 fields, query>>

(***************************************************************************)
(* The end of a reference: the field is looked up on the table the chain   *)
(* leads to, the base table when there is none.                            *)
(***************************************************************************)
ResolveField ==
  /\ pc = "path"
  /\ hop = Len(CurrentRef.chain)
  /\ CurrentRef.field \in ColumnsOf[table]
  /\ refs' = Append(refs, [path |-> CurrentRef.chain, table |-> table,
                           column |-> CurrentRef.field])
  /\ pc' = "expr"
  /\ UNCHANGED <<document, formula, field, hop, table, lowererVars, suffix, fields,
                 query, error>>

UnknownField ==
  /\ pc = "path"
  /\ hop = Len(CurrentRef.chain)
  /\ CurrentRef.field \notin ColumnsOf[table]
  /\ Fail(IF CurrentRef.chain = << >> THEN "unknown_column"
                                      ELSE "unknown_related_field")
  /\ UNCHANGED <<document, formula, field, refs, hop, table, lowererVars, suffix,
                 fields, query>>

(***************************************************************************)
(* An operator or a call refuses its operands.  The expression tree is     *)
(* abstracted to its references, so this may come before, between or       *)
(* after any of them.                                                      *)
(***************************************************************************)
TypeError ==
  /\ pc = "expr"
  /\ ~CurrentItem.wellTyped
  /\ Fail("type_error")
  /\ UNCHANGED <<document, formula, field, refs, hop, table, lowererVars, suffix,
                 fields, query>>

-----------------------------------------------------------------------------
(***************************************************************************)
(* selectAlias and uniqueAlias.  Each iteration of uniqueAlias's loop is a *)
(* step; `suffix` is its counter.                                          *)
(***************************************************************************)
UsedAliases == {fields[i].alias : i \in DOMAIN fields}

AliasChoice(explicit) ==
  /\ pc = "expr"
  /\ AllRefsLowered
  /\ CurrentItem.wellTyped
  /\ ~formula
  /\ (CurrentItem.alias # NoAlias) = explicit
  /\ UNCHANGED <<document, formula, hop, table, lowererVars, query>>

\* Mutant of AddField: the loop over the items has no end.
AddFieldAndContinue(alias) ==
  /\ fields' = Append(fields, [alias |-> alias, refs |-> refs])
  /\ field' = field + 1
  /\ refs' = << >>
  /\ suffix' = 0
  /\ pc' = "expr"
  /\ UNCHANGED error

AddField(alias) ==
  /\ fields' = Append(fields, [alias |-> alias, refs |-> refs])
  /\ field' = field + 1
  /\ refs' = << >>
  /\ suffix' = 0
  /\ pc' = IF field = Len(document) THEN "planned" ELSE "expr"
  /\ UNCHANGED error

SelectExplicitAlias ==
  /\ AliasChoice(TRUE)
  /\ CurrentItem.alias \notin UsedAliases
  /\ AddField(CurrentItem.alias)

DuplicateOutputAlias ==
  /\ AliasChoice(TRUE)
  /\ CurrentItem.alias \in UsedAliases
  /\ Fail("duplicate_output_alias")
  /\ UNCHANGED <<field, refs, suffix, fields>>

SelectDefaultAlias ==
  /\ AliasChoice(FALSE)
  /\ suffix = 0
  /\ DefaultAlias(CurrentItem) \notin UsedAliases
  /\ AddField(DefaultAlias(CurrentItem))

DefaultAliasTaken ==
  /\ AliasChoice(FALSE)
  /\ suffix = 0
  /\ DefaultAlias(CurrentItem) \in UsedAliases
  /\ suffix' = 2
  /\ UNCHANGED <<pc, field, refs, fields, error>>

Candidate == Append(DefaultAlias(CurrentItem), suffix)

\* Mutant of SelectSuffixedAlias: the suffixed name is not checked.
SelectFirstSuffix ==
  /\ AliasChoice(FALSE)
  /\ suffix > 0
  /\ AddField(Candidate)

SelectSuffixedAlias ==
  /\ AliasChoice(FALSE)
  /\ suffix > 0
  /\ Candidate \notin UsedAliases
  /\ AddField(Candidate)

\* Mutant of NextSuffix: the counter stands still.
SameSuffix ==
  /\ AliasChoice(FALSE)
  /\ suffix > 0
  /\ Candidate \in UsedAliases
  /\ UNCHANGED <<pc, field, refs, suffix, fields, error>>

NextSuffix ==
  /\ AliasChoice(FALSE)
  /\ suffix > 0
  /\ Candidate \in UsedAliases
  /\ suffix' = suffix + 1
  /\ UNCHANGED <<pc, field, refs, fields, error>>

(***************************************************************************)
(* A formula has no alias of its own: LowerWithOptions returns its one     *)
(* expression, which Render projects as "result" unless its caller chose   *)
(* another name.                                                           *)
(***************************************************************************)
FinishFormula ==
  /\ pc = "expr"
  /\ AllRefsLowered
  /\ CurrentItem.wellTyped
  /\ formula
  /\ AddField(<<ResultWord>>)
  /\ UNCHANGED <<document, formula, hop, table, lowererVars, query>>

-----------------------------------------------------------------------------
(***************************************************************************)
(* Render and RenderDocument.  The alias of a column is the path it is     *)
(* reached by, << >> for t0; a LEFT JOIN introduces the alias of its path  *)
(* and reads a column of the path one hop shorter.                         *)
(***************************************************************************)
RenderExpr(exprRefs) ==
  [i \in DOMAIN exprRefs |-> [alias |-> exprRefs[i].path, column |-> exprRefs[i].column]]

\* Mutant of RenderJoinClauses: the last join comes first.
RenderJoinClausesBackwards ==
  [i \in DOMAIN order |->
     LET path == order[Len(order) + 1 - i]
     IN  [table  |-> joins[path].to,
          alias  |-> path,
          parent |-> SubSeq(path, 1, Len(path) - 1)]]

RenderJoinClauses ==
  [i \in DOMAIN order |->
     [table  |-> joins[order[i]].to,
      alias  |-> order[i],
      parent |-> SubSeq(order[i], 1, Len(order[i]) - 1)]]

Render ==
  /\ pc = "planned"
  /\ query' = [from   |-> BaseTable,
               select |-> [i \in DOMAIN fields |->
                             [alias |-> fields[i].alias,
                              expr  |-> RenderExpr(fields[i].refs)]],
               joins  |-> RenderJoinClauses]
  /\ pc' = "rendered"
  /\ UNCHANGED <<document, formula, field, refs, hop, table, lowererVars, suffix,
                 fields, error>>

Next ==
  \/ BeginReference \/ JoinHop \/ UnknownRelationship
  \/ ResolveField \/ UnknownField \/ TypeError
  \/ SelectExplicitAlias \/ DuplicateOutputAlias
  \/ SelectDefaultAlias \/ DefaultAliasTaken \/ SelectSuffixedAlias \/ NextSuffix
  \/ FinishFormula \/ Render

Spec == Init /\ [][Next]_vars

(***************************************************************************)
(* The lowerer is one goroutine that calls nothing that waits.             *)
(***************************************************************************)
FairSpec == Spec /\ WF_vars(Next)

-----------------------------------------------------------------------------
FieldRef  == [path : Path, table : Tables, column : Name]
Join      == [from : Tables, to : Tables]
Warning   == [path : Path, column : {"join", "target"}]
ErrorCode == {NoError, "relationship_depth_exceeded", "unknown_relationship",
              "unknown_column", "unknown_related_field", "type_error",
              "duplicate_output_alias"}

(***************************************************************************)
(* Every variable of the lowerer has its type, and there is an item to     *)
(* work on while there is work.                                            *)
(***************************************************************************)
TypeOK ==
  /\ document \in Documents
  /\ formula \in BOOLEAN
  /\ pc \in {"expr", "path", "planned", "rendered", "failed"}
  /\ field \in 1..(Len(document) + 1)
  /\ pc \in {"expr", "path"} => field <= Len(document)
  /\ refs \in Seq(FieldRef)
  /\ hop \in Nat
  /\ table \in Tables
  /\ DOMAIN joins \subseteq Path
  /\ \A p \in DOMAIN joins : joins[p] \in Join
  /\ order \in Seq(Path)
  /\ warnings \in Seq(Warning)
  /\ suffix \in Nat
  /\ fields \in Seq([alias : Name, refs : Seq(FieldRef)])
  /\ error \in ErrorCode

(***************************************************************************)
(* l.order lists the keys of l.joins, each once, and a join comes after    *)
(* the join it starts from: every prefix of a joined path is joined before *)
(* it, whatever the order in which items and operands mention the paths.   *)
(***************************************************************************)
OrderListsJoins ==
  /\ DOMAIN joins = {order[i] : i \in DOMAIN order}
  /\ \A i, j \in DOMAIN order : order[i] = order[j] => i = j

ParentJoinedFirst ==
  \A j \in DOMAIN order : Len(order[j]) # 1 =>
    \E i \in 1..(j - 1) : order[i] = SubSeq(order[j], 1, Len(order[j]) - 1)

JoinsInOrder == OrderListsJoins /\ ParentJoinedFirst

(***************************************************************************)
(* A join starts on the table its parent path ends on, and follows a       *)
(* relationship the catalog has there: sharing the joins of one item with  *)
(* another never glues a hop to the wrong table.                           *)
(***************************************************************************)
Parent(path) == SubSeq(path, 1, Len(path) - 1)
EndTable(path) == IF path = << >> THEN BaseTable ELSE joins[path].to

JoinsFollowCatalog ==
  \A p \in DOMAIN joins :
    /\ p # << >>
    /\ joins[p].from = EndTable(Parent(p))
    /\ <<joins[p].from, p[Len(p)]>> \in DOMAIN Relationship
    /\ joins[p].to = Relationship[<<joins[p].from, p[Len(p)]>>].to

(***************************************************************************)
(* The rendered SELECT is well scoped: no alias is introduced twice, each  *)
(* LEFT JOIN reads t0 or an alias introduced above it, and each projection *)
(* reads t0 or an introduced alias.  PostgreSQL refuses any other query.   *)
(***************************************************************************)
QueryWellScoped ==
  pc = "rendered" =>
    LET introduced(k) == {<< >>} \cup {query.joins[i].alias : i \in 1..k}
    IN  /\ \A k \in DOMAIN query.joins :
             /\ query.joins[k].alias \notin introduced(k - 1)
             /\ query.joins[k].parent \in introduced(k - 1)
        /\ \A f \in DOMAIN query.select : \A c \in DOMAIN query.select[f].expr :
             query.select[f].expr[c].alias \in introduced(Len(query.joins))

(***************************************************************************)
(* No two projections have the same output name, generated suffixes and    *)
(* names that merely look like one included; a document that repeats an    *)
(* explicit name has no query.                                             *)
(***************************************************************************)
AliasesDistinct ==
  \A i, j \in DOMAIN fields : fields[i].alias = fields[j].alias => i = j

(***************************************************************************)
(* A warning is there exactly for the columns of the plan's joins that the *)
(* catalog knows not to be indexed, once each, however many references     *)
(* share the join.  Unknown index information gives no warning.            *)
(***************************************************************************)
WarningsExact ==
  /\ \A i, j \in DOMAIN warnings : warnings[i] = warnings[j] => i = j
  /\ {warnings[i] : i \in DOMAIN warnings} =
       UNION {LET rel == Relationship[<<joins[p].from, p[Len(p)]>>]
              IN  {w \in {[path |-> p, column |-> "join"], [path |-> p, column |-> "target"]} :
                     IF w.column = "join" THEN rel.joinIndexed = "not_indexed"
                                          ELSE rel.targetIndexed = "not_indexed"}
              : p \in DOMAIN joins}

(***************************************************************************)
(* A lowering ends: in a query or in an error.  The unbounded loop of      *)
(* uniqueAlias is what could go on for ever.                               *)
(***************************************************************************)
LoweringEnds == <>(pc \in {"rendered", "failed"})

(***************************************************************************)
(* The lowerer and the renderer implement the plan a document promises:    *)
(* the outcome, an error or a query with this very list of projections,    *)
(* joins and warnings, is the one DocumentPlan reads off the document.     *)
(***************************************************************************)
Outcome ==
  CASE pc = "failed"   -> [result |-> "error"]
    [] pc = "rendered" -> [result |-> "query", query |-> query, warnings |-> warnings]
    [] OTHER           -> [result |-> "pending"]

Promise == INSTANCE DocumentPlan WITH outcome <- Outcome
ImplementsDocumentPlan == Promise!Spec
=============================================================================
