----------------------------- MODULE LiveCatalog -----------------------------
(***************************************************************************)
(* Building a catalog snapshot from a live PostgreSQL schema:              *)
(* pkg/formql/livecatalog/postgres.go with Validate of                     *)
(* pkg/formql/schema/schema.go, and the query of the PostgreSQL extension, *)
(* ext/formql/src/formql.c.                                                *)
(*                                                                         *)
(* BuildSnapshot sends its queries one after the other and outside a       *)
(* transaction; DDL may happen between any two.  A query is the join it    *)
(* writes over the views of information_schema, which are external.  Names *)
(* are already in lower case.                                              *)
(***************************************************************************)
EXTENDS Integers, Sequences, FiniteSets

CONSTANTS
  Schemas, Names,   \* of schemas, and of tables
  Shape,            \* the columns of the table <<schema, name>>, when it exists
  Indexed,          \* the <<schema, table, column>> with an index
  ForeignKeys,      \* the foreign keys that DDL may add
  Namespace,        \* the schema asked for: resolveRef's namespace
  BaseTable,        \* the table asked for
  MaxDDL            \* bound on the number of DDL statements

AllTables == Schemas \X Names

(***************************************************************************)
(* A foreign key: constraint name `name` of `schema`.`table`, with the     *)
(* pairs of columns it compares.                                           *)
(***************************************************************************)
ASSUME ShapeAssumption ==
  /\ DOMAIN Shape = AllTables
  /\ \A t \in AllTables : Shape[t] \subseteq Seq(STRING)   \* the words of a column's name
ASSUME ForeignKeysAssumption ==
  /\ IsFiniteSet(ForeignKeys)                            \* a name has at most 63 bytes
  /\ \A fk \in ForeignKeys :
       /\ <<fk.schema, fk.table>> \in AllTables /\ <<fk.toSchema, fk.toTable>> \in AllTables
       /\ fk.columns \subseteq (Shape[<<fk.schema, fk.table>>] \X Shape[<<fk.toSchema, fk.toTable>>])
       /\ \A pair \in fk.columns :
            <<fk.toSchema, fk.toTable, pair[2]>> \in Indexed   \* a key needs a unique index
ASSUME RefAssumption == Namespace \in Schemas /\ BaseTable \in Names /\ MaxDDL \in Nat

VARIABLES
  tables, fks,       \* the database: the tables and foreign keys that exist
  ddl,               \* statements so far
  pc,                \* where BuildSnapshot is
  batches,           \* the results of Tables, in the order they are appended
  relationships,     \* the result of Relationships
  foreign,           \* foreignSchemaList, as far as it is not read yet
  snapshot,          \* what is served
  queryFailed,       \* history: a query returned an error
  sawTables, sawFks, \* history: what has existed since the load began
  quiet              \* history: no DDL since the load began

dbVars == <<tables, fks, ddl>>
loadVars == <<batches, relationships, foreign, snapshot, queryFailed>>
historyVars == <<sawTables, sawFks, quiet>>
vars == <<dbVars, pc, loadVars, historyVars>>

NoSnapshot == [tables |-> << >>, relationships |-> {}]

Init ==
  /\ tables \in SUBSET AllTables
  /\ fks \in SUBSET {fk \in ForeignKeys : {<<fk.schema, fk.table>>, <<fk.toSchema, fk.toTable>>}
                                            \subseteq tables}
  /\ ddl = 0
  /\ pc = "tables"
  /\ batches = << >>
  /\ relationships = {}
  /\ foreign = {}
  /\ snapshot = NoSnapshot
  /\ queryFailed = FALSE
  /\ sawTables = tables /\ sawFks = fks /\ quiet = TRUE

Loading == pc \notin {"served", "failed"}

-----------------------------------------------------------------------------
(***************************************************************************)
(* DDL, while the snapshot is built.  A dropped table takes the foreign    *)
(* keys from and to it along.                                              *)
(***************************************************************************)
Statement(newTables, newFks) ==
  /\ Loading /\ ddl < MaxDDL
  /\ ddl' = ddl + 1
  /\ tables' = newTables /\ fks' = newFks
  /\ sawTables' = sawTables \cup newTables /\ sawFks' = sawFks \cup newFks
  /\ quiet' = FALSE
  /\ UNCHANGED <<pc, loadVars>>

CreateTable == \E t \in AllTables \ tables : Statement(tables \cup {t}, fks)

DropTable == \E t \in tables :
  Statement(tables \ {t},
            {fk \in fks : t \notin {<<fk.schema, fk.table>>, <<fk.toSchema, fk.toTable>>}})

AddForeignKey == \E fk \in ForeignKeys \ fks :
  /\ {<<fk.schema, fk.table>>, <<fk.toSchema, fk.toTable>>} \subseteq tables
  /\ Statement(tables, fks \cup {fk})

DropForeignKey == \E fk \in fks : Statement(tables, fks \ {fk})

-----------------------------------------------------------------------------
(***************************************************************************)
(* The views of information_schema.                                        *)
(***************************************************************************)
TableConstraints == {[schema |-> fk.schema, name |-> fk.name, table |-> fk.table] : fk \in fks}

KeyColumnUsage ==
  UNION {{[schema |-> fk.schema, name |-> fk.name, table |-> fk.table, column |-> pair[1]]
          : pair \in fk.columns} : fk \in fks}

ConstraintColumnUsage ==
  UNION {{[constraintSchema |-> fk.schema, name |-> fk.name,
           schema |-> fk.toSchema, table |-> fk.toTable, column |-> pair[2]]
          : pair \in fk.columns} : fk \in fks}

HasIndex(schema, table, column) ==
  <<schema, table>> \in tables /\ <<schema, table, column>> \in Indexed

\* Mutant of Joined: the usage of any schema's constraint of that name is taken.
JoinedByName(tc, kcu, ccu) ==
  /\ kcu.name = tc.name /\ kcu.schema = tc.schema
  /\ ccu.name = tc.name

(***************************************************************************)
(* The join of the three views, by the constraint's schema and name.       *)
(***************************************************************************)
Joined(tc, kcu, ccu) ==
  /\ kcu.name = tc.name /\ kcu.schema = tc.schema
  /\ ccu.constraintSchema = tc.schema /\ ccu.name = tc.name

\* Mutant of ExtensionJoined: the target's schema is not compared either.
ExtensionJoinedByName(tc, kcu, ccu) ==
  /\ kcu.name = tc.name /\ kcu.schema = tc.schema
  /\ ccu.name = tc.name

(***************************************************************************)
(* What the extension joins by: the target's schema must be the            *)
(* constraint's, the constraint's own is not compared.                     *)
(***************************************************************************)
ExtensionJoined(tc, kcu, ccu) ==
  /\ kcu.name = tc.name /\ kcu.schema = tc.schema
  /\ ccu.name = tc.name /\ ccu.schema = tc.schema

RelationshipName(column) == Append(column, "__rel")

(***************************************************************************)
(* A row becomes a relationship.  Both look for the target's index in the  *)
(* schema of the constraint.                                               *)
(***************************************************************************)
Relationship(tc, kcu, ccu) ==
  [name |-> RelationshipName(kcu.column), from |-> tc.table, to |-> ccu.table,
   joinColumn |-> kcu.column, targetColumn |-> ccu.column,
   joinIndexed |-> HasIndex(tc.schema, tc.table, kcu.column),
   targetIndexed |-> HasIndex(tc.schema, ccu.table, ccu.column)]

Rows(ns, joined(_, _, _)) ==
  {row \in {tc \in TableConstraints : tc.schema = ns} \X KeyColumnUsage \X ConstraintColumnUsage :
     joined(row[1], row[2], row[3])}

RelationshipsOf(rows) == {Relationship(row[1], row[2], row[3]) : row \in rows}

TablesOf(ns) == [schema |-> ns, names |-> {t[2] : t \in {u \in tables : u[1] = ns}}]

-----------------------------------------------------------------------------
(***************************************************************************)
(* BuildSnapshot, a query a step.  Any query may fail.                     *)
(***************************************************************************)
ReadTables ==
  /\ pc = "tables"
  /\ batches' = <<TablesOf(Namespace)>>
  /\ pc' = "relationships"
  /\ UNCHANGED <<dbVars, relationships, foreign, snapshot, queryFailed, historyVars>>

ReadRelationships ==
  /\ pc = "relationships"
  /\ relationships' = RelationshipsOf(Rows(Namespace, Joined))
  /\ pc' = "targets"
  /\ UNCHANGED <<dbVars, batches, foreign, snapshot, queryFailed, historyVars>>

\* Mutant of CrossSchemaTargets: no schema but the one asked for is looked at.
NoTargets == {}

\* Mutant of CrossSchemaTargets: the schema asked for is a target, too.
AllTargets == {row[3].schema : row \in Rows(Namespace, Joined)}

CrossSchemaTargets == {row[3].schema : row \in Rows(Namespace, Joined)} \ {Namespace}

ReadTargets ==
  /\ pc = "targets"
  /\ foreign' = CrossSchemaTargets
  /\ pc' = "foreign"
  /\ UNCHANGED <<dbVars, batches, relationships, snapshot, queryFailed, historyVars>>

\* The loop over foreignSchemaList, which comes in no particular order.
ReadForeignTables == \E ns \in foreign :
  /\ pc = "foreign"
  /\ batches' = Append(batches, TablesOf(ns))
  /\ foreign' = foreign \ {ns}
  /\ UNCHANGED <<dbVars, pc, relationships, snapshot, queryFailed, historyVars>>

QueryFails ==
  /\ pc \in {"tables", "relationships", "targets"} \/ (pc = "foreign" /\ foreign # {})
  /\ pc' = "failed" /\ queryFailed' = TRUE
  /\ UNCHANGED <<dbVars, batches, relationships, foreign, snapshot, historyVars>>

(***************************************************************************)
(* buildIndexes: of two tables of one name the later one is found, of two  *)
(* relationships of one table and name either (the query does not order    *)
(* them).                                                                  *)
(***************************************************************************)
TableIndex(bs) ==
  [n \in UNION {bs[i].names : i \in DOMAIN bs} |->
     bs[CHOOSE i \in DOMAIN bs : /\ n \in bs[i].names
                                 /\ \A j \in DOMAIN bs : n \in bs[j].names => j <= i].schema]

RelationshipIndexes(rels) ==
  {chosen \in SUBSET rels :
     \A r \in rels : Cardinality({s \in chosen : s.from = r.from /\ s.name = r.name}) = 1}

Valid(index, rels) ==
  /\ BaseTable \in DOMAIN index
  /\ \A r \in rels :
       /\ r.from \in DOMAIN index /\ r.joinColumn \in Shape[<<index[r.from], r.from>>]
       /\ r.to \in DOMAIN index /\ r.targetColumn \in Shape[<<index[r.to], r.to>>]

Serve ==
  /\ pc = "foreign" /\ foreign = {}
  /\ Valid(TableIndex(batches), relationships)
  /\ \E chosen \in RelationshipIndexes(relationships) :
       snapshot' = [tables |-> TableIndex(batches), relationships |-> chosen]
  /\ pc' = "served"
  /\ UNCHANGED <<dbVars, batches, relationships, foreign, queryFailed, historyVars>>

Reject ==
  /\ pc = "foreign" /\ foreign = {}
  /\ ~Valid(TableIndex(batches), relationships)
  /\ pc' = "failed"
  /\ UNCHANGED <<dbVars, loadVars, historyVars>>

(***************************************************************************)
(* The extension builds its snapshot from the one statement it sends.  Its *)
(* rows say nothing of a table's schema; a lowering asks SchemaFor, which  *)
(* falls back to the schema that the whole catalog is for.                 *)
(***************************************************************************)
NoSchema == ""

ExtensionRelationships == RelationshipsOf(Rows(Namespace, ExtensionJoined))
ExtensionTables == [n \in TablesOf(Namespace).names |-> NoSchema]

SchemaFor(index, n) == IF index[n] # NoSchema THEN index[n] ELSE Namespace

DDL == CreateTable \/ DropTable \/ AddForeignKey \/ DropForeignKey
BuildSnapshot ==
  \/ ReadTables \/ ReadRelationships \/ ReadTargets \/ ReadForeignTables \/ QueryFails
  \/ Serve \/ Reject

Next == DDL \/ BuildSnapshot

Spec == Init /\ [][Next]_vars

-----------------------------------------------------------------------------
(***************************************************************************)
(* The variables take the values that BuildSnapshot can give them.  A      *)
(* schema is read at most once, and is no longer on the list then.         *)
(***************************************************************************)
TypeOK ==
  /\ tables \in SUBSET AllTables /\ fks \in SUBSET ForeignKeys /\ ddl \in 0..MaxDDL
  /\ \A fk \in fks : {<<fk.schema, fk.table>>, <<fk.toSchema, fk.toTable>>} \subseteq tables
  /\ pc \in {"tables", "relationships", "targets", "foreign", "served", "failed"}
  /\ \A i, j \in DOMAIN batches : batches[i].schema = batches[j].schema => i = j
  /\ \A i \in DOMAIN batches :
       /\ batches[i].schema \in Schemas \ foreign
       /\ batches[i].names \subseteq Names
  /\ foreign \subseteq Schemas \ {Namespace}
  /\ \A r \in relationships : {r.from, r.to} \subseteq Names
  /\ snapshot.relationships \subseteq relationships
  /\ (pc # "served") <=> (snapshot = NoSnapshot)
  /\ queryFailed => pc = "failed"
  /\ tables \subseteq sawTables /\ fks \subseteq sawFks
  /\ quiet <=> (ddl = 0)

Target(fk) == <<fk.toSchema, fk.toTable>>

(***************************************************************************)
(* What the loader takes for granted of the database, over all that it may *)
(* have seen: a table's name is found in one schema, a constraint's name   *)
(* once in its schema (PostgreSQL asks for that per table only), a foreign *)
(* key has one column and a column one foreign key.                        *)
(***************************************************************************)
Unambiguous ==
  /\ \A t, u \in sawTables : t[2] = u[2] => t = u
  /\ \A fk \in sawFks : \E pair \in fk.columns : fk.columns = {pair}
  /\ \A fk, other \in sawFks :
       /\ fk.schema = other.schema
       /\ \/ fk.name = other.name
          \/ /\ fk.table = other.table
             /\ {pair[1] : pair \in fk.columns} = {pair[1] : pair \in other.columns}
       => fk = other

(***************************************************************************)
(* The relationship r of the served snapshot compares columns that fk      *)
(* compares, between the tables of fk, in the schemas of fk.               *)
(***************************************************************************)
Stands(r, fk) ==
  /\ fk.schema = Namespace /\ fk.table = r.from /\ fk.toTable = r.to
  /\ <<r.joinColumn, r.targetColumn>> \in fk.columns
  /\ snapshot.tables[r.from] = Namespace /\ snapshot.tables[r.to] = fk.toSchema

(***************************************************************************)
(* The schema asked for and those that its foreign keys refer to.          *)
(***************************************************************************)
SchemasInReach == {Namespace} \cup {fk.toSchema : fk \in {k \in fks : k.schema = Namespace}}

(***************************************************************************)
(* BuildSnapshot (postgres.go): in a database that nobody changes and that *)
(* answers, the load succeeds exactly when the base table exists, in the   *)
(* schema asked for or in one that a foreign key of it refers to, and      *)
(* serves one relationship for each foreign key of the schema asked for,   *)
(* across schemas too, and the tables of that schema.  It knows whether    *)
(* the join column has an index, and that the target of a key has one (not *)
(* if that is in another schema, where it looks in the wrong one).         *)
(***************************************************************************)
QuietLoadIsExact ==
  (~Loading /\ quiet /\ ~queryFailed /\ Unambiguous) =>
    /\ (pc = "served") <=> (\E ns \in SchemasInReach : <<ns, BaseTable>> \in tables)
    /\ pc = "served" =>
         /\ \A fk \in fks : fk.schema = Namespace =>
              \E r \in snapshot.relationships : Stands(r, fk)
         /\ \A r \in snapshot.relationships :
              Cardinality({fk \in fks : Stands(r, fk)}) = 1
         /\ Cardinality(snapshot.relationships)
              = Cardinality({fk \in fks : fk.schema = Namespace})
         /\ \A r \in snapshot.relationships, fk \in fks : Stands(r, fk) =>
              /\ r.joinIndexed <=> <<Namespace, r.from, r.joinColumn>> \in Indexed
              /\ fk.toSchema = Namespace => r.targetIndexed
         /\ \A t \in tables : t[1] = Namespace =>
              t[2] \in DOMAIN snapshot.tables /\ snapshot.tables[t[2]] = Namespace

(***************************************************************************)
(* BuildSnapshot while the schema changes: the queries see different       *)
(* databases, and Validate only compares names.  What it lets through are  *)
(* still joins of foreign keys that existed, to tables that existed.       *)
(***************************************************************************)
ServedJoinsAreReal ==
  (pc = "served" /\ Unambiguous) =>
    \A r \in snapshot.relationships :
      \E fk \in sawFks :
        Stands(r, fk) /\ Target(fk) \in sawTables /\ <<Namespace, r.from>> \in sawTables

(***************************************************************************)
(* live_catalog_query (formql.c) against BuildSnapshot: the two hosts      *)
(* serve the same relationships, and the same tables, found in the same    *)
(* schema, when no foreign key leaves the schema and no constraint of      *)
(* another schema that points into it shares its name with one of it.      *)
(***************************************************************************)
ExtensionAgrees ==
  /\ pc = "served" /\ quiet /\ Unambiguous
  /\ \A fk \in fks : fk.schema = Namespace => fk.toSchema = Namespace
  /\ \A fk, other \in fks :
       (fk.schema = Namespace /\ other.toSchema = Namespace /\ fk.name = other.name) => fk = other
  => /\ ExtensionRelationships = snapshot.relationships
     /\ DOMAIN ExtensionTables = DOMAIN snapshot.tables
     /\ \A n \in DOMAIN snapshot.tables :
          SchemaFor(ExtensionTables, n) = SchemaFor(snapshot.tables, n)

-----------------------------------------------------------------------------
(***************************************************************************)
(* docs/architecture.md:75, "direct foreign-key relationships": each       *)
(* relationship of the snapshot compares a column with the one that the    *)
(* foreign key compares it with.                                           *)
(***************************************************************************)
RelationshipsAreForeignKeys ==
  (pc = "served" /\ quiet) =>
    \A r \in snapshot.relationships :
      \E fk \in fks : <<r.joinColumn, r.targetColumn>> \in fk.columns
=============================================================================
