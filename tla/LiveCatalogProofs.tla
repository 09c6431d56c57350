-------------------------- MODULE LiveCatalogProofs --------------------------
(***************************************************************************)
(* What a snapshot of a live schema promises, for all databases, foreign   *)
(* keys and statements between the queries.                                *)
(***************************************************************************)
EXTENDS LiveCatalog, FiniteSetTheorems, FunctionTheorems, TLAPS

(***************************************************************************)
(* Where the load stands: what each query finds done before it.            *)
(***************************************************************************)
Phase ==
  /\ batches \in Seq([schema : Schemas, names : SUBSET Names])
  /\ pc = "tables" => batches = << >>
  /\ pc \in {"relationships", "targets"} =>
       Len(batches) = 1 /\ batches[1].schema = Namespace
  /\ pc \in {"tables", "relationships", "targets"} => foreign = {}

TypeInv == TypeOK /\ Phase

(***************************************************************************)
(* The result of a join of the views that reads the target's schema in the *)
(* constraint's usage.                                                     *)
(***************************************************************************)
LEMMA JoinedRows ==
  ASSUME fks \subseteq ForeignKeys, NEW row \in Rows(Namespace, Joined)
  PROVE  \E fk, keyed, used \in fks :
           /\ fk.schema = Namespace
           /\ keyed.schema = fk.schema /\ keyed.name = fk.name
           /\ used.schema = fk.schema /\ used.name = fk.name
           /\ row[1].table = fk.table /\ row[1].schema = fk.schema
           /\ \E pair \in keyed.columns : row[2].column = pair[1]
           /\ row[3].schema = used.toSchema /\ row[3].table = used.toTable
           /\ \E pair \in used.columns : row[3].column = pair[2]
<1>1. /\ row[1] \in TableConstraints /\ row[1].schema = Namespace
      /\ row[2] \in KeyColumnUsage /\ row[3] \in ConstraintColumnUsage
      /\ Joined(row[1], row[2], row[3])
  BY DEF Rows
<1>2. PICK fk \in fks : /\ row[1].schema = fk.schema /\ row[1].name = fk.name
                        /\ row[1].table = fk.table
  BY <1>1 DEF TableConstraints
<1>3. PICK keyed \in fks : /\ row[2].schema = keyed.schema /\ row[2].name = keyed.name
                           /\ \E pair \in keyed.columns : row[2].column = pair[1]
  BY <1>1 DEF KeyColumnUsage
<1>4. PICK used \in fks : /\ row[3].constraintSchema = used.schema /\ row[3].name = used.name
                          /\ row[3].schema = used.toSchema /\ row[3].table = used.toTable
                          /\ \E pair \in used.columns : row[3].column = pair[2]
  BY <1>1 DEF ConstraintColumnUsage
<1> QED
  BY <1>1, <1>2, <1>3, <1>4 DEF Joined

LEMMA InitTyped == Init => TypeInv
<1> SUFFICES ASSUME Init PROVE TypeInv
  OBVIOUS
<1>1. TypeOK
  <2>0. ddl \in 0..MaxDDL
    BY RefAssumption DEF Init, RefAssumption
  <2>1. /\ tables \in SUBSET AllTables /\ fks \in SUBSET ForeignKeys
        /\ \A fk \in fks : {<<fk.schema, fk.table>>, <<fk.toSchema, fk.toTable>>} \subseteq tables
    BY DEF Init
  <2>2. DOMAIN batches = {}
    BY DEF Init
  <2>3. pc = "tables" /\ foreign = {} /\ relationships = {} /\ snapshot = NoSnapshot
        /\ snapshot.relationships = {} /\ queryFailed = FALSE
    BY DEF Init, NoSnapshot
  <2>4. tables \subseteq sawTables /\ fks \subseteq sawFks /\ (quiet <=> (ddl = 0))
    BY DEF Init
  <2> QED
    BY <2>0, <2>1, <2>2, <2>3, <2>4 DEF TypeOK
<1>2. Phase
  BY DEF Init, Phase
<1> QED
  BY <1>1, <1>2 DEF TypeInv

LEMMA StatementTyped ==
  ASSUME TypeInv,
         NEW newTables \in SUBSET AllTables, NEW newFks \in SUBSET ForeignKeys,
         \A fk \in newFks : {<<fk.schema, fk.table>>, <<fk.toSchema, fk.toTable>>} \subseteq newTables,
         Statement(newTables, newFks)
  PROVE  TypeInv'
<1>1. ddl' \in 0..MaxDDL /\ ddl' # 0
  BY RefAssumption DEF TypeInv, TypeOK, Statement, RefAssumption
<1>2. TypeOK'
  BY <1>1 DEF TypeInv, TypeOK, Statement, loadVars
<1>3. Phase'
  BY DEF TypeInv, Phase, Statement, loadVars
<1> QED
  BY <1>2, <1>3 DEF TypeInv

LEMMA DDLTyped == TypeInv /\ DDL => TypeInv'
<1> SUFFICES ASSUME TypeInv, DDL PROVE TypeInv'
  OBVIOUS
<1>0. /\ tables \in SUBSET AllTables /\ fks \in SUBSET ForeignKeys
      /\ \A fk \in fks : {<<fk.schema, fk.table>>, <<fk.toSchema, fk.toTable>>} \subseteq tables
  BY DEF TypeInv, TypeOK
<1>1. CASE CreateTable
  BY <1>0, <1>1, StatementTyped DEF CreateTable
<1>2. CASE DropTable
  <2>1. PICK t \in tables :
          Statement(tables \ {t},
                    {fk \in fks : t \notin {<<fk.schema, fk.table>>, <<fk.toSchema, fk.toTable>>}})
    BY <1>2 DEF DropTable
  <2> DEFINE kept == {fk \in fks : t \notin {<<fk.schema, fk.table>>, <<fk.toSchema, fk.toTable>>}}
  <2>2. \A fk \in kept : {<<fk.schema, fk.table>>, <<fk.toSchema, fk.toTable>>} \subseteq tables \ {t}
    BY <1>0
  <2>3. kept \in SUBSET ForeignKeys /\ tables \ {t} \in SUBSET AllTables
    BY <1>0
  <2> QED
    BY <2>1, <2>2, <2>3, StatementTyped
<1>3. CASE AddForeignKey
  BY <1>0, <1>3, StatementTyped DEF AddForeignKey
<1>4. CASE DropForeignKey
  BY <1>0, <1>4, StatementTyped DEF DropForeignKey
<1> QED
  BY <1>1, <1>2, <1>3, <1>4 DEF DDL

(***************************************************************************)
(* The tables of a schema that exists are a batch.                         *)
(***************************************************************************)
LEMMA BatchType ==
  ASSUME tables \in SUBSET AllTables, NEW ns \in Schemas
  PROVE  /\ TablesOf(ns) \in [schema : Schemas, names : SUBSET Names]
         /\ TablesOf(ns).schema = ns
         /\ \A n \in TablesOf(ns).names : <<ns, n>> \in tables
  BY DEF TablesOf, AllTables

LEMMA RowsOfNames ==
  ASSUME TypeInv
  PROVE  /\ CrossSchemaTargets \subseteq Schemas \ {Namespace}
         /\ \A r \in RelationshipsOf(Rows(Namespace, Joined)) : {r.from, r.to} \subseteq Names
<1>1. /\ fks \subseteq ForeignKeys
      /\ \A fk \in fks : {<<fk.schema, fk.table>>, <<fk.toSchema, fk.toTable>>} \subseteq AllTables
  BY DEF TypeInv, TypeOK
<1>2. \A fk \in fks : fk.toSchema \in Schemas /\ fk.table \in Names /\ fk.toTable \in Names
  BY <1>1 DEF AllTables
<1>3. \A row \in Rows(Namespace, Joined) :
        row[3].schema \in Schemas /\ row[1].table \in Names /\ row[3].table \in Names
  BY <1>1, <1>2, JoinedRows
<1> QED
  BY <1>3 DEF CrossSchemaTargets, RelationshipsOf, Relationship

LEMMA BuildTyped == TypeInv /\ BuildSnapshot => TypeInv'
<1> SUFFICES ASSUME TypeInv, BuildSnapshot PROVE TypeInv'
  OBVIOUS
<1>0. tables \in SUBSET AllTables /\ Namespace \in Schemas
  BY RefAssumption DEF TypeInv, TypeOK, RefAssumption
<1>1. CASE ReadTables
  <2>1. /\ batches' = <<TablesOf(Namespace)>>
        /\ TablesOf(Namespace) \in [schema : Schemas, names : SUBSET Names]
        /\ TablesOf(Namespace).schema = Namespace
    BY <1>0, <1>1, BatchType DEF ReadTables
  <2>2. batches' \in Seq([schema : Schemas, names : SUBSET Names]) /\ Len(batches') = 1
        /\ DOMAIN batches' = {1} /\ batches'[1] = TablesOf(Namespace)
    BY <2>1
  <2>3. TypeOK'
    BY <1>1, <2>1, <2>2 DEF TypeInv, TypeOK, Phase, ReadTables, dbVars, historyVars
  <2>4. Phase'
    BY <1>1, <2>1, <2>2 DEF TypeInv, Phase, ReadTables, dbVars, historyVars
  <2> QED
    BY <2>3, <2>4 DEF TypeInv
<1>2. CASE ReadRelationships
  <2>1. TypeOK'
    BY <1>2, RowsOfNames DEF TypeInv, TypeOK, NoSnapshot, ReadRelationships, dbVars, historyVars
  <2>2. Phase'
    BY <1>2 DEF TypeInv, Phase, ReadRelationships, dbVars, historyVars
  <2> QED
    BY <2>1, <2>2 DEF TypeInv
<1>3. CASE ReadTargets
  <2>1. DOMAIN batches = {1} /\ batches[1].schema = Namespace
    BY <1>3 DEF TypeInv, Phase, ReadTargets
  <2>2. TypeOK'
    BY <1>3, <2>1, RowsOfNames DEF TypeInv, TypeOK, ReadTargets, dbVars, historyVars
  <2>3. Phase'
    BY <1>3 DEF TypeInv, Phase, ReadTargets, dbVars, historyVars
  <2> QED
    BY <2>2, <2>3 DEF TypeInv
<1>4. CASE ReadForeignTables
  <2>1. PICK ns \in foreign :
          /\ pc = "foreign"
          /\ batches' = Append(batches, TablesOf(ns))
          /\ foreign' = foreign \ {ns}
          /\ UNCHANGED <<dbVars, pc, relationships, snapshot, queryFailed, historyVars>>
    BY <1>4 DEF ReadForeignTables
  <2>2. ns \in Schemas
    BY DEF TypeInv, TypeOK
  <2>3. /\ TablesOf(ns) \in [schema : Schemas, names : SUBSET Names]
        /\ TablesOf(ns).schema = ns
    BY <1>0, <2>2, BatchType
  <2>4. batches \in Seq([schema : Schemas, names : SUBSET Names])
    BY DEF TypeInv, Phase
  <2>5. /\ batches' \in Seq([schema : Schemas, names : SUBSET Names])
        /\ DOMAIN batches' = DOMAIN batches \cup {Len(batches) + 1}
        /\ \A i \in DOMAIN batches : batches'[i] = batches[i]
        /\ batches'[Len(batches) + 1] = TablesOf(ns)
        /\ Len(batches) + 1 \notin DOMAIN batches
    BY <2>1, <2>3, <2>4
  <2>6. \A i \in DOMAIN batches : batches[i].schema # ns
    BY DEF TypeInv, TypeOK
  <2>7. \A i, j \in DOMAIN batches' : batches'[i].schema = batches'[j].schema => i = j
    BY <2>3, <2>5, <2>6 DEF TypeInv, TypeOK
  <2>8. \A i \in DOMAIN batches' :
          /\ batches'[i].schema \in Schemas \ foreign'
          /\ batches'[i].names \subseteq Names
    BY <2>1, <2>2, <2>3, <2>5 DEF TypeInv, TypeOK
  <2>9. TypeOK'
    BY <2>1, <2>7, <2>8 DEF TypeInv, TypeOK, dbVars, historyVars
  <2>10. Phase'
    BY <2>1, <2>5 DEF TypeInv, Phase, dbVars, historyVars
  <2> QED
    BY <2>9, <2>10 DEF TypeInv
<1>5. CASE QueryFails
  <2>1. TypeOK'
    BY <1>5 DEF TypeInv, TypeOK, QueryFails, dbVars, historyVars
  <2>2. Phase'
    BY <1>5 DEF TypeInv, Phase, QueryFails, dbVars, historyVars
  <2> QED
    BY <2>1, <2>2 DEF TypeInv
<1>6. CASE Serve
  <2>1. PICK chosen \in RelationshipIndexes(relationships) :
          snapshot' = [tables |-> TableIndex(batches), relationships |-> chosen]
    BY <1>6 DEF Serve
  <2>2. chosen \subseteq relationships
    BY DEF RelationshipIndexes
  <2>3. BaseTable \in DOMAIN TableIndex(batches)
    BY <1>6 DEF Serve, Valid
  <2>4. TableIndex(batches) # << >>
    BY <2>3
  <2>5. snapshot' # NoSnapshot /\ snapshot'.relationships \subseteq relationships
    BY <2>1, <2>2, <2>4 DEF NoSnapshot
  <2>6. TypeOK'
    BY <1>6, <2>5 DEF TypeInv, TypeOK, Serve, NoSnapshot, dbVars, historyVars
  <2>7. Phase'
    BY <1>6 DEF TypeInv, Phase, Serve, dbVars, historyVars
  <2> QED
    BY <2>6, <2>7 DEF TypeInv
<1>7. CASE Reject
  <2>1. TypeOK'
    BY <1>7 DEF TypeInv, TypeOK, Reject, dbVars, loadVars, historyVars
  <2>2. Phase'
    BY <1>7 DEF TypeInv, Phase, Reject, dbVars, loadVars, historyVars
  <2> QED
    BY <2>1, <2>2 DEF TypeInv
<1> QED
  BY <1>1, <1>2, <1>3, <1>4, <1>5, <1>6, <1>7 DEF BuildSnapshot

LEMMA Typed == Spec => []TypeInv
<1>1. TypeInv /\ UNCHANGED vars => TypeInv'
  BY DEF TypeInv, TypeOK, Phase, vars, dbVars, loadVars, historyVars
<1>2. TypeInv /\ [Next]_vars => TypeInv'
  BY <1>1, DDLTyped, BuildTyped DEF Next
<1> QED
  BY InitTyped, <1>2, PTL DEF Spec

(***************************************************************************)
(* The types of LiveCatalog, and that a schema is read at most once.       *)
(***************************************************************************)
THEOREM LiveCatalogTypeCorrect == Spec => []TypeOK
<1>1. TypeInv => TypeOK
  BY DEF TypeInv
<1> QED
  BY <1>1, Typed, PTL

-----------------------------------------------------------------------------
(***************************************************************************)
(* The relationship r is a foreign key of the schema asked for.            *)
(***************************************************************************)
ForeignKeyOf(r, fk) ==
  /\ fk.schema = Namespace /\ fk.table = r.from /\ fk.toTable = r.to
  /\ <<r.joinColumn, r.targetColumn>> \in fk.columns
  /\ Target(fk) \in sawTables /\ <<Namespace, r.from>> \in sawTables

RelationshipsSeen == \A r \in relationships : \E fk \in sawFks : ForeignKeyOf(r, fk)

BatchesSeen == \A i \in DOMAIN batches : \A n \in batches[i].names :
  <<batches[i].schema, n>> \in sawTables

(***************************************************************************)
(* Validate has found every table a relationship names, and what is found  *)
(* is a table that existed.                                                *)
(***************************************************************************)
SnapshotSeen == pc = "served" =>
  /\ \A r \in relationships : {r.from, r.to} \subseteq DOMAIN snapshot.tables
  /\ \A n \in DOMAIN snapshot.tables : <<snapshot.tables[n], n>> \in sawTables

(***************************************************************************)
(* That the database has been unambiguous so far is all a step may use; it *)
(* is what has been seen that decides, and that only grows.                *)
(***************************************************************************)
SeenInv == BatchesSeen /\ (Unambiguous => RelationshipsSeen /\ SnapshotSeen)

LEMMA UnambiguousBefore ==
  ASSUME sawTables \subseteq sawTables', sawFks \subseteq sawFks', Unambiguous'
  PROVE  Unambiguous
<1>1. \A t, u \in sawTables : t[2] = u[2] => t = u
  BY DEF Unambiguous
<1>2. \A fk \in sawFks : \E pair \in fk.columns : fk.columns = {pair}
  BY DEF Unambiguous
<1>3. \A fk, other \in sawFks :
        /\ fk.schema = other.schema
        /\ \/ fk.name = other.name
           \/ /\ fk.table = other.table
              /\ {pair[1] : pair \in fk.columns} = {pair[1] : pair \in other.columns}
        => fk = other
  BY DEF Unambiguous
<1> QED
  BY <1>1, <1>2, <1>3 DEF Unambiguous

(***************************************************************************)
(* With constraint names unique in the schema and one column a key, a row  *)
(* of the three views is one foreign key.                                  *)
(***************************************************************************)
LEMMA RowsAreForeignKeys ==
  ASSUME TypeInv, Unambiguous
  PROVE  \A r \in RelationshipsOf(Rows(Namespace, Joined)) :
           \E fk \in sawFks : ForeignKeyOf(r, fk)
<1> SUFFICES ASSUME NEW row \in Rows(Namespace, Joined)
             PROVE  \E fk \in sawFks : ForeignKeyOf(Relationship(row[1], row[2], row[3]), fk)
  BY DEF RelationshipsOf
<1>0. /\ fks \subseteq ForeignKeys /\ fks \subseteq sawFks /\ tables \subseteq sawTables
      /\ \A fk \in fks : {<<fk.schema, fk.table>>, <<fk.toSchema, fk.toTable>>} \subseteq tables
  BY DEF TypeInv, TypeOK
<1>1. PICK fk, keyed, used \in fks :
         /\ fk.schema = Namespace
         /\ keyed.schema = fk.schema /\ keyed.name = fk.name
         /\ used.schema = fk.schema /\ used.name = fk.name
         /\ row[1].table = fk.table /\ row[1].schema = fk.schema
         /\ \E pair \in keyed.columns : row[2].column = pair[1]
         /\ row[3].schema = used.toSchema /\ row[3].table = used.toTable
         /\ \E pair \in used.columns : row[3].column = pair[2]
  BY <1>0, JoinedRows
<1>2. keyed = fk /\ used = fk
  BY <1>0, <1>1 DEF Unambiguous
<1>3. PICK pair \in fk.columns : fk.columns = {pair}
  BY <1>0 DEF Unambiguous
<1>4. row[2].column = pair[1] /\ row[3].column = pair[2]
  BY <1>1, <1>2, <1>3
<1>5. pair = <<pair[1], pair[2]>>
  <2>1. pair \in Shape[<<fk.schema, fk.table>>] \X Shape[<<fk.toSchema, fk.toTable>>]
    BY <1>0, <1>3, ForeignKeysAssumption DEF ForeignKeysAssumption
  <2> QED
    BY <2>1
<1>6. <<row[2].column, row[3].column>> \in fk.columns
  BY <1>4, <1>5
<1>7. Target(fk) \in sawTables /\ <<Namespace, fk.table>> \in sawTables
  BY <1>0, <1>1 DEF Target
<1>8. row[3].table = fk.toTable /\ row[1].table = fk.table
  BY <1>1, <1>2
<1>9. ForeignKeyOf(Relationship(row[1], row[2], row[3]), fk)
  BY <1>1, <1>6, <1>7, <1>8 DEF ForeignKeyOf, Relationship
<1> QED
  BY <1>0, <1>9

(***************************************************************************)
(* When names are found in one schema, the index finds each where it was   *)
(* read: no two batches have it.                                           *)
(***************************************************************************)
LEMMA IndexFindsWhatWasSeen ==
  ASSUME TypeInv, BatchesSeen, Unambiguous,
         NEW n \in DOMAIN TableIndex(batches)
  PROVE  <<TableIndex(batches)[n], n>> \in sawTables
<1> DEFINE Last(i) == /\ n \in batches[i].names
                      /\ \A j \in DOMAIN batches : n \in batches[j].names => j <= i
<1>1. PICK i \in DOMAIN batches : n \in batches[i].names
  BY DEF TableIndex
<1>2. \A j \in DOMAIN batches : n \in batches[j].names => j = i
  <2> SUFFICES ASSUME NEW j \in DOMAIN batches, n \in batches[j].names PROVE j = i
    OBVIOUS
  <2>1. <<batches[i].schema, n>> \in sawTables /\ <<batches[j].schema, n>> \in sawTables
    BY <1>1 DEF BatchesSeen
  <2>2. <<batches[i].schema, n>> = <<batches[j].schema, n>>
    BY <2>1 DEF Unambiguous
  <2> QED
    BY <2>2 DEF TypeInv, TypeOK
<1>3. i \in Int
  BY DEF TypeInv, Phase
<1>4. Last(i)
  BY <1>1, <1>2, <1>3
<1> DEFINE last == CHOOSE k \in DOMAIN batches : Last(k)
<1>5. last \in DOMAIN batches /\ n \in batches[last].names
  BY <1>4
<1>6. TableIndex(batches)[n] = batches[last].schema
  BY DEF TableIndex
<1> QED
  BY <1>5, <1>6 DEF BatchesSeen

-----------------------------------------------------------------------------
LEMMA InitSeen == Init => SeenInv
<1> SUFFICES ASSUME Init PROVE SeenInv
  OBVIOUS
<1>1. DOMAIN batches = {} /\ relationships = {} /\ pc = "tables"
  BY DEF Init
<1> QED
  BY <1>1 DEF SeenInv, BatchesSeen, RelationshipsSeen, SnapshotSeen

(***************************************************************************)
(* DDL adds to what has been seen, and touches nothing of the load.        *)
(***************************************************************************)
LEMMA DDLSeen == TypeInv /\ SeenInv /\ DDL => SeenInv'
<1> SUFFICES ASSUME TypeInv, SeenInv, DDL PROVE SeenInv'
  OBVIOUS
<1>1. PICK newTables, newFks : Statement(newTables, newFks)
  BY DEF DDL, CreateTable, DropTable, AddForeignKey, DropForeignKey
<1>2. /\ sawTables \subseteq sawTables' /\ sawFks \subseteq sawFks' /\ pc' = pc
      /\ batches' = batches /\ relationships' = relationships /\ snapshot' = snapshot
  BY <1>1 DEF Statement, loadVars
<1>3. BatchesSeen'
  BY <1>2 DEF SeenInv, BatchesSeen
<1>4. ASSUME Unambiguous' PROVE RelationshipsSeen' /\ SnapshotSeen'
  <2>1. RelationshipsSeen /\ SnapshotSeen
    BY <1>2, <1>4, UnambiguousBefore DEF SeenInv
  <2>2. RelationshipsSeen'
    BY <1>2, <2>1 DEF RelationshipsSeen, ForeignKeyOf, Target
  <2>3. SnapshotSeen'
    BY <1>2, <2>1 DEF SnapshotSeen
  <2> QED
    BY <2>2, <2>3
<1> QED
  BY <1>3, <1>4 DEF SeenInv

(***************************************************************************)
(* A query adds what it reads, which has existed.                          *)
(***************************************************************************)
LEMMA BuildSeen == TypeInv /\ SeenInv /\ BuildSnapshot => SeenInv'
<1> SUFFICES ASSUME TypeInv, SeenInv, BuildSnapshot PROVE SeenInv'
  OBVIOUS
<1>0. /\ sawTables' = sawTables /\ sawFks' = sawFks
      /\ tables \in SUBSET AllTables /\ tables \subseteq sawTables /\ Namespace \in Schemas
  BY RefAssumption DEF TypeInv, TypeOK, RefAssumption, BuildSnapshot, ReadTables,
     ReadRelationships, ReadTargets, ReadForeignTables, QueryFails, Serve, Reject, historyVars
<1>a. Unambiguous' => Unambiguous
  BY <1>0, UnambiguousBefore
<1>1. CASE ReadTables
  <2>1. DOMAIN batches' = {1} /\ batches'[1] = TablesOf(Namespace)
    BY <1>1 DEF ReadTables
  <2>2. BatchesSeen'
    BY <1>0, <2>1, BatchType DEF BatchesSeen
  <2>3. relationships' = relationships /\ pc' # "served"
    BY <1>1 DEF ReadTables
  <2> QED
    BY <1>0, <1>a, <2>2, <2>3 DEF SeenInv, RelationshipsSeen, SnapshotSeen, ForeignKeyOf, Target
<1>2. CASE ReadRelationships
  <2>1. /\ relationships' = RelationshipsOf(Rows(Namespace, Joined))
        /\ pc' # "served" /\ batches' = batches
    BY <1>2 DEF ReadRelationships
  <2>2. BatchesSeen'
    BY <1>0, <2>1 DEF SeenInv, BatchesSeen
  <2>3. ASSUME Unambiguous' PROVE RelationshipsSeen'
    <3>1. \A r \in relationships' : \E fk \in sawFks : ForeignKeyOf(r, fk)
      BY <1>a, <2>1, <2>3, RowsAreForeignKeys
    <3> QED
      BY <1>0, <3>1 DEF RelationshipsSeen, ForeignKeyOf, Target
  <2> QED
    BY <2>1, <2>2, <2>3 DEF SeenInv, SnapshotSeen
<1>3. CASE ReadTargets
  <2>1. relationships' = relationships /\ pc' # "served" /\ batches' = batches
    BY <1>3 DEF ReadTargets
  <2> QED
    BY <1>0, <1>a, <2>1 DEF SeenInv, BatchesSeen, RelationshipsSeen, SnapshotSeen, ForeignKeyOf, Target
<1>4. CASE ReadForeignTables
  <2>1. PICK ns \in foreign :
          /\ batches' = Append(batches, TablesOf(ns))
          /\ relationships' = relationships /\ pc' = "foreign"
    BY <1>4 DEF ReadForeignTables
  <2>2. ns \in Schemas
    BY DEF TypeInv, TypeOK
  <2>3. /\ DOMAIN batches' = DOMAIN batches \cup {Len(batches) + 1}
        /\ \A i \in DOMAIN batches : batches'[i] = batches[i]
        /\ batches'[Len(batches) + 1] = TablesOf(ns)
    BY <1>0, <2>1, <2>2, BatchType DEF TypeInv, Phase
  <2>4. BatchesSeen'
    BY <1>0, <2>2, <2>3, BatchType DEF SeenInv, BatchesSeen
  <2> QED
    BY <1>0, <1>a, <2>1, <2>4 DEF SeenInv, RelationshipsSeen, SnapshotSeen, ForeignKeyOf, Target
<1>5. CASE QueryFails
  <2>1. relationships' = relationships /\ pc' # "served" /\ batches' = batches
    BY <1>5 DEF QueryFails
  <2> QED
    BY <1>0, <1>a, <2>1 DEF SeenInv, BatchesSeen, RelationshipsSeen, SnapshotSeen, ForeignKeyOf, Target
<1>6. CASE Serve
  <2>1. /\ relationships' = relationships /\ batches' = batches
        /\ snapshot'.tables = TableIndex(batches)
        /\ Valid(TableIndex(batches), relationships)
    BY <1>6 DEF Serve
  <2>2. BatchesSeen'
    BY <1>0, <2>1 DEF SeenInv, BatchesSeen
  <2>3. ASSUME Unambiguous' PROVE RelationshipsSeen' /\ SnapshotSeen'
    <3>1. RelationshipsSeen'
      BY <1>0, <1>a, <2>1, <2>3 DEF SeenInv, RelationshipsSeen, ForeignKeyOf, Target
    <3>2. \A r \in relationships' : {r.from, r.to} \subseteq DOMAIN snapshot'.tables
      BY <2>1 DEF Valid
    <3>3. \A n \in DOMAIN snapshot'.tables : <<snapshot'.tables[n], n>> \in sawTables'
      BY <1>0, <1>a, <2>1, <2>3, IndexFindsWhatWasSeen DEF SeenInv
    <3> QED
      BY <3>1, <3>2, <3>3 DEF SnapshotSeen
  <2> QED
    BY <2>2, <2>3 DEF SeenInv
<1>7. CASE Reject
  <2>1. relationships' = relationships /\ pc' # "served" /\ batches' = batches
    BY <1>7 DEF Reject, loadVars
  <2> QED
    BY <1>0, <1>a, <2>1 DEF SeenInv, BatchesSeen, RelationshipsSeen, SnapshotSeen, ForeignKeyOf, Target
<1> QED
  BY <1>1, <1>2, <1>3, <1>4, <1>5, <1>6, <1>7 DEF BuildSnapshot

(***************************************************************************)
(* Both ends of a served relationship are found in the schemas of the      *)
(* foreign key it came from.                                               *)
(***************************************************************************)
LEMMA SeenIsReal == TypeInv /\ SeenInv => ServedJoinsAreReal
<1> SUFFICES ASSUME TypeInv, SeenInv, pc = "served", Unambiguous,
                    NEW r \in snapshot.relationships
             PROVE  \E fk \in sawFks :
                      Stands(r, fk) /\ Target(fk) \in sawTables /\ <<Namespace, r.from>> \in sawTables
  BY DEF ServedJoinsAreReal
<1>1. r \in relationships
  BY DEF TypeInv, TypeOK
<1>2. PICK fk \in sawFks : ForeignKeyOf(r, fk)
  BY <1>1 DEF SeenInv, RelationshipsSeen
<1>3. /\ <<snapshot.tables[r.from], r.from>> \in sawTables
      /\ <<snapshot.tables[r.to], r.to>> \in sawTables
  BY <1>1 DEF SeenInv, SnapshotSeen
<1>4. /\ <<snapshot.tables[r.from], r.from>> = <<Namespace, r.from>>
      /\ <<snapshot.tables[r.to], r.to>> = <<fk.toSchema, fk.toTable>>
  BY <1>2, <1>3 DEF ForeignKeyOf, Target, Unambiguous
<1>5. Stands(r, fk)
  BY <1>2, <1>4 DEF Stands, ForeignKeyOf
<1> QED
  BY <1>2, <1>5 DEF ForeignKeyOf

(***************************************************************************)
(* ServedJoinsAreReal: DDL between the queries never makes BuildSnapshot   *)
(* serve a join that is not a foreign key of its time.                     *)
(***************************************************************************)
THEOREM ServesRealJoins == Spec => []ServedJoinsAreReal
<1>1. SeenInv /\ UNCHANGED vars => SeenInv'
  BY DEF SeenInv, BatchesSeen, RelationshipsSeen, SnapshotSeen, Unambiguous, ForeignKeyOf,
     Target, vars, dbVars, loadVars, historyVars
<1>2. TypeInv /\ SeenInv /\ [Next]_vars => SeenInv'
  BY <1>1, DDLSeen, BuildSeen DEF Next
<1> QED
  BY InitSeen, <1>2, SeenIsReal, Typed, PTL DEF Spec

-----------------------------------------------------------------------------
(***************************************************************************)
(* A load that nothing disturbs.  What its queries have returned is what   *)
(* the database has now, and by that Validate decided.                     *)
(***************************************************************************)
AnswersStand ==
  /\ \A i \in DOMAIN batches : \A n \in Names :
       n \in batches[i].names <=> <<batches[i].schema, n>> \in tables
  /\ pc # "tables" => \E i \in DOMAIN batches : batches[i].schema = Namespace
  /\ pc \in {"targets", "foreign", "served", "failed"} =>
       relationships = RelationshipsOf(Rows(Namespace, Joined))
  /\ pc \in {"foreign", "served", "failed"} =>
       \A ns \in Schemas \ {Namespace} :
         ns \in CrossSchemaTargets
           <=> (ns \in foreign \/ \E i \in DOMAIN batches : batches[i].schema = ns)
  /\ pc \in {"served", "failed"} => foreign = {}
  /\ pc = "served" =>
       /\ Valid(TableIndex(batches), relationships)
       /\ snapshot.tables = TableIndex(batches)
       /\ snapshot.relationships \in RelationshipIndexes(relationships)
  /\ pc = "failed" => ~Valid(TableIndex(batches), relationships)

UndisturbedInv ==
  (quiet /\ ~queryFailed) => sawTables = tables /\ sawFks = fks /\ AnswersStand

LEMMA InitUndisturbed == Init => UndisturbedInv
<1> SUFFICES ASSUME Init PROVE UndisturbedInv
  OBVIOUS
<1>1. DOMAIN batches = {} /\ pc = "tables" /\ sawTables = tables /\ sawFks = fks
  BY DEF Init
<1> QED
  BY <1>1 DEF UndisturbedInv, AnswersStand

(***************************************************************************)
(* A batch has the tables of its schema.                                   *)
(***************************************************************************)
LEMMA BatchIsSchema ==
  ASSUME tables \in SUBSET AllTables, NEW ns
  PROVE  TablesOf(ns).schema = ns /\ \A n \in Names : n \in TablesOf(ns).names <=> <<ns, n>> \in tables
<1> SUFFICES ASSUME NEW n \in Names PROVE n \in TablesOf(ns).names <=> <<ns, n>> \in tables
  BY DEF TablesOf
<1>1. \A u \in tables : u = <<u[1], u[2]>>
  BY DEF AllTables
<1> QED
  BY <1>1 DEF TablesOf

(***************************************************************************)
(* The views, and with them the answers, depend on the database only.      *)
(***************************************************************************)
LEMMA AnswersOfTheDatabase ==
  ASSUME UNCHANGED dbVars
  PROVE  /\ RelationshipsOf(Rows(Namespace, Joined))' = RelationshipsOf(Rows(Namespace, Joined))
         /\ CrossSchemaTargets' = CrossSchemaTargets
  BY DEF dbVars, RelationshipsOf, Rows, Relationship, HasIndex, TableConstraints, KeyColumnUsage,
     ConstraintColumnUsage, CrossSchemaTargets

LEMMA StepUndisturbed == TypeInv /\ UndisturbedInv /\ Next => UndisturbedInv'
<1> SUFFICES ASSUME TypeInv, UndisturbedInv, Next PROVE UndisturbedInv'
  OBVIOUS
<1>1. CASE DDL
  <2>1. ~quiet'
    BY <1>1 DEF DDL, CreateTable, DropTable, AddForeignKey, DropForeignKey, Statement
  <2> QED
    BY <2>1 DEF UndisturbedInv
<1>2. CASE BuildSnapshot
  <2>0. /\ UNCHANGED dbVars /\ UNCHANGED historyVars /\ (queryFailed => queryFailed')
        /\ UNCHANGED <<tables, fks, sawTables, sawFks, quiet>>
    BY <1>2 DEF BuildSnapshot, ReadTables, ReadRelationships, ReadTargets, ReadForeignTables,
       QueryFails, Serve, Reject, historyVars, loadVars, dbVars
  <2> SUFFICES ASSUME quiet, ~queryFailed' PROVE AnswersStand'
    BY <2>0 DEF UndisturbedInv
  <2>a. AnswersStand
    BY <2>0 DEF UndisturbedInv
  <2>b. /\ RelationshipsOf(Rows(Namespace, Joined))' = RelationshipsOf(Rows(Namespace, Joined))
        /\ CrossSchemaTargets' = CrossSchemaTargets
    BY <2>0, AnswersOfTheDatabase
  <2>c. tables \in SUBSET AllTables
    BY DEF TypeInv, TypeOK
  <2>1. CASE ReadTables
    <3>1. DOMAIN batches' = {1} /\ batches'[1] = TablesOf(Namespace) /\ pc' = "relationships"
      BY <2>1 DEF ReadTables
    <3> QED
      BY <2>0, <2>c, <3>1, BatchIsSchema DEF AnswersStand
  <2>2. CASE ReadRelationships
    BY <2>0, <2>2, <2>a, <2>b DEF ReadRelationships, AnswersStand
  <2>3. CASE ReadTargets
    <3>1. DOMAIN batches = {1} /\ batches[1].schema = Namespace
      BY <2>3 DEF TypeInv, Phase, ReadTargets
    <3> QED
      BY <2>0, <2>3, <2>a, <2>b, <3>1 DEF ReadTargets, AnswersStand
  <2>4. CASE ReadForeignTables
    <3>1. PICK ns \in foreign :
            /\ pc = "foreign" /\ pc' = "foreign" /\ relationships' = relationships
            /\ batches' = Append(batches, TablesOf(ns))
            /\ foreign' = foreign \ {ns}
      BY <2>4 DEF ReadForeignTables
    <3>2. ns \in Schemas
      BY DEF TypeInv, TypeOK
    <3>3. /\ TablesOf(ns).schema = ns
          /\ \A n \in Names : n \in TablesOf(ns).names <=> <<ns, n>> \in tables
      BY <2>c, BatchIsSchema
    <3>4. /\ DOMAIN batches' = DOMAIN batches \cup {Len(batches) + 1}
          /\ \A i \in DOMAIN batches : batches'[i] = batches[i]
          /\ batches'[Len(batches) + 1] = TablesOf(ns)
      BY <2>c, <3>1, <3>2, BatchType DEF TypeInv, Phase
    <3>5. \A i \in DOMAIN batches' : \A n \in Names :
            n \in batches'[i].names <=> <<batches'[i].schema, n>> \in tables'
      BY <2>0, <2>a, <3>3, <3>4 DEF AnswersStand
    <3>6. \E i \in DOMAIN batches' : batches'[i].schema = Namespace
      BY <2>a, <3>1, <3>4 DEF AnswersStand
    <3>7. \A m \in Schemas \ {Namespace} :
            m \in CrossSchemaTargets'
              <=> (m \in foreign' \/ \E i \in DOMAIN batches' : batches'[i].schema = m)
      BY <2>a, <2>b, <3>1, <3>3, <3>4 DEF AnswersStand
    <3> QED
      BY <2>a, <2>b, <3>1, <3>5, <3>6, <3>7 DEF AnswersStand
  <2>5. CASE QueryFails
    BY <2>5 DEF QueryFails
  <2>6. CASE Serve
    <3>1. PICK chosen \in RelationshipIndexes(relationships) :
            snapshot' = [tables |-> TableIndex(batches), relationships |-> chosen]
      BY <2>6 DEF Serve
    <3>2. /\ pc = "foreign" /\ pc' = "served" /\ foreign = {} /\ UNCHANGED <<batches, relationships, foreign>>
          /\ Valid(TableIndex(batches), relationships)
      BY <2>6 DEF Serve
    <3>3. TableIndex(batches)' = TableIndex(batches)
      BY <3>2 DEF TableIndex
    <3>4. Valid(TableIndex(batches), relationships)'
      BY <3>2, <3>3 DEF Valid
    <3>5. /\ snapshot'.tables = TableIndex(batches)'
          /\ (snapshot.relationships \in RelationshipIndexes(relationships))'
      BY <3>1, <3>2, <3>3 DEF RelationshipIndexes
    <3> QED
      BY <2>0, <2>a, <2>b, <3>2, <3>4, <3>5 DEF AnswersStand
  <2>7. CASE Reject
    <3>1. /\ pc = "foreign" /\ pc' = "failed" /\ foreign = {} /\ UNCHANGED <<batches, relationships, foreign>>
          /\ ~Valid(TableIndex(batches), relationships)
      BY <2>7 DEF Reject, loadVars
    <3>2. TableIndex(batches)' = TableIndex(batches)
      BY <3>1 DEF TableIndex
    <3>3. ~Valid(TableIndex(batches), relationships)'
      BY <3>1, <3>2 DEF Valid
    <3> QED
      BY <2>0, <2>a, <2>b, <3>1, <3>3 DEF AnswersStand
  <2> QED
    BY <1>2, <2>1, <2>2, <2>3, <2>4, <2>5, <2>6, <2>7 DEF BuildSnapshot
<1> QED
  BY <1>1, <1>2 DEF Next

(***************************************************************************)
(* A key of one column has one row in each view, and with names that tell  *)
(* the keys of a schema apart the join puts these three together.          *)
(***************************************************************************)
OwnKeys == {fk \in fks : fk.schema = Namespace}
KeyPair(fk) == CHOOSE pair : fk.columns = {pair}
ConstraintRow(fk) == [schema |-> fk.schema, name |-> fk.name, table |-> fk.table]
ColumnRow(fk) ==
  [schema |-> fk.schema, name |-> fk.name, table |-> fk.table, column |-> KeyPair(fk)[1]]
UsageRow(fk) ==
  [constraintSchema |-> fk.schema, name |-> fk.name,
   schema |-> fk.toSchema, table |-> fk.toTable, column |-> KeyPair(fk)[2]]
KeyRow(fk) == <<ConstraintRow(fk), ColumnRow(fk), UsageRow(fk)>>

LEMMA KeysNow ==
  ASSUME TypeInv, Unambiguous
  PROVE  /\ \A fk \in fks : fk.columns = {KeyPair(fk)}
         /\ \A fk \in fks : KeyPair(fk) = <<KeyPair(fk)[1], KeyPair(fk)[2]>>
         /\ \A fk, other \in fks : fk.schema = other.schema =>
              /\ fk.name = other.name => fk = other
              /\ fk.table = other.table /\ KeyPair(fk)[1] = KeyPair(other)[1] => fk = other
<1>0. fks \subseteq sawFks /\ fks \subseteq ForeignKeys
  BY DEF TypeInv, TypeOK
<1>1. \A fk \in fks : fk.columns = {KeyPair(fk)}
  BY <1>0 DEF Unambiguous, KeyPair
<1>2. \A fk \in fks : KeyPair(fk) = <<KeyPair(fk)[1], KeyPair(fk)[2]>>
  <2> SUFFICES ASSUME NEW fk \in fks PROVE KeyPair(fk) = <<KeyPair(fk)[1], KeyPair(fk)[2]>>
    OBVIOUS
  <2>1. KeyPair(fk) \in Shape[<<fk.schema, fk.table>>] \X Shape[<<fk.toSchema, fk.toTable>>]
    BY <1>0, <1>1, ForeignKeysAssumption DEF ForeignKeysAssumption
  <2> QED
    BY <2>1
<1>3. ASSUME NEW fk \in fks, NEW other \in fks, fk.schema = other.schema
      PROVE  /\ fk.name = other.name => fk = other
             /\ fk.table = other.table /\ KeyPair(fk)[1] = KeyPair(other)[1] => fk = other
  <2>1. {pair[1] : pair \in fk.columns} = {KeyPair(fk)[1]}
        /\ {pair[1] : pair \in other.columns} = {KeyPair(other)[1]}
    BY <1>1
  <2> QED
    BY <1>0, <1>3, <2>1 DEF Unambiguous
<1> QED
  BY <1>1, <1>2, <1>3

LEMMA ViewsOfKeys ==
  ASSUME TypeInv, Unambiguous
  PROVE  /\ TableConstraints = {ConstraintRow(fk) : fk \in fks}
         /\ KeyColumnUsage = {ColumnRow(fk) : fk \in fks}
         /\ ConstraintColumnUsage = {UsageRow(fk) : fk \in fks}
<1>0. \A fk \in fks : fk.columns = {KeyPair(fk)}
  BY KeysNow
<1>1. TableConstraints = {ConstraintRow(fk) : fk \in fks}
  BY DEF TableConstraints, ConstraintRow
<1>2. \A row : row \in KeyColumnUsage <=> \E fk \in fks : row = ColumnRow(fk)
  BY <1>0 DEF KeyColumnUsage, ColumnRow
<1>3. \A row : row \in ConstraintColumnUsage <=> \E fk \in fks : row = UsageRow(fk)
  BY <1>0 DEF ConstraintColumnUsage, UsageRow
<1> QED
  BY <1>1, <1>2, <1>3

LEMMA RowsOfKeys ==
  ASSUME TypeInv, Unambiguous
  PROVE  Rows(Namespace, Joined) = {KeyRow(fk) : fk \in OwnKeys}
<1>0. \A fk, other \in fks : fk.schema = other.schema /\ fk.name = other.name => fk = other
  BY KeysNow
<1>1. ASSUME NEW row \in Rows(Namespace, Joined)
      PROVE  row \in {KeyRow(fk) : fk \in OwnKeys}
  <2>1. /\ row[1] \in TableConstraints /\ row[1].schema = Namespace
        /\ row[2] \in KeyColumnUsage /\ row[3] \in ConstraintColumnUsage
        /\ Joined(row[1], row[2], row[3])
        /\ row = <<row[1], row[2], row[3]>>
    BY DEF Rows
  <2>2. PICK fk \in fks, keyed \in fks, used \in fks :
          row[1] = ConstraintRow(fk) /\ row[2] = ColumnRow(keyed) /\ row[3] = UsageRow(used)
    BY <2>1, ViewsOfKeys
  <2>a. /\ row[1].schema = fk.schema /\ row[1].name = fk.name
        /\ row[2].schema = keyed.schema /\ row[2].name = keyed.name
        /\ row[3].constraintSchema = used.schema /\ row[3].name = used.name
    BY <2>2 DEF ConstraintRow, ColumnRow, UsageRow
  <2>3. keyed = fk /\ used = fk
    BY <1>0, <2>1, <2>a DEF Joined
  <2>4. fk \in OwnKeys
    BY <2>1, <2>2 DEF OwnKeys, ConstraintRow
  <2> QED
    BY <2>1, <2>2, <2>3, <2>4 DEF KeyRow
<1>2. ASSUME NEW fk \in OwnKeys
      PROVE  KeyRow(fk) \in Rows(Namespace, Joined)
  <2>1. fk \in fks /\ fk.schema = Namespace
    BY DEF OwnKeys
  <2>2. /\ ConstraintRow(fk) \in TableConstraints /\ ConstraintRow(fk).schema = Namespace
        /\ ColumnRow(fk) \in KeyColumnUsage /\ UsageRow(fk) \in ConstraintColumnUsage
    BY <2>1, ViewsOfKeys DEF ConstraintRow
  <2>3. Joined(ConstraintRow(fk), ColumnRow(fk), UsageRow(fk))
    BY DEF Joined, ConstraintRow, ColumnRow, UsageRow
  <2> QED
    BY <2>2, <2>3 DEF Rows, KeyRow
<1> QED
  BY <1>1, <1>2

(***************************************************************************)
(* So each foreign key of the schema asked for is one relationship.        *)
(***************************************************************************)
KeyRelationship(fk) == Relationship(ConstraintRow(fk), ColumnRow(fk), UsageRow(fk))

LEMMA RelationshipsOfKeys ==
  ASSUME TypeInv, Unambiguous
  PROVE  RelationshipsOf(Rows(Namespace, Joined)) = {KeyRelationship(fk) : fk \in OwnKeys}
<1>1. \A fk : KeyRow(fk)[1] = ConstraintRow(fk) /\ KeyRow(fk)[2] = ColumnRow(fk) /\ KeyRow(fk)[3] = UsageRow(fk)
  BY DEF KeyRow
<1>2. RelationshipsOf({KeyRow(fk) : fk \in OwnKeys}) = {KeyRelationship(fk) : fk \in OwnKeys}
  BY <1>1 DEF RelationshipsOf, KeyRelationship
<1> QED
  BY <1>2, RowsOfKeys

LEMMA TargetsOfKeys ==
  ASSUME TypeInv, Unambiguous
  PROVE  \A ns : ns \in CrossSchemaTargets <=> ns # Namespace /\ \E fk \in OwnKeys : fk.toSchema = ns
<1>1. \A fk : KeyRow(fk)[3].schema = fk.toSchema
  BY DEF KeyRow, UsageRow
<1>2. {row[3].schema : row \in {KeyRow(fk) : fk \in OwnKeys}} = {fk.toSchema : fk \in OwnKeys}
  BY <1>1
<1> QED
  BY <1>2, RowsOfKeys DEF CrossSchemaTargets

(***************************************************************************)
(* Its name tells it from the other relationships of its table.            *)
(***************************************************************************)
LEMMA OneNameAColumn ==
  ASSUME NEW c \in Seq(STRING), NEW d \in Seq(STRING), RelationshipName(c) = RelationshipName(d)
  PROVE  c = d
<1>1. /\ Len(RelationshipName(c)) = Len(c) + 1 /\ \A i \in 1..Len(c) : RelationshipName(c)[i] = c[i]
      /\ Len(RelationshipName(d)) = Len(d) + 1 /\ \A i \in 1..Len(d) : RelationshipName(d)[i] = d[i]
  BY DEF RelationshipName
<1>2. Len(c) = Len(d) /\ Len(c) \in Nat
  BY <1>1
<1> QED
  BY <1>1, <1>2

LEMMA OneKeyAName ==
  ASSUME TypeInv, Unambiguous,
         NEW fk \in OwnKeys, NEW other \in OwnKeys,
         KeyRelationship(fk).from = KeyRelationship(other).from,
         KeyRelationship(fk).name = KeyRelationship(other).name
  PROVE  fk = other
<1>0. fk \in fks /\ other \in fks /\ fk.schema = other.schema
  BY DEF OwnKeys
<1>1. \A k \in fks : KeyPair(k)[1] \in Seq(STRING)
  <2> SUFFICES ASSUME NEW k \in fks PROVE KeyPair(k)[1] \in Seq(STRING)
    OBVIOUS
  <2>1. k.columns = {KeyPair(k)} /\ k \in ForeignKeys
    BY KeysNow DEF TypeInv, TypeOK
  <2>2. /\ KeyPair(k) \in Shape[<<k.schema, k.table>>] \X Shape[<<k.toSchema, k.toTable>>]
        /\ <<k.schema, k.table>> \in AllTables
    BY <2>1, ForeignKeysAssumption DEF ForeignKeysAssumption
  <2> QED
    BY <2>2, ShapeAssumption DEF ShapeAssumption
<1>2. fk.table = other.table /\ RelationshipName(KeyPair(fk)[1]) = RelationshipName(KeyPair(other)[1])
  BY DEF KeyRelationship, Relationship, ConstraintRow, ColumnRow
<1>3. KeyPair(fk)[1] = KeyPair(other)[1]
  BY <1>0, <1>1, <1>2, OneNameAColumn
<1> QED
  BY <1>0, <1>2, <1>3, KeysNow

(***************************************************************************)
(* When a load has ended undisturbed: what it found, and what Validate saw.*)
(***************************************************************************)
Undisturbed ==
  /\ TypeInv /\ Unambiguous /\ AnswersStand
  /\ sawTables = tables
  /\ pc \in {"served", "failed"}

LEMMA BatchesInReach ==
  ASSUME Undisturbed
  PROVE  \A ns \in Schemas : ns \in SchemasInReach <=> \E i \in DOMAIN batches : batches[i].schema = ns
<1>1. \A ns : ns \in SchemasInReach <=> (ns = Namespace \/ \E fk \in OwnKeys : fk.toSchema = ns)
  BY DEF SchemasInReach, OwnKeys
<1>2. \A ns : ns \in CrossSchemaTargets <=> (ns # Namespace /\ \E fk \in OwnKeys : fk.toSchema = ns)
  BY TargetsOfKeys DEF Undisturbed
<1>3. /\ foreign = {} /\ \E i \in DOMAIN batches : batches[i].schema = Namespace
      /\ \A ns \in Schemas \ {Namespace} :
           ns \in CrossSchemaTargets
             <=> (ns \in foreign \/ \E i \in DOMAIN batches : batches[i].schema = ns)
  BY DEF Undisturbed, AnswersStand
<1> QED
  BY <1>1, <1>2, <1>3

LEMMA IndexIsDatabase ==
  ASSUME Undisturbed
  PROVE  /\ \A ns \in SchemasInReach : \A n \in Names : <<ns, n>> \in tables =>
              n \in DOMAIN TableIndex(batches) /\ TableIndex(batches)[n] = ns
         /\ \A n \in DOMAIN TableIndex(batches) :
              \E ns \in SchemasInReach : <<ns, n>> \in tables
<1> DEFINE index == TableIndex(batches)
<1>0. /\ sawTables = tables /\ TypeInv /\ Unambiguous
      /\ \A i \in DOMAIN batches : batches[i].schema \in Schemas /\ batches[i].names \subseteq Names
      /\ \A i \in DOMAIN batches : \A n \in Names :
           n \in batches[i].names <=> <<batches[i].schema, n>> \in tables
  BY DEF Undisturbed, AnswersStand, TypeInv, TypeOK
<1>1. BatchesSeen
  BY <1>0 DEF BatchesSeen
<1>2. \A n : n \in DOMAIN index <=> \E i \in DOMAIN batches : n \in batches[i].names
  BY DEF TableIndex
<1>3. \A n \in DOMAIN index : <<index[n], n>> \in tables
  BY <1>0, <1>1, IndexFindsWhatWasSeen
<1>4. \A n \in DOMAIN index : \E ns \in SchemasInReach : <<ns, n>> \in tables
  BY <1>0, <1>2, BatchesInReach
<1>5. SchemasInReach \subseteq Schemas
  <2>1. \A fk \in fks : <<fk.toSchema, fk.toTable>> \in AllTables
    BY ForeignKeysAssumption DEF Undisturbed, TypeInv, TypeOK, ForeignKeysAssumption
  <2>2. \A fk \in fks : fk.toSchema \in Schemas
    BY <2>1 DEF AllTables
  <2> QED
    BY <2>2, RefAssumption DEF SchemasInReach, RefAssumption
<1>6. ASSUME NEW ns \in SchemasInReach, NEW n \in Names, <<ns, n>> \in tables
      PROVE  n \in DOMAIN index /\ index[n] = ns
  <2>1. PICK i \in DOMAIN batches : batches[i].schema = ns
    BY <1>5, BatchesInReach
  <2>2. n \in DOMAIN index
    BY <1>0, <1>2, <1>6, <2>1
  <2>3. <<index[n], n>> = <<ns, n>>
    BY <1>0, <1>3, <1>6, <2>2 DEF Unambiguous
  <2> QED
    BY <2>2, <2>3
<1> QED
  BY <1>4, <1>6

(***************************************************************************)
(* Where a foreign key leads is read, so Validate can only miss the base   *)
(* table.                                                                  *)
(***************************************************************************)
LEMMA KeyFound ==
  ASSUME Undisturbed, NEW fk \in OwnKeys
  PROVE  LET r == KeyRelationship(fk)
             index == TableIndex(batches)
         IN  /\ r.from = fk.table /\ r.to = fk.toTable
             /\ r.joinColumn = KeyPair(fk)[1] /\ r.targetColumn = KeyPair(fk)[2]
             /\ r.from \in DOMAIN index /\ index[r.from] = Namespace
             /\ r.joinColumn \in Shape[<<index[r.from], r.from>>]
             /\ r.to \in DOMAIN index /\ index[r.to] = fk.toSchema
             /\ r.targetColumn \in Shape[<<index[r.to], r.to>>]
             /\ <<fk.toSchema, r.to, r.targetColumn>> \in Indexed
<1> DEFINE r == KeyRelationship(fk)
           index == TableIndex(batches)
<1>1. r.from = fk.table /\ r.to = fk.toTable
      /\ r.joinColumn = KeyPair(fk)[1] /\ r.targetColumn = KeyPair(fk)[2]
  BY DEF KeyRelationship, Relationship, ConstraintRow, ColumnRow, UsageRow
<1>2. /\ fk \in fks /\ fk.schema = Namespace /\ fk \in ForeignKeys
      /\ <<Namespace, fk.table>> \in tables /\ <<fk.toSchema, fk.toTable>> \in tables
      /\ tables \subseteq AllTables
  BY DEF OwnKeys, Undisturbed, TypeInv, TypeOK
<1>3. fk.columns = {KeyPair(fk)}
  BY <1>2, KeysNow DEF Undisturbed
<1>4. /\ KeyPair(fk) \in Shape[<<Namespace, fk.table>>] \X Shape[<<fk.toSchema, fk.toTable>>]
      /\ <<fk.toSchema, fk.toTable, KeyPair(fk)[2]>> \in Indexed
  BY <1>2, <1>3, ForeignKeysAssumption DEF ForeignKeysAssumption
<1>5. fk.table \in Names /\ fk.toTable \in Names
  BY <1>2 DEF AllTables
<1>6. Namespace \in SchemasInReach /\ fk.toSchema \in SchemasInReach
  BY <1>2 DEF SchemasInReach
<1>7. /\ fk.table \in DOMAIN index /\ index[fk.table] = Namespace
      /\ fk.toTable \in DOMAIN index /\ index[fk.toTable] = fk.toSchema
  BY <1>2, <1>5, <1>6, IndexIsDatabase
<1> QED
  BY <1>1, <1>4, <1>7

LEMMA RelationshipsFound ==
  ASSUME Undisturbed
  PROVE  relationships = {KeyRelationship(fk) : fk \in OwnKeys}
  BY RelationshipsOfKeys DEF Undisturbed, AnswersStand

LEMMA ValidWhenFound ==
  ASSUME Undisturbed
  PROVE  Valid(TableIndex(batches), relationships)
           <=> \E ns \in SchemasInReach : <<ns, BaseTable>> \in tables
<1>1. BaseTable \in DOMAIN TableIndex(batches) <=> \E ns \in SchemasInReach : <<ns, BaseTable>> \in tables
  BY IndexIsDatabase, RefAssumption DEF RefAssumption
<1>2. ASSUME NEW q \in relationships
      PROVE  /\ q.from \in DOMAIN TableIndex(batches)
             /\ q.joinColumn \in Shape[<<TableIndex(batches)[q.from], q.from>>]
             /\ q.to \in DOMAIN TableIndex(batches)
             /\ q.targetColumn \in Shape[<<TableIndex(batches)[q.to], q.to>>]
  <2>1. PICK fk \in OwnKeys : q = KeyRelationship(fk)
    BY RelationshipsFound
  <2> QED
    BY <2>1, KeyFound
<1> QED
  BY <1>1, <1>2 DEF Valid

(***************************************************************************)
(* No relationship is lost in the index.                                   *)
(***************************************************************************)
LEMMA AllChosen ==
  ASSUME Undisturbed, NEW chosen \in RelationshipIndexes(relationships)
  PROVE  chosen = relationships
<1> SUFFICES ASSUME NEW q \in relationships, q \notin chosen PROVE FALSE
  BY DEF RelationshipIndexes
<1>1. chosen \subseteq relationships
      /\ Cardinality({s \in chosen : s.from = q.from /\ s.name = q.name}) = 1
  BY DEF RelationshipIndexes
<1>2. \A s \in chosen : s.from = q.from /\ s.name = q.name => s = q
  <2>1. TypeInv /\ Unambiguous
    BY DEF Undisturbed
  <2> QED
    BY <1>1, <2>1, RelationshipsFound, OneKeyAName
<1>3. {s \in chosen : s.from = q.from /\ s.name = q.name} = {}
  BY <1>2
<1> QED
  BY <1>1, <1>3, FS_EmptySet

(***************************************************************************)
(* The served relationships, each for its foreign key and for no other.    *)
(***************************************************************************)
LEMMA ServedForKeys ==
  ASSUME Undisturbed, pc = "served"
  PROVE  /\ snapshot.tables = TableIndex(batches)
         /\ snapshot.relationships = {KeyRelationship(fk) : fk \in OwnKeys}
         /\ \A fk \in OwnKeys : \A other \in fks :
              Stands(KeyRelationship(fk), other) <=> other = fk
<1>1. snapshot.tables = TableIndex(batches) /\ snapshot.relationships = relationships
  BY AllChosen DEF Undisturbed, AnswersStand
<1>2. ASSUME NEW fk \in OwnKeys, NEW other \in fks
      PROVE  Stands(KeyRelationship(fk), other) <=> other = fk
  <2> DEFINE r == KeyRelationship(fk)
  <2>1. /\ r.from = fk.table /\ r.to = fk.toTable
        /\ r.joinColumn = KeyPair(fk)[1] /\ r.targetColumn = KeyPair(fk)[2]
        /\ snapshot.tables[r.from] = Namespace /\ snapshot.tables[r.to] = fk.toSchema
    BY <1>1, KeyFound
  <2>2. /\ fk \in fks /\ fk.schema = Namespace
    BY DEF OwnKeys
  <2>3. /\ TypeInv /\ Unambiguous
    BY DEF Undisturbed
  <2>4. /\ fk.columns = {KeyPair(fk)} /\ KeyPair(fk) = <<KeyPair(fk)[1], KeyPair(fk)[2]>>
        /\ other.columns = {KeyPair(other)} /\ KeyPair(other) = <<KeyPair(other)[1], KeyPair(other)[2]>>
    BY <2>2, <2>3, KeysNow
  <2>5. ASSUME other = fk PROVE Stands(r, other)
    BY <2>1, <2>2, <2>4, <2>5 DEF Stands
  <2>6. ASSUME Stands(r, other) PROVE other = fk
    <3>1. other.schema = fk.schema /\ other.table = fk.table /\ KeyPair(other)[1] = KeyPair(fk)[1]
      BY <2>1, <2>2, <2>4, <2>6 DEF Stands
    <3> QED
      BY <2>2, <2>3, <3>1, KeysNow
  <2> QED
    BY <2>5, <2>6
<1> QED
  BY <1>1, <1>2, RelationshipsFound

LEMMA AsManyAsKeys ==
  ASSUME Undisturbed
  PROVE  Cardinality({KeyRelationship(fk) : fk \in OwnKeys}) = Cardinality(OwnKeys)
<1> DEFINE all == {KeyRelationship(fk) : fk \in OwnKeys}
           of == [fk \in OwnKeys |-> KeyRelationship(fk)]
<1>1. TypeInv /\ Unambiguous
  BY DEF Undisturbed
<1>2. IsFiniteSet(OwnKeys)
  <2>1. OwnKeys \subseteq ForeignKeys /\ IsFiniteSet(ForeignKeys)
    BY <1>1, ForeignKeysAssumption DEF OwnKeys, TypeInv, TypeOK, ForeignKeysAssumption
  <2> QED
    BY <2>1, FS_Subset
<1>3. of \in [OwnKeys -> all] /\ \A a, b \in OwnKeys : of[a] = of[b] => a = b
  BY <1>1, OneKeyAName
<1>4. \A t \in all : \E s \in OwnKeys : of[s] = t
  OBVIOUS
<1>5. of \in Bijection(OwnKeys, all)
  <2> HIDE DEF of, all
  <2> QED
    BY <1>3, <1>4, Fun_IsBij
<1>6. ExistsBijection(OwnKeys, all)
  BY <1>5, Fun_ExistsBij
<1> QED
  BY <1>2, <1>6, FS_Bijection

LEMMA UndisturbedIsExact == TypeInv /\ UndisturbedInv => QuietLoadIsExact
<1> SUFFICES ASSUME TypeInv, UndisturbedInv, ~Loading, quiet, ~queryFailed, Unambiguous
             PROVE  /\ (pc = "served") <=> (\E ns \in SchemasInReach : <<ns, BaseTable>> \in tables)
                    /\ pc = "served" =>
                         /\ \A fk \in fks : fk.schema = Namespace =>
                              \E r \in snapshot.relationships : Stands(r, fk)
                         /\ \A r \in snapshot.relationships :
                              Cardinality({fk \in fks : Stands(r, fk)}) = 1
                         /\ Cardinality(snapshot.relationships)
                              = Cardinality({fk \in fks : fk.schema = Namespace})
                         /\ \A r \in snapshot.relationships, fk \in fks : Stands(r, fk) =>
                              /\ r.joinIndexed <=> <<Namespace, r.from, r.joinColumn>> \in Indexed
                              /\ fk.toSchema = Namespace => r.targetIndexed
                         /\ \A t \in tables : t[1] = Namespace =>
                              t[2] \in DOMAIN snapshot.tables /\ snapshot.tables[t[2]] = Namespace
  BY DEF QuietLoadIsExact
<1>1. Undisturbed
  BY DEF Undisturbed, UndisturbedInv, Loading, TypeInv, TypeOK
<1>2. pc = "served" <=> \E ns \in SchemasInReach : <<ns, BaseTable>> \in tables
  <2>1. pc = "served" <=> Valid(TableIndex(batches), relationships)
    BY <1>1 DEF Undisturbed, AnswersStand
  <2> QED
    BY <1>1, <2>1, ValidWhenFound
<1> SUFFICES ASSUME pc = "served"
             PROVE  /\ \A fk \in fks : fk.schema = Namespace =>
                         \E r \in snapshot.relationships : Stands(r, fk)
                    /\ \A r \in snapshot.relationships :
                         Cardinality({fk \in fks : Stands(r, fk)}) = 1
                    /\ Cardinality(snapshot.relationships)
                         = Cardinality({fk \in fks : fk.schema = Namespace})
                    /\ \A r \in snapshot.relationships, fk \in fks : Stands(r, fk) =>
                         /\ r.joinIndexed <=> <<Namespace, r.from, r.joinColumn>> \in Indexed
                         /\ fk.toSchema = Namespace => r.targetIndexed
                    /\ \A t \in tables : t[1] = Namespace =>
                         t[2] \in DOMAIN snapshot.tables /\ snapshot.tables[t[2]] = Namespace
  BY <1>2
<1>3. /\ snapshot.tables = TableIndex(batches)
      /\ snapshot.relationships = {KeyRelationship(fk) : fk \in OwnKeys}
      /\ \A fk \in OwnKeys : \A other \in fks : Stands(KeyRelationship(fk), other) <=> other = fk
  BY <1>1, ServedForKeys
<1>4. OwnKeys = {fk \in fks : fk.schema = Namespace}
  BY DEF OwnKeys
<1>5. ASSUME NEW fk \in fks, fk.schema = Namespace
      PROVE  \E r \in snapshot.relationships : Stands(r, fk)
  BY <1>3, <1>4, <1>5
<1>6. ASSUME NEW r \in snapshot.relationships
      PROVE  Cardinality({fk \in fks : Stands(r, fk)}) = 1
  <2>1. PICK fk \in OwnKeys : r = KeyRelationship(fk)
    BY <1>3
  <2>2. {other \in fks : Stands(r, other)} = {fk}
    BY <1>3, <1>4, <2>1
  <2> QED
    BY <2>2, FS_Singleton
<1>7. Cardinality(snapshot.relationships) = Cardinality({fk \in fks : fk.schema = Namespace})
  BY <1>1, <1>3, <1>4, AsManyAsKeys
<1>8. ASSUME NEW r \in snapshot.relationships, NEW fk \in fks, Stands(r, fk)
      PROVE  /\ r.joinIndexed <=> <<Namespace, r.from, r.joinColumn>> \in Indexed
             /\ fk.toSchema = Namespace => r.targetIndexed
  <2>1. fk \in OwnKeys /\ r = KeyRelationship(fk)
    BY <1>3, <1>8
  <2>2. fk.schema = Namespace /\ <<Namespace, fk.table>> \in tables /\ <<fk.toSchema, fk.toTable>> \in tables
    BY <2>1 DEF OwnKeys, TypeInv, TypeOK
  <2>3. /\ r.from = fk.table /\ r.to = fk.toTable
        /\ r.joinColumn = KeyPair(fk)[1] /\ r.targetColumn = KeyPair(fk)[2]
        /\ <<fk.toSchema, r.to, r.targetColumn>> \in Indexed
    BY <1>1, <2>1, KeyFound
  <2>4. /\ r.joinIndexed = HasIndex(fk.schema, fk.table, KeyPair(fk)[1])
        /\ r.targetIndexed = HasIndex(fk.schema, fk.toTable, KeyPair(fk)[2])
    BY <2>1 DEF KeyRelationship, Relationship, ConstraintRow, ColumnRow, UsageRow
  <2> QED
    BY <2>2, <2>3, <2>4 DEF HasIndex
<1>9. ASSUME NEW t \in tables, t[1] = Namespace
      PROVE  t[2] \in DOMAIN snapshot.tables /\ snapshot.tables[t[2]] = Namespace
  <2>1. t = <<Namespace, t[2]>> /\ t[2] \in Names
    BY <1>9 DEF TypeInv, TypeOK, AllTables
  <2>2. Namespace \in SchemasInReach
    BY DEF SchemasInReach
  <2> QED
    BY <1>1, <1>3, <1>9, <2>1, <2>2, IndexIsDatabase
<1> QED
  BY <1>5, <1>6, <1>7, <1>8, <1>9

LEMMA UndisturbedAlways == Spec => []UndisturbedInv
<1>1. UndisturbedInv /\ UNCHANGED vars => UndisturbedInv'
  <2> SUFFICES ASSUME UndisturbedInv, UNCHANGED vars, quiet', ~queryFailed'
               PROVE  sawTables' = tables' /\ sawFks' = fks' /\ AnswersStand'
    BY DEF UndisturbedInv
  <2>1. /\ UNCHANGED <<tables, fks, pc, batches, relationships, foreign, snapshot>>
        /\ UNCHANGED <<sawTables, sawFks, quiet, queryFailed>> /\ UNCHANGED dbVars
    BY DEF vars, dbVars, loadVars, historyVars
  <2>2. sawTables = tables /\ sawFks = fks /\ AnswersStand
    BY <2>1 DEF UndisturbedInv
  <2>3. /\ RelationshipsOf(Rows(Namespace, Joined))' = RelationshipsOf(Rows(Namespace, Joined))
        /\ CrossSchemaTargets' = CrossSchemaTargets
    BY <2>1, AnswersOfTheDatabase
  <2>4. TableIndex(batches)' = TableIndex(batches)
    BY <2>1 DEF TableIndex
  <2>5. /\ Valid(TableIndex(batches), relationships)' <=> Valid(TableIndex(batches), relationships)
        /\ (snapshot.relationships \in RelationshipIndexes(relationships))'
             <=> snapshot.relationships \in RelationshipIndexes(relationships)
    BY <2>1, <2>4 DEF Valid, RelationshipIndexes
  <2> QED
    BY <2>1, <2>2, <2>3, <2>4, <2>5 DEF AnswersStand
<1>2. TypeInv /\ UndisturbedInv /\ [Next]_vars => UndisturbedInv'
  BY <1>1, StepUndisturbed
<1> QED
  BY InitUndisturbed, <1>2, Typed, PTL DEF Spec

(***************************************************************************)
(* QuietLoadIsExact: an undisturbed load serves one relationship for each  *)
(* foreign key of the schema asked for, or fails for want of its table.    *)
(***************************************************************************)
THEOREM QuietLoadsAreExact == Spec => []QuietLoadIsExact
  BY UndisturbedAlways, UndisturbedIsExact, Typed, PTL

-----------------------------------------------------------------------------
(***************************************************************************)
(* The extension's join takes the usages that lead into the schema.  If    *)
(* keys of the schema stay in it, and those that come from elsewhere have  *)
(* names of their own, these are the rows of BuildSnapshot's join.         *)
(***************************************************************************)
StayHome == \A fk \in fks : fk.schema = Namespace => fk.toSchema = Namespace
OwnNames ==
  \A fk, other \in fks :
    (fk.schema = Namespace /\ other.toSchema = Namespace /\ fk.name = other.name) => fk = other

LEMMA SameRows ==
  ASSUME TypeInv, Unambiguous, StayHome, OwnNames
  PROVE  Rows(Namespace, ExtensionJoined) = Rows(Namespace, Joined)
<1>0. \A fk, other \in fks : fk.schema = other.schema /\ fk.name = other.name => fk = other
  BY KeysNow
<1> SUFFICES ASSUME NEW tc \in TableConstraints, tc.schema = Namespace,
                    NEW kcu \in KeyColumnUsage, NEW ccu \in ConstraintColumnUsage
             PROVE  ExtensionJoined(tc, kcu, ccu) <=> Joined(tc, kcu, ccu)
  BY DEF Rows
<1>1. PICK fk \in fks, used \in fks : tc = ConstraintRow(fk) /\ ccu = UsageRow(used)
  BY ViewsOfKeys
<1>2. /\ tc.schema = fk.schema /\ tc.name = fk.name
      /\ ccu.constraintSchema = used.schema /\ ccu.name = used.name /\ ccu.schema = used.toSchema
  BY <1>1 DEF ConstraintRow, UsageRow
<1>3. ccu.name = tc.name => (ccu.schema = tc.schema <=> ccu.constraintSchema = tc.schema)
  <2>1. ASSUME ccu.name = tc.name, ccu.schema = tc.schema PROVE used = fk
    BY <1>2, <2>1 DEF OwnNames
  <2>2. ASSUME ccu.name = tc.name, ccu.constraintSchema = tc.schema PROVE used = fk
    BY <1>0, <1>2, <2>2
  <2>3. fk.toSchema = fk.schema
    BY <1>2 DEF StayHome
  <2> QED
    BY <1>2, <2>1, <2>2, <2>3
<1> QED
  BY <1>3 DEF ExtensionJoined, Joined

(***************************************************************************)
(* Then no other schema has been read.                                     *)
(***************************************************************************)
LEMMA OneBatch ==
  ASSUME Undisturbed, StayHome
  PROVE  batches = <<TablesOf(Namespace)>>
<1>1. SchemasInReach = {Namespace}
  BY DEF SchemasInReach, StayHome
<1>2. /\ batches \in Seq([schema : Schemas, names : SUBSET Names])
      /\ \A i, j \in DOMAIN batches : batches[i].schema = batches[j].schema => i = j
      /\ \A i \in DOMAIN batches : batches[i].schema \in Schemas
      /\ tables \in SUBSET AllTables /\ Namespace \in Schemas
  BY RefAssumption DEF Undisturbed, TypeInv, TypeOK, Phase, RefAssumption
<1>3. \A i \in DOMAIN batches : batches[i].schema = Namespace
  BY <1>1, <1>2, BatchesInReach
<1>4. \E i \in DOMAIN batches : batches[i].schema = Namespace
  BY <1>1, <1>2, BatchesInReach
<1>5. Len(batches) = 1
  <2>1. Len(batches) \in Nat /\ DOMAIN batches = 1..Len(batches)
    BY <1>2
  <2>2. PICK i \in 1..Len(batches) : \A j \in 1..Len(batches) : j = i
    BY <1>2, <1>3, <1>4, <2>1
  <2>3. 1 \in 1..Len(batches) /\ Len(batches) \in 1..Len(batches)
    BY <2>1, <2>2
  <2> QED
    BY <2>2, <2>3
<1>6. batches[1] \in [schema : Schemas, names : SUBSET Names] /\ 1 \in DOMAIN batches
  <2> DEFINE Batch == [schema : Schemas, names : SUBSET Names]
  <2>1. batches \in Seq(Batch)
    BY <1>2
  <2> HIDE DEF Batch
  <2>2. batches[1] \in Batch /\ 1 \in DOMAIN batches
    BY <1>5, <2>1
  <2> QED
    BY <2>2 DEF Batch
<1>7. /\ TablesOf(Namespace) \in [schema : Schemas, names : SUBSET Names]
      /\ TablesOf(Namespace).schema = Namespace
      /\ \A n \in Names : n \in TablesOf(Namespace).names <=> <<Namespace, n>> \in tables
  BY <1>2, BatchType, BatchIsSchema
<1>8. /\ batches[1].schema = Namespace
      /\ \A n \in Names : n \in batches[1].names <=> <<Namespace, n>> \in tables
  BY <1>3, <1>6 DEF Undisturbed, AnswersStand
<1>9. batches[1].names = TablesOf(Namespace).names
  BY <1>6, <1>7, <1>8
<1>10. batches[1] = TablesOf(Namespace)
  BY <1>6, <1>7, <1>8, <1>9
<1> QED
  BY <1>2, <1>5, <1>10

LEMMA OneBatchIndex ==
  ASSUME NEW batch, batch.schema = Namespace
  PROVE  /\ DOMAIN TableIndex(<<batch>>) = batch.names
         /\ \A n \in batch.names : TableIndex(<<batch>>)[n] = Namespace
<1> DEFINE bs == <<batch>>
<1>1. DOMAIN bs = {1} /\ bs[1] = batch
  OBVIOUS
<1> HIDE DEF bs
<1>2. UNION {bs[i].names : i \in DOMAIN bs} = batch.names
  BY <1>1
<1>3. ASSUME NEW n \in batch.names
      PROVE  (CHOOSE i \in DOMAIN bs : /\ n \in bs[i].names
                                       /\ \A j \in DOMAIN bs : n \in bs[j].names => j <= i) = 1
  BY <1>1
<1>4. /\ DOMAIN TableIndex(bs) = batch.names
      /\ \A n \in batch.names : TableIndex(bs)[n] = bs[1].schema
  BY <1>2, <1>3 DEF TableIndex
<1> QED BY <1>1, <1>4 DEF bs

LEMMA UndisturbedAgrees == TypeInv /\ UndisturbedInv => ExtensionAgrees
<1> SUFFICES ASSUME TypeInv, UndisturbedInv, pc = "served", quiet, Unambiguous, StayHome, OwnNames
             PROVE  /\ ExtensionRelationships = snapshot.relationships
                    /\ DOMAIN ExtensionTables = DOMAIN snapshot.tables
                    /\ \A n \in DOMAIN snapshot.tables :
                         SchemaFor(ExtensionTables, n) = SchemaFor(snapshot.tables, n)
  BY DEF ExtensionAgrees, StayHome, OwnNames
<1>1. Undisturbed
  BY DEF Undisturbed, UndisturbedInv, TypeInv, TypeOK
<1>2. snapshot.tables = TableIndex(batches)
  BY <1>1, ServedForKeys
<1>3. snapshot.relationships = RelationshipsOf(Rows(Namespace, Joined))
  BY <1>1, ServedForKeys, RelationshipsOfKeys
<1>4. ExtensionRelationships = RelationshipsOf(Rows(Namespace, Joined))
  BY SameRows DEF ExtensionRelationships
<1>5. TablesOf(Namespace).schema = Namespace
  BY DEF TablesOf
<1>6. /\ DOMAIN snapshot.tables = TablesOf(Namespace).names
      /\ \A n \in TablesOf(Namespace).names : snapshot.tables[n] = Namespace
  BY <1>1, <1>2, <1>5, OneBatch, OneBatchIndex
<1>7. /\ DOMAIN ExtensionTables = TablesOf(Namespace).names
      /\ \A n \in TablesOf(Namespace).names : ExtensionTables[n] = NoSchema
  BY DEF ExtensionTables
<1>8. \A n \in TablesOf(Namespace).names :
        SchemaFor(ExtensionTables, n) = SchemaFor(snapshot.tables, n)
  BY <1>6, <1>7 DEF SchemaFor
<1> QED
  BY <1>3, <1>4, <1>6, <1>7, <1>8

(***************************************************************************)
(* ExtensionAgrees: in a schema that keeps to itself the extension and the *)
(* live catalog serve the same relationships, and the same tables, found   *)
(* in the same schema.                                                     *)
(***************************************************************************)
THEOREM HostsAgree == Spec => []ExtensionAgrees
  BY UndisturbedAlways, UndisturbedAgrees, Typed, PTL
=============================================================================
