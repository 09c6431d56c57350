--------------------------- MODULE DocumentSyntax ---------------------------
(***************************************************************************)
(* What a lowering is given: the resolved catalog (pkg/formql/schema) and  *)
(* the parsed document (pkg/formql/ast), with the names that documents     *)
(* are made of.                                                            *)
(*                                                                         *)
(* A name is the sequence of its "_"-separated tokens: a word, or the      *)
(* numeral that uniqueAlias appends.  Two references whose names join to   *)
(* the same text therefore collide here exactly when they do in the code.  *)
(***************************************************************************)
EXTENDS Integers, Sequences, SequencesExt

CONSTANTS
  Words,                 \* the words that names are made of
  Tables,                \* the tables of the catalog
  BaseTable,             \* catalog.BaseTableName()
  ColumnsOf,             \* [Tables -> sets of column names]
  Relationship,          \* partial function: <<table, name>> -> relationship
  MaxRelationshipDepth,  \* Options.MaxRelationshipDepth, as the host sets it
  Documents,             \* the parsed documents that may be lowered
  ResultWord,            \* the word "result"
  NoAlias                \* an item without an AS clause

Name == Seq(Words \cup Nat)
Path == Seq(Name)

(***************************************************************************)
(* joinIndexed and targetIndexed are the *bool of a relationship: known    *)
(* to be indexed, known not to be, or nil.                                 *)
(***************************************************************************)
IndexInfo == {"indexed", "not_indexed", "unknown"}
RelationshipRecord ==
  [to : Tables, joinIndexed : IndexInfo, targetIndexed : IndexInfo]

(***************************************************************************)
(* A reference with an empty chain is an Identifier of the base table, one *)
(* with a chain is a RelationshipRef.  An item is the references of its    *)
(* expression in the order lowerExpr reaches them; `bare` says that the    *)
(* expression is nothing but its one reference, `wellTyped` that neither   *)
(* an operator nor a call in it is rejected by the type rules.             *)
(***************************************************************************)
Ref  == [chain : Path, field : Name]
Item == {item \in [alias : Name \cup {NoAlias}, bare : BOOLEAN,
                   refs : Seq(Ref), wellTyped : BOOLEAN] :
           item.bare => Len(item.refs) = 1}

(***************************************************************************)
(* defaultAlias: the tokens of a bare reference, "result" for any other    *)
(* expression.                                                             *)
(***************************************************************************)
DefaultAlias(item) ==
  IF item.bare
  THEN FlattenSeq(Append(item.refs[1].chain, item.refs[1].field))
  ELSE <<ResultWord>>

ASSUME BaseTableAssumption == BaseTable \in Tables
ASSUME ColumnsAssumption == DOMAIN ColumnsOf = Tables
ASSUME RelationshipAssumption ==
  \A key \in DOMAIN Relationship :
    /\ key[1] \in Tables
    /\ Relationship[key] \in RelationshipRecord
ASSUME DepthAssumption == MaxRelationshipDepth \in Int
ASSUME DocumentsAssumption ==
  \A d \in Documents : d \in Seq(Item) /\ Len(d) > 0
ASSUME AliasAssumption ==
  /\ ResultWord \in Words
  /\ NoAlias \notin Name
  /\ \A d \in Documents : \A i \in DOMAIN d : DefaultAlias(d[i]) \in Name

DefaultMaxRelationshipDepth == 30

NormalizedMaxRelationshipDepth ==
  IF MaxRelationshipDepth <= 0 THEN DefaultMaxRelationshipDepth
                               ELSE MaxRelationshipDepth
=============================================================================
