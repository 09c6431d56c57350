----------------------- MODULE DocumentLoweringProofs -----------------------
(***************************************************************************)
(* Proofs, for every catalog, depth limit and set of documents, that the   *)
(* lowerer keeps its types, lists every join once and after its parent,    *)
(* follows the catalog's relationships, gives the projections distinct     *)
(* names, renders a well-scoped query and warns where it should; and that  *)
(* lowerer and renderer together implement the plan a document promises.   *)
(***************************************************************************)
EXTENDS DocumentLowering, SequenceTheorems, FiniteSetTheorems, WellFoundedInduction, TLAPS

-----------------------------------------------------------------------------
(***************************************************************************)
(* Induction.  The provers cannot instantiate an induction rule with a     *)
(* predicate, so it is used here through sets: a set of numbers that is    *)
(* not empty has a least element.                                          *)
(***************************************************************************)
LEMMA LeastNumber ==
  ASSUME NEW T, T \subseteq Nat, T # {}
  PROVE  \E n \in T : \A m \in T : n <= m
<1> DEFINE R == OpToRel(<, Nat)
<1>1. IsWellFoundedOn(R, Nat)
  BY NatLessThanWellFounded
<1>2. ASSUME NEW x \in Nat, NEW y \in Nat, y < x
      PROVE  <<y, x>> \in R
  BY <1>2 DEF OpToRel
<1> HIDE DEF R
<1>3. PICK x \in T : \A y \in T : <<y, x>> \notin R
  BY <1>1, WFMin
<1>4. ASSUME NEW y \in T PROVE x <= y
  <2>1. x \in Nat /\ y \in Nat
    OBVIOUS
  <2>2. ~(y < x)
    BY <1>2, <1>3, <2>1, Zenon
  <2>3. QED
    BY <2>1, <2>2
<1>5. QED
  BY <1>4

(***************************************************************************)
(* A set that holds 0, and n + 1 with each n below a bound, holds every    *)
(* number up to the bound.                                                 *)
(***************************************************************************)
LEMMA CountUp ==
  ASSUME NEW bound \in Nat, NEW S, 0 \in S,
         \A n \in Nat : n < bound /\ n \in S => n + 1 \in S
  PROVE  0..bound \subseteq S
<1> DEFINE T == (0..bound) \ S
<1> SUFFICES ASSUME T # {} PROVE FALSE
  OBVIOUS
<1>0. T \subseteq Nat /\ T # {}
  OBVIOUS
<1>1. PICK n \in T : \A m \in T : n <= m
  <2> HIDE DEF T
  <2>1. QED
    BY <1>0, LeastNumber
<1>2. n - 1 \in Nat /\ n - 1 < bound /\ n - 1 \notin T
  BY <1>1
<1>3. QED
  BY <1>2

(***************************************************************************)
(* FlattenSeq, one sequence more: what FlattenSeq means is a function      *)
(* defined by recursion, which has to be shown to exist and to be the only *)
(* one.                                                                    *)
(***************************************************************************)
Flattens(f, ss, k) ==
  f = [i \in 1..k |-> IF i = 1 THEN ss[i] ELSE f[i - 1] \o ss[i]]

LEMMA FlattensAt ==
  ASSUME NEW ss, NEW n \in Nat, NEW f, Flattens(f, ss, n), NEW i \in 1..n
  PROVE  f[i] = IF i = 1 THEN ss[i] ELSE f[i - 1] \o ss[i]
  BY DEF Flattens

LEMMA FlattenExists ==
  ASSUME NEW ss, NEW n \in Nat
  PROVE  \E f : Flattens(f, ss, n)
<1> DEFINE S == {k \in Nat : \E f : Flattens(f, ss, k)}
<1>1. 0 \in S
  <2>1. Flattens([i \in 1..0 |-> << >>], ss, 0)
    BY DEF Flattens
  <2>2. QED
    BY <2>1
<1>2. ASSUME NEW k \in Nat, k \in S
      PROVE  k + 1 \in S
  <2>1. PICK f : Flattens(f, ss, k)
    BY <1>2
  <2> DEFINE g == [i \in 1..(k + 1) |->
                     IF i = k + 1 THEN IF i = 1 THEN ss[i] ELSE f[i - 1] \o ss[i] ELSE f[i]]
  <2>2. ASSUME NEW i \in 1..(k + 1)
        PROVE  g[i] = IF i = 1 THEN ss[i] ELSE g[i - 1] \o ss[i]
    <3>1. CASE i = k + 1
      <4>1. i # 1 => i - 1 \in 1..(k + 1) /\ i - 1 # k + 1
        BY <3>1
      <4>2. QED
        BY <3>1, <4>1
    <3>2. CASE i # k + 1
      <4>1. i \in 1..k /\ (i # 1 => i - 1 \in 1..k)
        BY <3>2
      <4>2. f[i] = IF i = 1 THEN ss[i] ELSE f[i - 1] \o ss[i]
        BY <2>1, <4>1 DEF Flattens
      <4>3. QED
        BY <3>2, <4>1, <4>2
    <3>3. QED
      BY <3>1, <3>2
  <2>3. Flattens(g, ss, k + 1)
    <3>1. g = [i \in 1..(k + 1) |-> g[i]]
      OBVIOUS
    <3> HIDE DEF g
    <3>2. QED
      BY <2>2, <3>1 DEF Flattens
  <2>4. QED
    BY <2>3
<1>3. n \in S
  <2> HIDE DEF S
  <2>1. 0..n \subseteq S
    BY <1>1, <1>2, CountUp
  <2>2. QED
    BY <2>1
<1>4. QED
  BY <1>3

LEMMA FlattenUnique ==
  ASSUME NEW ss, NEW n \in Nat, NEW f, NEW g, Flattens(f, ss, n), Flattens(g, ss, n)
  PROVE  f = g
<1> DEFINE T == {i \in 1..n : f[i] # g[i]}
<1>1. f = [i \in 1..n |-> f[i]] /\ g = [i \in 1..n |-> g[i]]
  BY DEF Flattens
<1>2. ASSUME T # {} PROVE FALSE
  <2>0. T \subseteq Nat
    OBVIOUS
  <2>1. PICK i \in T : \A j \in T : i <= j
    <3> HIDE DEF T
    <3>1. QED
      BY <1>2, <2>0, LeastNumber
  <2>2. i # 1 => i - 1 \in 1..n /\ i - 1 \notin T
    BY <2>1
  <2>3. f[i] = g[i]
    BY <2>2 DEF Flattens
  <2>4. QED
    BY <2>3
<1>3. QED
  BY <1>1, <1>2

LEMMA FlattenMeans ==
  ASSUME NEW ss, Len(ss) \in Nat, Len(ss) # 0
  PROVE  \E f : Flattens(f, ss, Len(ss)) /\ FlattenSeq(ss) = f[Len(ss)]
<1>1. FlattenSeq(ss) = (CHOOSE f : Flattens(f, ss, Len(ss)))[Len(ss)]
  BY DEF FlattenSeq, Flattens
<1>2. Flattens(CHOOSE f : Flattens(f, ss, Len(ss)), ss, Len(ss))
  BY FlattenExists
<1>3. QED
  BY <1>1, <1>2

LEMMA FlattenType ==
  ASSUME NEW S, NEW ss \in Seq(Seq(S))
  PROVE  FlattenSeq(ss) \in Seq(S)
<1> DEFINE n == Len(ss)
<1>0. n \in Nat /\ \A i \in 1..n : ss[i] \in Seq(S)
  OBVIOUS
<1>1. CASE n = 0
  <2>1. FlattenSeq(ss) = << >>
    BY <1>1 DEF FlattenSeq
  <2>2. QED
    BY <2>1
<1>2. CASE n # 0
  <2>1. PICK f : Flattens(f, ss, n) /\ FlattenSeq(ss) = f[n]
    BY <1>0, <1>2, FlattenMeans
  <2> DEFINE T == {k \in Nat : k < n => f[k + 1] \in Seq(S)}
  <2> HIDE DEF n
  <2>2. f[1] = ss[1] /\ \A i \in 1..n : i # 1 => f[i] = f[i - 1] \o ss[i]
    <3>1. n \in Nat /\ 1 \in 1..n
      BY <1>0, <1>2
    <3>2. \A i \in 1..n : f[i] = IF i = 1 THEN ss[i] ELSE f[i - 1] \o ss[i]
      BY <2>1, <3>1, FlattensAt
    <3>3. QED
      BY <3>1, <3>2
  <2>3. 0 \in T
    BY <1>0, <1>2, <2>2
  <2>4. ASSUME NEW k \in Nat, k < n - 1, k \in T
        PROVE  k + 1 \in T
    <3>1. f[k + 1] \in Seq(S) /\ k + 2 \in 1..n /\ k + 2 # 1 /\ (k + 2) - 1 = k + 1
      BY <1>0, <2>4
    <3>2. f[k + 2] = f[k + 1] \o ss[k + 2]
      BY <2>2, <3>1
    <3>3. f[k + 2] \in Seq(S)
      BY <1>0, <3>1, <3>2, ConcatProperties
    <3>4. QED
      BY <3>3
  <2>5. n - 1 \in Nat
    BY <1>0, <1>2
  <2>6. n - 1 \in T
    <3> HIDE DEF T
    <3>1. QED
      BY <2>3, <2>4, <2>5, CountUp
  <2>7. QED
    BY <1>0, <2>1, <2>5, <2>6
<1>3. QED
  BY <1>1, <1>2

LEMMA FlattenAppend ==
  ASSUME NEW S, NEW ss \in Seq(Seq(S)), NEW s \in Seq(S)
  PROVE  FlattenSeq(Append(ss, s)) = FlattenSeq(ss) \o s
<1> DEFINE n == Len(ss)
           tt == Append(ss, s)
<1>1. /\ n \in Nat /\ Len(tt) = n + 1 /\ tt[n + 1] = s
      /\ \A i \in 1..n : tt[i] = ss[i]
  OBVIOUS
<1>2. PICK g : Flattens(g, tt, n + 1) /\ FlattenSeq(tt) = g[n + 1]
  <2> HIDE DEF tt
  <2>1. QED
    BY <1>1, FlattenMeans
<1>3. CASE n = 0
  <2>1. FlattenSeq(tt) = s
    BY <1>1, <1>2, <1>3 DEF Flattens
  <2>2. FlattenSeq(ss) = << >>
    BY <1>3 DEF FlattenSeq
  <2>3. QED
    BY <2>1, <2>2
<1>4. CASE n # 0
  <2>1. PICK f : Flattens(f, ss, n) /\ FlattenSeq(ss) = f[n]
    BY <1>1, <1>4, FlattenMeans
  <2> HIDE DEF n, tt
  <2> DEFINE h == [i \in 1..n |-> g[i]]
  <2>2. \A i \in 1..n : h[i] = IF i = 1 THEN ss[i] ELSE h[i - 1] \o ss[i]
    <3> SUFFICES ASSUME NEW i \in 1..n
                 PROVE  h[i] = IF i = 1 THEN ss[i] ELSE h[i - 1] \o ss[i]
      OBVIOUS
    <3>1. n + 1 \in Nat /\ i \in 1..(n + 1) /\ (i # 1 => i - 1 \in 1..n)
      BY <1>1
    <3>2. g[i] = IF i = 1 THEN tt[i] ELSE g[i - 1] \o tt[i]
      BY <1>2, <3>1, FlattensAt
    <3>3. QED
      BY <1>1, <3>1, <3>2
  <2>3. Flattens(h, ss, n)
    <3>1. h = [i \in 1..n |-> h[i]]
      OBVIOUS
    <3> HIDE DEF h
    <3>2. QED
      BY <2>2, <3>1 DEF Flattens
  <2>4. f = h
    BY <1>1, <2>1, <2>3, FlattenUnique
  <2>5. g[n] = f[n]
    BY <1>1, <1>4, <2>4
  <2>6. g[n + 1] = g[n] \o s
    <3>0. n \in Nat /\ n # 0
      BY <1>1, <1>4
    <3>1. n + 1 \in Nat /\ n + 1 \in 1..(n + 1) /\ n + 1 # 1 /\ (n + 1) - 1 = n
      BY <3>0
    <3>2. g[n + 1] = IF n + 1 = 1 THEN tt[n + 1] ELSE g[(n + 1) - 1] \o tt[n + 1]
      BY <1>2, <3>1, FlattensAt
    <3>3. QED
      BY <1>1, <3>1, <3>2
  <2>7. QED
    BY <1>2, <2>1, <2>5, <2>6 DEF tt
<1>5. QED
  BY <1>3, <1>4

-----------------------------------------------------------------------------

(***************************************************************************)
(* The position of the lowerer is inside the document: there is a          *)
(* reference being walked while there is a path, and never more references *)
(* resolved than the item has.                                             *)
(***************************************************************************)
Position ==
  /\ pc = "expr" => Len(refs) <= Len(CurrentItem.refs)
  /\ pc = "path" => /\ Len(refs) < Len(CurrentItem.refs)
                    /\ hop <= Len(CurrentRef.chain)

(***************************************************************************)
(* The part of the chain already walked is joined, and `table` is where it *)
(* ends.                                                                   *)
(***************************************************************************)
WalkedPathJoined ==
  pc = "path" =>
    LET walked == SubSeq(CurrentRef.chain, 1, hop)
    IN  /\ walked = << >> \/ walked \in DOMAIN joins
        /\ table = EndTable(walked)

(***************************************************************************)
(* Every reference resolved so far reads t0 or a joined path.              *)
(***************************************************************************)
Readable(path) == path = << >> \/ path \in DOMAIN joins

ReferencesReadable ==
  /\ \A i \in DOMAIN refs : Readable(refs[i].path)
  /\ \A f \in DOMAIN fields : \A i \in DOMAIN fields[f].refs : Readable(fields[f].refs[i].path)

(***************************************************************************)
(* A rendered query is that of the joins and fields the lowerer ended with.*)
(***************************************************************************)
QueryRendersPlan ==
  pc = "rendered" =>
    /\ query.joins = RenderJoinClauses
    /\ query.select = [i \in DOMAIN fields |->
                         [alias |-> fields[i].alias, expr |-> RenderExpr(fields[i].refs)]]

(***************************************************************************)
(* One field per finished item; a formula is a document of one item.       *)
(***************************************************************************)
FieldPerItem ==
  /\ pc \in {"expr", "path"} => Len(fields) = field - 1
  /\ formula => Len(document) = 1

AliasInv == AliasesDistinct /\ FieldPerItem

TypeInv == TypeOK /\ Position

JoinInv ==
  /\ OrderListsJoins
  /\ ParentJoinedFirst
  /\ JoinsFollowCatalog
  /\ WalkedPathJoined
  /\ ReferencesReadable

-----------------------------------------------------------------------------
(***************************************************************************)
(* What is being worked on has its type.                                   *)
(***************************************************************************)
LEMMA CurrentItemType ==
  ASSUME TypeOK, pc \in {"expr", "path"}
  PROVE  /\ CurrentItem \in Item
         /\ CurrentItem.refs \in Seq(Ref)
         /\ CurrentItem.alias \in Name \cup {NoAlias}
         /\ DefaultAlias(CurrentItem) \in Name
<1>1. document \in Seq(Item) /\ field \in 1..Len(document)
  BY DocumentsAssumption DEF TypeOK
<1>2. CurrentItem \in Item
  BY <1>1 DEF CurrentItem
<1>3. DefaultAlias(CurrentItem) \in Name
  BY <1>1, AliasAssumption DEF TypeOK, CurrentItem
<1>4. QED
  BY <1>2, <1>3 DEF Item

LEMMA CurrentRefType ==
  ASSUME TypeOK, pc \in {"expr", "path"}, Len(refs) < Len(CurrentItem.refs)
  PROVE  CurrentRef \in Ref
<1>1. CurrentItem.refs \in Seq(Ref)
  BY CurrentItemType
<1>2. Len(refs) + 1 \in 1..Len(CurrentItem.refs)
  BY <1>1 DEF TypeOK
<1>3. QED
  BY <1>1, <1>2 DEF CurrentRef

LEMMA InitTypeInv == Init => TypeInv
<1> SUFFICES ASSUME Init PROVE TypeInv
  OBVIOUS
<1>1. field \in 1..(Len(document) + 1) /\ field <= Len(document)
  BY DocumentsAssumption DEF Init
<1>2. DOMAIN joins = {}
  BY DEF Init
<1>3. error \in ErrorCode
  BY DEF Init, ErrorCode
<1>4. /\ refs \in Seq(FieldRef) /\ order \in Seq(Path) /\ warnings \in Seq(Warning)
      /\ fields \in Seq([alias : Name, refs : Seq(FieldRef)])
  BY DEF Init
<1>5. TypeOK
  BY <1>1, <1>2, <1>3, <1>4, BaseTableAssumption DEF Init, TypeOK
<1>6. CurrentItem.refs \in Seq(Ref)
  BY <1>5, CurrentItemType DEF Init
<1>7. Position
  BY <1>6 DEF Init, Position
<1>8. QED
  BY <1>5, <1>7 DEF TypeInv

(***************************************************************************)
(* A failing step changes nothing but pc and error.                        *)
(***************************************************************************)
LEMMA FailTypeInv ==
  ASSUME TypeInv, NEW code \in ErrorCode, Fail(code),
         UNCHANGED <<document, formula, field, refs, table, lowererVars, suffix, fields>>,
         hop' \in Nat
  PROVE  TypeInv'
  BY DEF TypeInv, TypeOK, Position, Fail, lowererVars

LEMMA AddFieldTypeInv ==
  ASSUME TypeInv, pc = "expr", NEW alias \in Name, AddField(alias),
         UNCHANGED <<document, formula, hop, table, lowererVars, query>>
  PROVE  TypeInv'
<1> USE DEF TypeInv
<1>1. document \in Seq(Item) /\ field \in 1..Len(document)
  BY DocumentsAssumption DEF TypeOK
<1>2. fields' \in Seq([alias : Name, refs : Seq(FieldRef)])
  BY DEF TypeOK, AddField
<1>3. TypeOK'
  BY <1>1, <1>2 DEF TypeOK, AddField, lowererVars
<1>4. pc' = "expr" => CurrentItem'.refs \in Seq(Ref)
  <2> SUFFICES ASSUME pc' = "expr" PROVE CurrentItem'.refs \in Seq(Ref)
    OBVIOUS
  <2>1. field' \in 1..Len(document) /\ document' = document
    BY <1>1, <1>3 DEF TypeOK
  <2>2. QED
    BY <1>1, <2>1 DEF CurrentItem, Item
<1>5. Position'
  BY <1>4 DEF Position, AddField
<1>6. QED
  BY <1>3, <1>5

LEMMA AddJoinType ==
  ASSUME TypeOK, NEW path \in Path, NEW from \in Tables,
         NEW relationship \in RelationshipRecord, AddJoin(path, from, relationship)
  PROVE  /\ DOMAIN joins' \subseteq Path
         /\ \A p \in DOMAIN joins' : joins'[p] \in Join
         /\ order' \in Seq(Path)
         /\ warnings' \in Seq(Warning)
<1>1. JoinWarnings(path, relationship) \in Seq(Warning)
  <2> DEFINE source == IF relationship.joinIndexed = "not_indexed"
                       THEN <<[path |-> path, column |-> "join"]>> ELSE << >>
             target == IF relationship.targetIndexed = "not_indexed"
                       THEN <<[path |-> path, column |-> "target"]>> ELSE << >>
  <2>1. source \in Seq(Warning) /\ target \in Seq(Warning)
    <3>1. /\ [path |-> path, column |-> "join"] \in Warning
          /\ [path |-> path, column |-> "target"] \in Warning
      BY DEF Warning
    <3>2. QED
      BY <3>1
  <2>2. source \o target \in Seq(Warning)
    BY <2>1, ConcatProperties
  <2>3. QED
    BY <2>2 DEF JoinWarnings
<1>2. CASE path \in DOMAIN joins
  BY <1>2 DEF AddJoin, lowererVars, TypeOK
<1>3. CASE path \notin DOMAIN joins
  <2>1. relationship.to \in Tables
    BY DEF RelationshipRecord
  <2>2. \A p \in DOMAIN joins' : joins'[p] \in Join
    BY <1>3, <2>1 DEF AddJoin, TypeOK, Join
  <2>3. DOMAIN joins' \subseteq Path
    BY <1>3 DEF AddJoin, TypeOK
  <2>4. order' \in Seq(Path)
    <3>1. order \in Seq(Path) /\ order' = Append(order, path)
      BY <1>3 DEF AddJoin, TypeOK
    <3>2. QED
      BY <3>1, AppendProperties
  <2>5. warnings' \in Seq(Warning)
    <3>1. warnings \in Seq(Warning) /\ warnings' = warnings \o JoinWarnings(path, relationship)
      BY <1>3 DEF AddJoin, TypeOK
    <3>2. QED
      BY <1>1, <3>1, ConcatProperties
  <2>6. QED
    BY <2>2, <2>3, <2>4, <2>5
<1>4. QED
  BY <1>2, <1>3

(***************************************************************************)
(* A hop follows a relationship the catalog declares, along a proper       *)
(* prefix of the current chain.                                            *)
(***************************************************************************)
LEMMA HopType ==
  ASSUME TypeInv, JoinHop
  PROVE  /\ CurrentRef.chain \in Seq(Name)
         /\ hop + 1 \in 1..Len(CurrentRef.chain)
         /\ SubSeq(CurrentRef.chain, 1, hop + 1) \in Path
         /\ Relationship[HopKey] \in RelationshipRecord
         /\ Relationship[HopKey].to \in Tables
<1>1. CurrentRef \in Ref
  BY CurrentRefType DEF TypeInv, Position, JoinHop
<1>2. CurrentRef.chain \in Seq(Name)
  BY <1>1 DEF Ref, Path
<1>3. hop + 1 \in 1..Len(CurrentRef.chain)
  BY <1>2 DEF TypeInv, TypeOK, JoinHop
<1>4. SubSeq(CurrentRef.chain, 1, hop + 1) \in Path
  BY <1>2, <1>3, SubSeqProperties DEF Path
<1>5. Relationship[HopKey] \in RelationshipRecord
  BY RelationshipAssumption DEF JoinHop
<1>6. QED
  BY <1>2, <1>3, <1>4, <1>5 DEF RelationshipRecord

LEMMA TypeInvStep == TypeInv /\ [Next]_vars => TypeInv'
<1> SUFFICES ASSUME TypeInv, [Next]_vars PROVE TypeInv'
  OBVIOUS
<1> USE DEF TypeInv
<1>1. CASE BeginReference
  <2>1. CurrentItem.refs \in Seq(Ref)
    BY <1>1, CurrentItemType DEF BeginReference
  <2>2. Len(refs) < Len(CurrentItem.refs)
    BY <1>1, <2>1 DEF BeginReference, Position, AllRefsLowered, TypeOK
  <2>3. CurrentRef.chain \in Seq(Name)
    BY <1>1, <2>2, CurrentRefType DEF BeginReference, Ref, Path
  <2>4. TypeOK'
    BY <1>1, BaseTableAssumption DEF BeginReference, TypeOK, Fail, lowererVars, ErrorCode
  <2>5. CurrentItem' = CurrentItem /\ CurrentRef' = CurrentRef
    BY <1>1 DEF BeginReference, CurrentItem, CurrentRef
  <2>6. Position'
    BY <1>1, <2>2, <2>3, <2>5 DEF BeginReference, Position, Fail
  <2>7. QED
    BY <2>4, <2>6
<1>2. CASE JoinHop
  <2>1. TypeOK'
    BY <1>2, HopType, AddJoinType DEF JoinHop, TypeOK
  <2>2. CurrentItem' = CurrentItem /\ CurrentRef' = CurrentRef
    BY <1>2 DEF JoinHop, CurrentItem, CurrentRef
  <2>3. Position'
    BY <1>2, <2>2, HopType DEF JoinHop, Position
  <2>4. QED
    BY <2>1, <2>3
<1>3. CASE UnknownRelationship
  BY <1>3, FailTypeInv DEF UnknownRelationship, ErrorCode, TypeOK
<1>4. CASE ResolveField
  <2>1. CurrentRef \in Ref
    BY <1>4, CurrentRefType DEF ResolveField, Position
  <2>2. [path |-> CurrentRef.chain, table |-> table, column |-> CurrentRef.field] \in FieldRef
    BY <2>1 DEF Ref, FieldRef, TypeOK
  <2>3. refs' \in Seq(FieldRef) /\ Len(refs') = Len(refs) + 1
    BY <1>4, <2>2 DEF ResolveField, TypeOK
  <2>4. TypeOK'
    BY <1>4, <2>3 DEF ResolveField, TypeOK, lowererVars
  <2>5. CurrentItem' = CurrentItem
    BY <1>4 DEF ResolveField, CurrentItem
  <2>6. CurrentItem.refs \in Seq(Ref)
    BY <1>4, CurrentItemType DEF ResolveField
  <2>7. Position'
    BY <1>4, <2>3, <2>5, <2>6 DEF ResolveField, Position, TypeOK
  <2>8. QED
    BY <2>4, <2>7
<1>5. CASE UnknownField
  BY <1>5, FailTypeInv DEF UnknownField, ErrorCode, TypeOK
<1>6. CASE TypeError
  BY <1>6, FailTypeInv DEF TypeError, ErrorCode, TypeOK
<1>7. CASE SelectExplicitAlias
  <2>1. CurrentItem.alias \in Name
    BY <1>7, CurrentItemType DEF SelectExplicitAlias, AliasChoice
  <2>2. QED
    BY <1>7, <2>1, AddFieldTypeInv DEF SelectExplicitAlias, AliasChoice
<1>8. CASE DuplicateOutputAlias
  BY <1>8, FailTypeInv DEF DuplicateOutputAlias, AliasChoice, ErrorCode, TypeOK
<1>9. CASE SelectDefaultAlias
  BY <1>9, CurrentItemType, AddFieldTypeInv DEF SelectDefaultAlias, AliasChoice
<1>10. CASE DefaultAliasTaken
  BY <1>10 DEF DefaultAliasTaken, AliasChoice, TypeOK, Position, CurrentItem, lowererVars
<1>11. CASE SelectSuffixedAlias
  <2>1. Candidate \in Name
    BY <1>11, CurrentItemType DEF SelectSuffixedAlias, AliasChoice, Candidate, Name, TypeOK
  <2>2. QED
    BY <1>11, <2>1, AddFieldTypeInv DEF SelectSuffixedAlias, AliasChoice
<1>12. CASE NextSuffix
  BY <1>12 DEF NextSuffix, AliasChoice, TypeOK, Position, CurrentItem, lowererVars
<1>13. CASE FinishFormula
  <2>1. <<ResultWord>> \in Name
    BY AliasAssumption DEF Name
  <2>2. QED
    BY <1>13, <2>1, AddFieldTypeInv DEF FinishFormula
<1>14. CASE Render
  BY <1>14 DEF Render, TypeOK, Position, lowererVars
<1>15. CASE UNCHANGED vars
  BY <1>15 DEF vars, lowererVars, TypeOK, Position, CurrentItem, CurrentRef
<1>16. QED
  BY <1>1, <1>2, <1>3, <1>4, <1>5, <1>6, <1>7, <1>8, <1>9, <1>10, <1>11, <1>12,
     <1>13, <1>14, <1>15 DEF Next

(***************************************************************************)
(* Every variable of the lowerer always has its type.                      *)
(***************************************************************************)
THEOREM TypeCorrect == Spec => []TypeOK
<1>1. TypeInv => TypeOK
  BY DEF TypeInv
<1>2. QED
  BY InitTypeInv, TypeInvStep, <1>1, PTL DEF Spec

-----------------------------------------------------------------------------
(***************************************************************************)
(* The joins.                                                              *)
(***************************************************************************)
LEMMA PrefixProperties ==
  ASSUME NEW S, NEW chain \in Seq(S), NEW h \in Nat, h + 1 \in 1..Len(chain)
  PROVE  LET path == SubSeq(chain, 1, h + 1)
         IN  /\ path \in Seq(S)
             /\ Len(path) = h + 1
             /\ path # << >>
             /\ path[Len(path)] = chain[h + 1]
             /\ SubSeq(path, 1, Len(path) - 1) = SubSeq(chain, 1, h)
<1> DEFINE path == SubSeq(chain, 1, h + 1)
<1>1. path \in Seq(S) /\ Len(path) = h + 1 /\ path # << >>
  BY SubSeqProperties
<1>2. path[Len(path)] = chain[h + 1]
  BY <1>1, SubSeqProperties
<1>3. SubSeq(path, 1, h) \in Seq(S) /\ SubSeq(chain, 1, h) \in Seq(S)
  BY <1>1, SubSeqProperties
<1>4. SubSeq(path, 1, h) = SubSeq(chain, 1, h)
  BY <1>1, <1>3, SubSeqProperties, SeqEqual
<1>5. QED
  BY <1>1, <1>2, <1>4

LEMMA LongPath ==
  ASSUME NEW S, NEW p \in Seq(S), p # << >>, Len(p) # 1
  PROVE  SubSeq(p, 1, Len(p) - 1) # << >>
<1> DEFINE n == Len(p)
<1>1. n \in Nat /\ n # 0 /\ n # 1
  BY EmptySeq, LenProperties
<1> HIDE DEF n
<1>2. 1 \in 1..n /\ n - 1 \in 1..n /\ n - 1 # 0
  BY <1>1
<1>3. Len(SubSeq(p, 1, n - 1)) = n - 1
  BY <1>2, SubSeqProperties DEF n
<1>4. Len(<< >>) = 0
  OBVIOUS
<1>5. SubSeq(p, 1, n - 1) # << >>
  BY <1>2, <1>3, <1>4
<1>6. QED
  BY <1>5 DEF n

(***************************************************************************)
(* A joined path has its parent joined, or starts at the base table.       *)
(***************************************************************************)
LEMMA ParentReadable ==
  ASSUME TypeOK, OrderListsJoins, ParentJoinedFirst, NEW p \in DOMAIN joins
  PROVE  Readable(Parent(p))
<1>1. PICK j \in DOMAIN order : order[j] = p
  BY DEF OrderListsJoins
<1>2. CASE Len(p) = 1
  <2>1. p \in Path
    BY DEF TypeOK
  <2>2. Parent(p) = << >>
    BY <1>2, <2>1, SubSeqProperties DEF Parent, Path
  <2>3. QED
    BY <2>2 DEF Readable
<1>3. CASE Len(p) # 1
  <2>1. PICK i \in 1..(j - 1) : order[i] = Parent(p)
    BY <1>1, <1>3 DEF ParentJoinedFirst, Parent
  <2>2. i \in DOMAIN order
    BY <2>1 DEF TypeOK
  <2>3. QED
    BY <2>1, <2>2 DEF OrderListsJoins, Readable
<1>4. QED
  BY <1>2, <1>3

(***************************************************************************)
(* addJoin, given a path that extends a readable one by a relationship of  *)
(* the table that one ends on, keeps the table of joins well formed.       *)
(***************************************************************************)
LEMMA AddJoinInv ==
  ASSUME TypeOK, OrderListsJoins, ParentJoinedFirst, JoinsFollowCatalog,
         NEW path \in Path, path # << >>, Readable(Parent(path)),
         NEW from \in Tables, from = EndTable(Parent(path)),
         <<from, path[Len(path)]>> \in DOMAIN Relationship,
         AddJoin(path, from, Relationship[<<from, path[Len(path)]>>])
  PROVE  /\ OrderListsJoins' /\ ParentJoinedFirst' /\ JoinsFollowCatalog'
         /\ \A p \in DOMAIN joins : p \in DOMAIN joins' /\ joins'[p] = joins[p]
         /\ path \in DOMAIN joins'
         /\ joins'[path].to = Relationship[<<from, path[Len(path)]>>].to
<1>1. CASE path \in DOMAIN joins
  <2>1. joins' = joins /\ order' = order
    BY <1>1 DEF AddJoin, lowererVars
  <2>2. joins[path].to = Relationship[<<from, path[Len(path)]>>].to
    BY <1>1 DEF JoinsFollowCatalog
  <2>3. OrderListsJoins' /\ ParentJoinedFirst'
    BY <2>1 DEF OrderListsJoins, ParentJoinedFirst
  <2>4. JoinsFollowCatalog'
    BY <2>1 DEF JoinsFollowCatalog, EndTable
  <2>5. QED
    BY <1>1, <2>1, <2>2, <2>3, <2>4
<1>2. CASE path \notin DOMAIN joins
  <2> DEFINE rel == Relationship[<<from, path[Len(path)]>>]
  <2>1. /\ DOMAIN joins' = DOMAIN joins \cup {path}
        /\ \A p \in DOMAIN joins : joins'[p] = joins[p]
        /\ joins'[path] = [from |-> from, to |-> rel.to]
    BY <1>2 DEF AddJoin
  <2>2. order \in Seq(Path) /\ order' = Append(order, path)
    BY <1>2 DEF AddJoin, TypeOK
  <2>3. /\ DOMAIN order = 1..Len(order)
        /\ DOMAIN order' = 1..(Len(order) + 1)
        /\ \A i \in 1..Len(order) : order'[i] = order[i]
        /\ order'[Len(order) + 1] = path
        /\ Len(order) \in Nat
    BY <2>2, AppendProperties
  <2>4. \A i \in 1..Len(order) : order[i] # path
    BY <1>2, <2>3 DEF OrderListsJoins
  <2>5. OrderListsJoins'
    <3>1. \A i, j \in DOMAIN order' : order'[i] = order'[j] => i = j
      BY <2>3, <2>4 DEF OrderListsJoins
    <3>2. DOMAIN joins' = {order'[i] : i \in DOMAIN order'}
      BY <2>1, <2>3 DEF OrderListsJoins
    <3>3. QED
      BY <3>1, <3>2 DEF OrderListsJoins
  <2>6. ParentJoinedFirst'
    <3> SUFFICES ASSUME NEW j \in DOMAIN order', Len(order'[j]) # 1
                 PROVE  \E i \in 1..(j - 1) : order'[i] = Parent(order'[j])
      BY DEF ParentJoinedFirst, Parent
    <3>1. CASE j \in 1..Len(order)
      <4>1. PICK i \in 1..(j - 1) : order[i] = Parent(order[j])
        BY <2>3, <3>1 DEF ParentJoinedFirst, Parent
      <4>2. i \in 1..Len(order)
        BY <2>3, <3>1
      <4>3. QED
        BY <2>3, <3>1, <4>1, <4>2
    <3>2. CASE j = Len(order) + 1
      <4>1. order'[j] = path
        BY <2>3, <3>2
      <4>2. path \in Seq(Name) /\ Len(path) # 1
        BY <4>1 DEF Path
      <4>3. Parent(path) # << >>
        BY <4>2, LongPath DEF Parent
      <4>4. PICK i \in DOMAIN order : order[i] = Parent(path)
        BY <4>3 DEF Readable, OrderListsJoins
      <4>5. QED
        BY <2>3, <3>2, <4>1, <4>4
    <3>3. QED
      BY <2>3, <3>1, <3>2
  <2>7. \A p \in DOMAIN joins' : EndTable(Parent(p))' = EndTable(Parent(p))
    <3>1. \A p \in DOMAIN joins' : Readable(Parent(p))
      BY <2>1, ParentReadable
    <3>2. QED
      BY <2>1, <3>1 DEF EndTable, Readable, Parent
  <2>8. JoinsFollowCatalog'
    <3> SUFFICES ASSUME NEW p \in DOMAIN joins'
                 PROVE  /\ p # << >>
                        /\ joins'[p].from = EndTable(Parent(p))'
                        /\ <<joins'[p].from, p[Len(p)]>> \in DOMAIN Relationship
                        /\ joins'[p].to = Relationship[<<joins'[p].from, p[Len(p)]>>].to
      BY DEF JoinsFollowCatalog
    <3>1. CASE p = path
      BY <2>1, <2>7, <3>1
    <3>2. CASE p # path
      <4>1. p \in DOMAIN joins /\ joins'[p] = joins[p]
        BY <2>1, <3>2
      <4>2. QED
        BY <2>7, <4>1 DEF JoinsFollowCatalog
    <3>3. QED
      BY <3>1, <3>2
  <2>9. QED
    BY <2>1, <2>5, <2>6, <2>8
<1>3. QED
  BY <1>1, <1>2

LEMMA InitJoinInv == Init => JoinInv
<1> SUFFICES ASSUME Init PROVE JoinInv
  OBVIOUS
<1>1. /\ DOMAIN joins = {} /\ DOMAIN order = {}
      /\ DOMAIN refs = {} /\ DOMAIN fields = {} /\ pc = "expr"
  BY DEF Init
<1>2. QED
  BY <1>1 DEF JoinInv, OrderListsJoins, ParentJoinedFirst, JoinsFollowCatalog,
              WalkedPathJoined, ReferencesReadable

(***************************************************************************)
(* The steps that leave the joins alone and do not walk a path.            *)
(***************************************************************************)
LEMMA JoinsUnchanged ==
  ASSUME JoinInv, UNCHANGED <<joins, order>>, pc' # "path",
         \A i \in DOMAIN refs' : Readable(refs'[i].path),
         \A f \in DOMAIN fields' : \A i \in DOMAIN fields'[f].refs :
           Readable(fields'[f].refs[i].path)
  PROVE  JoinInv'
<1>1. OrderListsJoins' /\ ParentJoinedFirst'
  BY DEF JoinInv, OrderListsJoins, ParentJoinedFirst
<1>2. JoinsFollowCatalog'
  BY DEF JoinInv, JoinsFollowCatalog, EndTable
<1>3. WalkedPathJoined'
  BY DEF WalkedPathJoined
<1>4. ReferencesReadable'
  BY DEF ReferencesReadable, Readable
<1>5. QED
  BY <1>1, <1>2, <1>3, <1>4 DEF JoinInv

LEMMA AddFieldJoinInv ==
  ASSUME TypeInv, JoinInv, pc = "expr", NEW alias \in Name, AddField(alias),
         UNCHANGED lowererVars
  PROVE  JoinInv'
<1>1. DOMAIN refs' = {} /\ pc' # "path"
  BY DEF AddField
<1>2. fields \in Seq([alias : Name, refs : Seq(FieldRef)]) /\ refs \in Seq(FieldRef)
  BY DEF TypeInv, TypeOK
<1>3. [alias |-> alias, refs |-> refs] \in [alias : Name, refs : Seq(FieldRef)]
  BY <1>2
<1>4. fields' = Append(fields, [alias |-> alias, refs |-> refs])
  BY DEF AddField
<1>5. \A f \in DOMAIN fields' : fields'[f].refs = refs \/ (f \in DOMAIN fields /\ fields'[f] = fields[f])
  BY <1>2, <1>3, <1>4, AppendProperties
<1>6. \A f \in DOMAIN fields' : \A i \in DOMAIN fields'[f].refs : Readable(fields'[f].refs[i].path)
  BY <1>5 DEF JoinInv, ReferencesReadable
<1>7. QED
  BY <1>1, <1>6, JoinsUnchanged DEF lowererVars

LEMMA JoinHopJoinInv ==
  ASSUME TypeInv, JoinInv, JoinHop
  PROVE  JoinInv'
<1> DEFINE chain == CurrentRef.chain
           path == SubSeq(chain, 1, hop + 1)
<1>1. /\ chain \in Seq(Name) /\ hop \in Nat /\ hop + 1 \in 1..Len(chain) /\ path \in Path
      /\ table \in Tables
  BY HopType DEF TypeInv, TypeOK
<1>2. /\ path # << >> /\ path[Len(path)] = chain[hop + 1] /\ Len(path) = hop + 1
      /\ Parent(path) = SubSeq(chain, 1, hop)
  BY <1>1, PrefixProperties DEF Parent
<1>3. Readable(Parent(path)) /\ table = EndTable(Parent(path))
  BY <1>2 DEF JoinInv, WalkedPathJoined, JoinHop, Readable
<1>4. HopKey = <<table, path[Len(path)]>>
  BY <1>2 DEF HopKey
<1>5. /\ HopKey \in DOMAIN Relationship
      /\ AddJoin(path, table, Relationship[HopKey])
      /\ table' = Relationship[HopKey].to
  BY DEF JoinHop
<1>6. /\ OrderListsJoins' /\ ParentJoinedFirst' /\ JoinsFollowCatalog'
      /\ \A p \in DOMAIN joins : p \in DOMAIN joins' /\ joins'[p] = joins[p]
      /\ path \in DOMAIN joins'
      /\ joins'[path].to = Relationship[HopKey].to
  <2> HIDE DEF path
  <2>1. QED
    BY <1>1, <1>2, <1>3, <1>4, <1>5, AddJoinInv DEF JoinInv, TypeInv
<1>7. WalkedPathJoined'
  <2>1. CurrentRef' = CurrentRef /\ hop' = hop + 1
    BY DEF JoinHop, CurrentRef, CurrentItem
  <2>2. SubSeq(CurrentRef.chain, 1, hop)' = path
    BY <2>1
  <2>3. table' = joins'[path].to
    BY <1>5, <1>6
  <2>4. QED
    BY <1>2, <1>6, <2>2, <2>3 DEF WalkedPathJoined, EndTable
<1>8. ReferencesReadable'
  <2>1. refs' = refs /\ fields' = fields
    BY DEF JoinHop
  <2>2. QED
    BY <1>6, <2>1 DEF JoinInv, ReferencesReadable, Readable
<1>9. QED
  BY <1>6, <1>7, <1>8 DEF JoinInv

LEMMA JoinInvStep == TypeInv /\ JoinInv /\ [Next]_vars => JoinInv'
<1> SUFFICES ASSUME TypeInv, JoinInv, [Next]_vars PROVE JoinInv'
  OBVIOUS
<1>0. /\ \A i \in DOMAIN refs : Readable(refs[i].path)
      /\ \A f \in DOMAIN fields : \A i \in DOMAIN fields[f].refs :
           Readable(fields[f].refs[i].path)
  BY DEF JoinInv, ReferencesReadable
<1>1. CASE BeginReference
  <2>1. CurrentRef' = CurrentRef /\ joins' = joins /\ order' = order
        /\ refs' = refs /\ fields' = fields /\ hop' = 0 /\ table' = BaseTable
    BY <1>1 DEF BeginReference, CurrentItem, CurrentRef, lowererVars
  <2>2. CASE pc' = "failed"
    BY <1>0, <2>1, <2>2, JoinsUnchanged
  <2>3. CASE pc' = "path"
    <3>1. CurrentRef.chain \in Seq(Name)
      <4>1. CurrentItem.refs \in Seq(Ref)
        BY <1>1, CurrentItemType DEF BeginReference, TypeInv
      <4>2. Len(refs) < Len(CurrentItem.refs)
        BY <1>1, <4>1 DEF BeginReference, TypeInv, Position, AllRefsLowered, TypeOK
      <4>3. QED
        BY <1>1, <4>2, CurrentRefType DEF BeginReference, TypeInv, Ref, Path
    <3>2. SubSeq(CurrentRef.chain, 1, 0) = << >>
      BY <3>1, SubSeqEmpty
    <3>3. WalkedPathJoined'
      BY <2>1, <3>2 DEF WalkedPathJoined, EndTable
    <3>4. OrderListsJoins' /\ ParentJoinedFirst'
      BY <2>1 DEF JoinInv, OrderListsJoins, ParentJoinedFirst
    <3>5. JoinsFollowCatalog'
      BY <2>1 DEF JoinInv, JoinsFollowCatalog, EndTable
    <3>6. ReferencesReadable'
      BY <1>0, <2>1 DEF ReferencesReadable, Readable
    <3>7. QED
      BY <3>3, <3>4, <3>5, <3>6 DEF JoinInv
  <2>4. QED
    BY <1>1, <2>2, <2>3 DEF BeginReference, Fail
<1>2. CASE JoinHop
  BY <1>2, JoinHopJoinInv
<1>3. CASE UnknownRelationship
  BY <1>0, <1>3, JoinsUnchanged DEF UnknownRelationship, Fail, lowererVars
<1>4. CASE ResolveField
  <2>1. CurrentRef \in Ref
    BY <1>4, CurrentRefType DEF ResolveField, TypeInv, Position
  <2> DEFINE ref == [path |-> CurrentRef.chain, table |-> table, column |-> CurrentRef.field]
  <2>2. ref \in FieldRef
    BY <2>1 DEF Ref, FieldRef, TypeInv, TypeOK
  <2>3. Readable(CurrentRef.chain)
    <3>1. CurrentRef.chain \in Seq(Name)
      BY <2>1 DEF Ref, Path
    <3>2. SubSeq(CurrentRef.chain, 1, hop) = CurrentRef.chain
      BY <1>4, <3>1, SubSeqFull DEF ResolveField
    <3>3. QED
      BY <1>4, <3>2 DEF ResolveField, JoinInv, WalkedPathJoined, Readable
  <2>4. refs \in Seq(FieldRef) /\ refs' = Append(refs, ref)
    BY <1>4 DEF ResolveField, TypeInv, TypeOK
  <2>5. \A i \in DOMAIN refs' : (i \in DOMAIN refs /\ refs'[i] = refs[i]) \/ refs'[i] = ref
    BY <2>2, <2>4, AppendProperties
  <2>6. \A i \in DOMAIN refs' : Readable(refs'[i].path)
    BY <1>0, <2>3, <2>5
  <2>7. QED
    BY <1>0, <1>4, <2>6, JoinsUnchanged DEF ResolveField, lowererVars
<1>5. CASE UnknownField
  BY <1>0, <1>5, JoinsUnchanged DEF UnknownField, Fail, lowererVars
<1>6. CASE TypeError
  BY <1>0, <1>6, JoinsUnchanged DEF TypeError, Fail, lowererVars
<1>7. CASE SelectExplicitAlias
  <2>1. CurrentItem.alias \in Name
    BY <1>7, CurrentItemType DEF SelectExplicitAlias, AliasChoice, TypeInv
  <2>2. QED
    BY <1>7, <2>1, AddFieldJoinInv DEF SelectExplicitAlias, AliasChoice
<1>8. CASE DuplicateOutputAlias
  BY <1>0, <1>8, JoinsUnchanged DEF DuplicateOutputAlias, AliasChoice, Fail, lowererVars
<1>9. CASE SelectDefaultAlias
  BY <1>9, CurrentItemType, AddFieldJoinInv DEF SelectDefaultAlias, AliasChoice, TypeInv
<1>10. CASE DefaultAliasTaken
  BY <1>0, <1>10, JoinsUnchanged DEF DefaultAliasTaken, AliasChoice, lowererVars
<1>11. CASE SelectSuffixedAlias
  <2>1. Candidate \in Name
    BY <1>11, CurrentItemType
       DEF SelectSuffixedAlias, AliasChoice, Candidate, Name, TypeInv, TypeOK
  <2>2. QED
    BY <1>11, <2>1, AddFieldJoinInv DEF SelectSuffixedAlias, AliasChoice
<1>12. CASE NextSuffix
  BY <1>0, <1>12, JoinsUnchanged DEF NextSuffix, AliasChoice, lowererVars
<1>13. CASE FinishFormula
  <2>1. <<ResultWord>> \in Name
    BY AliasAssumption DEF Name
  <2>2. QED
    BY <1>13, <2>1, AddFieldJoinInv DEF FinishFormula
<1>14. CASE Render
  BY <1>0, <1>14, JoinsUnchanged DEF Render, lowererVars
<1>15. CASE UNCHANGED vars
  <2>1. OrderListsJoins' /\ ParentJoinedFirst'
    BY <1>15 DEF vars, lowererVars, JoinInv, OrderListsJoins, ParentJoinedFirst
  <2>2. JoinsFollowCatalog'
    BY <1>15 DEF vars, lowererVars, JoinInv, JoinsFollowCatalog, EndTable
  <2>3. WalkedPathJoined'
    BY <1>15 DEF vars, lowererVars, JoinInv, WalkedPathJoined, EndTable, CurrentRef, CurrentItem
  <2>4. ReferencesReadable'
    BY <1>0, <1>15 DEF vars, lowererVars, ReferencesReadable, Readable
  <2>5. QED
    BY <2>1, <2>2, <2>3, <2>4 DEF JoinInv
<1>16. QED
  BY <1>1, <1>2, <1>3, <1>4, <1>5, <1>6, <1>7, <1>8, <1>9, <1>10, <1>11, <1>12,
     <1>13, <1>14, <1>15 DEF Next

(***************************************************************************)
(* l.order lists each join once and after the join it starts from.         *)
(***************************************************************************)
THEOREM JoinsOrdered == Spec => []JoinsInOrder
<1>1. TypeInv /\ JoinInv => JoinsInOrder
  BY DEF JoinInv, JoinsInOrder
<1>2. QED
  BY InitTypeInv, InitJoinInv, TypeInvStep, JoinInvStep, <1>1, PTL DEF Spec

(***************************************************************************)
(* A join starts where its parent ends and follows a declared relationship.*)
(***************************************************************************)
THEOREM JoinsAlongCatalog == Spec => []JoinsFollowCatalog
<1>1. JoinInv => JoinsFollowCatalog
  BY DEF JoinInv
<1>2. QED
  BY InitTypeInv, InitJoinInv, TypeInvStep, JoinInvStep, <1>1, PTL DEF Spec

-----------------------------------------------------------------------------
(***************************************************************************)
(* The output names.                                                       *)
(***************************************************************************)
LEMMA AddFieldAliasInv ==
  ASSUME TypeInv, AliasInv, pc = "expr", NEW alias \in Name, alias \notin UsedAliases,
         AddField(alias), UNCHANGED <<document, formula>>
  PROVE  AliasInv'
<1> DEFINE F == [alias : Name, refs : Seq(FieldRef)]
           new == [alias |-> alias, refs |-> refs]
<1>1. fields \in Seq(F) /\ new \in F /\ fields' = Append(fields, new) /\ field \in Nat
  BY DEF TypeInv, TypeOK, AddField
<1>2. new.alias = alias
  OBVIOUS
<1> HIDE DEF F, new
<1>3. /\ Len(fields) \in Nat /\ Len(fields') = Len(fields) + 1
      /\ DOMAIN fields = 1..Len(fields) /\ DOMAIN fields' = 1..(Len(fields) + 1)
      /\ \A i \in 1..Len(fields) : fields'[i] = fields[i]
      /\ fields'[Len(fields) + 1] = new
  BY <1>1, AppendProperties
<1>4. \A i \in 1..Len(fields) : fields[i].alias # alias
  BY <1>3 DEF UsedAliases
<1>5. AliasesDistinct'
  BY <1>2, <1>3, <1>4 DEF AliasInv, AliasesDistinct
<1>6. FieldPerItem'
  BY <1>1, <1>3 DEF AliasInv, FieldPerItem, AddField
<1>7. QED
  BY <1>5, <1>6 DEF AliasInv

LEMMA AliasInvStep == TypeInv /\ AliasInv /\ [Next]_vars => AliasInv'
<1> SUFFICES ASSUME TypeInv, AliasInv, [Next]_vars PROVE AliasInv'
  OBVIOUS
<1> USE DEF AliasInv
<1>1. ASSUME fields' = fields, document' = document, formula' = formula,
             pc' \in {"expr", "path"} => pc \in {"expr", "path"} /\ field' = field
      PROVE  AliasInv'
  BY <1>1 DEF AliasesDistinct, FieldPerItem
<1>2. CASE BeginReference \/ JoinHop \/ UnknownRelationship \/ ResolveField \/ UnknownField \/ TypeError
  BY <1>1, <1>2 DEF BeginReference, JoinHop, UnknownRelationship, ResolveField, UnknownField,
                    TypeError, Fail
<1>3. CASE DuplicateOutputAlias \/ DefaultAliasTaken \/ NextSuffix
  BY <1>1, <1>3 DEF DuplicateOutputAlias, DefaultAliasTaken, NextSuffix, AliasChoice, Fail
<1>4. CASE SelectExplicitAlias
  <2>1. CurrentItem.alias \in Name
    BY <1>4, CurrentItemType DEF SelectExplicitAlias, AliasChoice, TypeInv
  <2>2. QED
    BY <1>4, <2>1, AddFieldAliasInv DEF SelectExplicitAlias, AliasChoice
<1>5. CASE SelectDefaultAlias
  BY <1>5, CurrentItemType, AddFieldAliasInv DEF SelectDefaultAlias, AliasChoice, TypeInv
<1>6. CASE SelectSuffixedAlias
  <2>1. Candidate \in Name
    BY <1>6, CurrentItemType
       DEF SelectSuffixedAlias, AliasChoice, Candidate, Name, TypeInv, TypeOK
  <2>2. QED
    BY <1>6, <2>1, AddFieldAliasInv DEF SelectSuffixedAlias, AliasChoice
<1>7. CASE FinishFormula
  <2>1. <<ResultWord>> \in Name
    BY AliasAssumption DEF Name
  <2>2. field = 1 /\ Len(fields) = 0
    BY <1>7 DEF FinishFormula, FieldPerItem, TypeInv, TypeOK
  <2>3. DOMAIN fields = {}
    BY <2>2 DEF TypeInv, TypeOK
  <2>4. <<ResultWord>> \notin UsedAliases
    BY <2>3 DEF UsedAliases
  <2>5. QED
    BY <1>7, <2>1, <2>4, AddFieldAliasInv DEF FinishFormula
<1>8. CASE Render
  BY <1>1, <1>8 DEF Render
<1>9. CASE UNCHANGED vars
  BY <1>1, <1>9 DEF vars
<1>10. QED
  BY <1>2, <1>3, <1>4, <1>5, <1>6, <1>7, <1>8, <1>9 DEF Next

(***************************************************************************)
(* No two projections of a document have the same output name.             *)
(***************************************************************************)
THEOREM DistinctAliases == Spec => []AliasesDistinct
<1>1. Init => AliasInv
  <2> SUFFICES ASSUME Init PROVE AliasInv
    OBVIOUS
  <2>1. DOMAIN fields = {} /\ Len(fields) = 0 /\ field = 1 /\ (formula => Len(document) = 1)
    BY DEF Init
  <2>2. QED
    BY <2>1 DEF AliasInv, AliasesDistinct, FieldPerItem
<1>2. AliasInv => AliasesDistinct
  BY DEF AliasInv
<1>3. QED
  BY InitTypeInv, TypeInvStep, AliasInvStep, <1>1, <1>2, PTL DEF Spec

-----------------------------------------------------------------------------
(***************************************************************************)
(* The query.                                                              *)
(***************************************************************************)
LEMMA QueryStep == QueryRendersPlan /\ [Next]_vars => QueryRendersPlan'
<1> SUFFICES ASSUME QueryRendersPlan, [Next]_vars, pc' = "rendered"
             PROVE  QueryRendersPlan'
  BY DEF QueryRendersPlan
<1>1. CASE Render
  BY <1>1 DEF Render, QueryRendersPlan, RenderJoinClauses, RenderExpr, lowererVars
<1>2. CASE UNCHANGED vars
  BY <1>2 DEF vars, lowererVars, QueryRendersPlan, RenderJoinClauses, RenderExpr
<1>3. ~(BeginReference \/ JoinHop \/ UnknownRelationship \/ ResolveField \/ UnknownField
        \/ TypeError \/ SelectExplicitAlias \/ DuplicateOutputAlias \/ SelectDefaultAlias
        \/ DefaultAliasTaken \/ SelectSuffixedAlias \/ NextSuffix \/ FinishFormula)
  BY DEF BeginReference, JoinHop, UnknownRelationship, ResolveField, UnknownField, TypeError,
         SelectExplicitAlias, DuplicateOutputAlias, SelectDefaultAlias, DefaultAliasTaken,
         SelectSuffixedAlias, NextSuffix, FinishFormula, AliasChoice, AddField, Fail
<1>4. QED
  BY <1>1, <1>2, <1>3 DEF Next

LEMMA PlanWellScoped ==
  ASSUME TypeInv, JoinInv, QueryRendersPlan
  PROVE  QueryWellScoped
<1> SUFFICES ASSUME pc = "rendered" PROVE QueryWellScoped
  BY DEF QueryWellScoped
<1> DEFINE introduced(k) == {<< >>} \cup {query.joins[i].alias : i \in 1..k}
<1>1. /\ order \in Seq(Path) /\ DOMAIN order = 1..Len(order) /\ Len(order) \in Nat
      /\ DOMAIN query.joins = 1..Len(order)
      /\ \A i \in 1..Len(order) : /\ query.joins[i].alias = order[i]
                                  /\ query.joins[i].parent = Parent(order[i])
  BY DEF TypeInv, TypeOK, QueryRendersPlan, RenderJoinClauses, Parent
<1>2. \A i \in 1..Len(order) : order[i] \in DOMAIN joins /\ order[i] # << >>
  BY <1>1 DEF JoinInv, OrderListsJoins, JoinsFollowCatalog
<1>3. ASSUME NEW k \in 1..Len(order)
      PROVE  /\ query.joins[k].alias \notin introduced(k - 1)
             /\ query.joins[k].parent \in introduced(k - 1)
  <2>1. query.joins[k].alias \notin introduced(k - 1)
    <3>1. \A i \in 1..(k - 1) : i \in 1..Len(order) /\ i # k
      BY <1>1
    <3>2. \A i, j \in 1..Len(order) : order[i] = order[j] => i = j
      BY <1>1 DEF JoinInv, OrderListsJoins
    <3>3. \A i \in 1..(k - 1) : query.joins[i].alias # query.joins[k].alias
      BY <1>1, <3>1, <3>2, Zenon
    <3>4. query.joins[k].alias # << >>
      BY <1>1, <1>2
    <3>5. QED
      BY <3>3, <3>4
  <2>2. CASE Len(order[k]) = 1
    <3>1. order[k] \in Seq(Name)
      BY <1>1 DEF Path
    <3>2. Parent(order[k]) = << >>
      BY <2>2, <3>1, SubSeqEmpty DEF Parent
    <3>3. QED
      BY <1>1, <2>1, <3>2
  <2>3. CASE Len(order[k]) # 1
    <3>1. PICK i \in 1..(k - 1) : order[i] = Parent(order[k])
      BY <1>1, <2>3 DEF JoinInv, ParentJoinedFirst, Parent
    <3>2. i \in 1..Len(order)
      BY <1>1, <3>1
    <3>3. QED
      BY <1>1, <2>1, <3>1, <3>2
  <2>4. QED
    BY <2>2, <2>3
<1>4. Len(query.joins) = Len(order)
  BY <1>1 DEF QueryRendersPlan, RenderJoinClauses
<1>5. ASSUME NEW f \in DOMAIN query.select, NEW c \in DOMAIN query.select[f].expr
      PROVE  query.select[f].expr[c].alias \in introduced(Len(query.joins))
  <2>1. f \in DOMAIN fields /\ c \in DOMAIN fields[f].refs
        /\ query.select[f].expr[c].alias = fields[f].refs[c].path
    BY <1>5 DEF QueryRendersPlan, RenderExpr
  <2>2. Readable(fields[f].refs[c].path)
    BY <2>1 DEF JoinInv, ReferencesReadable
  <2>3. CASE fields[f].refs[c].path = << >>
    BY <2>1, <2>3
  <2>4. CASE fields[f].refs[c].path \in DOMAIN joins
    <3>1. PICK i \in 1..Len(order) : order[i] = fields[f].refs[c].path
      BY <1>1, <2>4 DEF JoinInv, OrderListsJoins
    <3>2. query.joins[i].alias = query.select[f].expr[c].alias
      BY <1>1, <2>1, <3>1
    <3>3. QED
      BY <1>4, <3>2
  <2>5. QED
    BY <2>2, <2>3, <2>4 DEF Readable
<1>6. QED
  BY <1>1, <1>3, <1>4, <1>5 DEF QueryWellScoped

(***************************************************************************)
(* The rendered SELECT introduces every table alias once and before it is  *)
(* used, whatever the catalog and the document.                            *)
(***************************************************************************)
THEOREM WellScopedQuery == Spec => []QueryWellScoped
<1>1. Init => QueryRendersPlan
  BY DEF Init, QueryRendersPlan
<1>2. QED
  BY InitTypeInv, InitJoinInv, TypeInvStep, JoinInvStep, QueryStep, PlanWellScoped, <1>1, PTL
     DEF Spec

-----------------------------------------------------------------------------
(***************************************************************************)
(* The warnings.  Due(p, r) is what a join along p by relationship r has   *)
(* to be warned about.                                                     *)
(***************************************************************************)
Due(p, relationship) ==
  {w \in {[path |-> p, column |-> "join"], [path |-> p, column |-> "target"]} :
     IF w.column = "join" THEN relationship.joinIndexed = "not_indexed"
                          ELSE relationship.targetIndexed = "not_indexed"}

JoinedBy(p) == Relationship[<<joins[p].from, p[Len(p)]>>]

(***************************************************************************)
(* WarningsExact, element by element.                                      *)
(***************************************************************************)
WarnedOnceEach ==
  /\ \A i, j \in DOMAIN warnings : warnings[i] = warnings[j] => i = j
  /\ \A i \in DOMAIN warnings : \E p \in DOMAIN joins : warnings[i] \in Due(p, JoinedBy(p))
  /\ \A p \in DOMAIN joins : \A w \in Due(p, JoinedBy(p)) :
       \E i \in DOMAIN warnings : warnings[i] = w

LEMMA WarnedMeansExact == WarnedOnceEach => WarningsExact
<1> SUFFICES ASSUME WarnedOnceEach PROVE WarningsExact
  OBVIOUS
<1>1. {warnings[i] : i \in DOMAIN warnings} = UNION {Due(p, JoinedBy(p)) : p \in DOMAIN joins}
  BY DEF WarnedOnceEach
<1>2. QED
  BY <1>1 DEF WarnedOnceEach, WarningsExact, Due, JoinedBy

LEMMA JoinWarningsDue ==
  ASSUME NEW path \in Path, NEW relationship \in RelationshipRecord
  PROVE  LET due == JoinWarnings(path, relationship)
         IN  /\ due \in Seq(Warning)
             /\ \A i \in DOMAIN due : due[i] \in Due(path, relationship)
             /\ \A w \in Due(path, relationship) : \E i \in DOMAIN due : due[i] = w
             /\ \A i, j \in DOMAIN due : due[i] = due[j] => i = j
<1> DEFINE j == [path |-> path, column |-> "join"]
           t == [path |-> path, column |-> "target"]
           due == JoinWarnings(path, relationship)
<1>1. j \in Warning /\ t \in Warning /\ j.column = "join" /\ t.column = "target" /\ j # t
  BY DEF Warning
<1>2. Due(path, relationship) = {w \in {j, t} : IF w.column = "join"
                                                THEN relationship.joinIndexed = "not_indexed"
                                                ELSE relationship.targetIndexed = "not_indexed"}
  BY DEF Due
<1>3. due = (IF relationship.joinIndexed = "not_indexed" THEN <<j>> ELSE << >>)
            \o (IF relationship.targetIndexed = "not_indexed" THEN <<t>> ELSE << >>)
  BY DEF JoinWarnings
<1> HIDE DEF j, t, due
<1>4. CASE relationship.joinIndexed = "not_indexed" /\ relationship.targetIndexed = "not_indexed"
  <2>1. due = <<j>> \o <<t>>
    BY <1>3, <1>4
  <2>2. Due(path, relationship) = {j, t}
    BY <1>1, <1>2, <1>4
  <2>3. <<j>> \in Seq(Warning) /\ <<t>> \in Seq(Warning)
    BY <1>1
  <2>4. /\ due \in Seq(Warning) /\ DOMAIN due = {1, 2}
        /\ due[1] = j /\ due[2] = t
    BY <2>1, <2>3, ConcatProperties
  <2>5. QED
    BY <1>1, <2>2, <2>4 DEF due
<1>5. CASE relationship.joinIndexed = "not_indexed" /\ relationship.targetIndexed # "not_indexed"
  <2>1. due = <<j>>
    BY <1>3, <1>5
  <2>2. Due(path, relationship) = {j}
    BY <1>1, <1>2, <1>5
  <2>3. QED
    BY <1>1, <2>1, <2>2 DEF due
<1>6. CASE relationship.joinIndexed # "not_indexed" /\ relationship.targetIndexed = "not_indexed"
  <2>1. due = <<t>>
    BY <1>3, <1>6
  <2>2. Due(path, relationship) = {t}
    BY <1>1, <1>2, <1>6
  <2>3. QED
    BY <1>1, <2>1, <2>2 DEF due
<1>7. CASE relationship.joinIndexed # "not_indexed" /\ relationship.targetIndexed # "not_indexed"
  <2>1. due = << >>
    BY <1>3, <1>7
  <2>2. Due(path, relationship) = {}
    BY <1>1, <1>2, <1>7
  <2>3. QED
    BY <1>1, <2>1, <2>2 DEF due
<1>8. QED
  BY <1>4, <1>5, <1>6, <1>7

LEMMA AddJoinWarnings ==
  ASSUME TypeOK, WarnedOnceEach, NEW path \in Path, NEW from \in Tables,
         <<from, path[Len(path)]>> \in DOMAIN Relationship,
         AddJoin(path, from, Relationship[<<from, path[Len(path)]>>])
  PROVE  WarnedOnceEach'
<1> DEFINE rel == Relationship[<<from, path[Len(path)]>>]
           due == JoinWarnings(path, rel)
           n == Len(warnings)
<1>1. CASE path \in DOMAIN joins
  <2>1. joins' = joins /\ warnings' = warnings
    BY <1>1 DEF AddJoin, lowererVars
  <2>2. QED
    BY <2>1 DEF WarnedOnceEach, JoinedBy
<1>2. CASE path \notin DOMAIN joins
  <2>1. /\ DOMAIN joins' = DOMAIN joins \cup {path}
        /\ \A p \in DOMAIN joins : joins'[p] = joins[p]
        /\ joins'[path].from = from
    BY <1>2 DEF AddJoin
  <2>2. warnings' = warnings \o due
    BY <1>2 DEF AddJoin
  <2>3. rel \in RelationshipRecord
    BY RelationshipAssumption
  <2>4. /\ due \in Seq(Warning)
        /\ \A i \in DOMAIN due : due[i] \in Due(path, rel)
        /\ \A w \in Due(path, rel) : \E i \in DOMAIN due : due[i] = w
        /\ \A i, j \in DOMAIN due : due[i] = due[j] => i = j
    BY <2>3, JoinWarningsDue
  <2>5. /\ JoinedBy(path)' = rel
        /\ \A p \in DOMAIN joins : JoinedBy(p)' = JoinedBy(p)
    BY <2>1 DEF JoinedBy
  <2>6. \A p, r, w : w \in Due(p, r) => w.path = p
    BY DEF Due
  <2> HIDE DEF rel, due
  <2>7. /\ n \in Nat /\ Len(due) \in Nat
        /\ DOMAIN warnings = 1..n /\ DOMAIN due = 1..Len(due)
        /\ DOMAIN warnings' = 1..(n + Len(due))
        /\ \A i \in 1..n : warnings'[i] = warnings[i]
        /\ \A i \in 1..Len(due) : warnings'[n + i] = due[i]
    BY <2>2, <2>4, ConcatProperties DEF TypeOK
  <2> HIDE DEF n
  <2>8. ASSUME NEW i \in DOMAIN warnings'
        PROVE  \/ i \in 1..n /\ warnings'[i] = warnings[i]
               \/ \E k \in 1..Len(due) : i = n + k /\ warnings'[i] = due[k]
    <3>1. CASE i <= n
      BY <2>7, <3>1
    <3>2. CASE i > n
      <4>1. i - n \in 1..Len(due) /\ i = n + (i - n)
        BY <2>7, <3>2
      <4>2. QED
        BY <2>7, <4>1
    <3>3. QED
      BY <2>7, <3>1, <3>2
  <2>9. ASSUME NEW i \in 1..n, NEW k \in 1..Len(due)
        PROVE  warnings[i] # due[k]
    <3>1. PICK p \in DOMAIN joins : warnings[i] \in Due(p, JoinedBy(p))
      BY <2>7 DEF WarnedOnceEach
    <3>2. due[k] \in Due(path, rel)
      BY <2>4, <2>7
    <3>3. warnings[i].path = p /\ due[k].path = path
      BY <2>6, <3>1, <3>2
    <3>4. QED
      BY <1>2, <3>3
  <2>10. \A i, j \in DOMAIN warnings' : warnings'[i] = warnings'[j] => i = j
    <3> SUFFICES ASSUME NEW i \in DOMAIN warnings', NEW j \in DOMAIN warnings',
                        warnings'[i] = warnings'[j]
                 PROVE  i = j
      OBVIOUS
    <3>1. CASE i \in 1..n /\ j \in 1..n
      BY <2>7, <3>1 DEF WarnedOnceEach
    <3>2. CASE i \notin 1..n /\ j \notin 1..n
      <4>1. PICK k \in 1..Len(due) : i = n + k /\ warnings'[i] = due[k]
        BY <2>8, <3>2
      <4>2. PICK l \in 1..Len(due) : j = n + l /\ warnings'[j] = due[l]
        BY <2>8, <3>2
      <4>3. QED
        BY <2>4, <2>7, <4>1, <4>2
    <3>3. QED
      BY <2>7, <2>8, <2>9, <3>1, <3>2
  <2>11. ASSUME NEW i \in DOMAIN warnings'
         PROVE  \E p \in DOMAIN joins' : warnings'[i] \in Due(p, JoinedBy(p)')
    <3>1. CASE i \in 1..n
      <4>1. PICK p \in DOMAIN joins : warnings[i] \in Due(p, JoinedBy(p))
        BY <2>7, <3>1 DEF WarnedOnceEach
      <4>2. QED
        BY <2>1, <2>5, <2>7, <3>1, <4>1
    <3>2. CASE i \notin 1..n
      <4>1. PICK k \in 1..Len(due) : warnings'[i] = due[k]
        BY <2>8, <3>2
      <4>2. QED
        BY <2>1, <2>4, <2>5, <2>7, <4>1
    <3>3. QED
      BY <3>1, <3>2
  <2>12. ASSUME NEW p \in DOMAIN joins', NEW w \in Due(p, JoinedBy(p)')
         PROVE  \E i \in DOMAIN warnings' : warnings'[i] = w
    <3>1. CASE p = path
      BY <2>4, <2>5, <2>7, <3>1
    <3>2. CASE p \in DOMAIN joins
      BY <2>5, <2>7, <3>2 DEF WarnedOnceEach
    <3>3. QED
      BY <2>1, <3>1, <3>2
  <2>13. QED
    BY <2>10, <2>11, <2>12 DEF WarnedOnceEach
<1>3. QED
  BY <1>1, <1>2

LEMMA WarningsStep == TypeInv /\ JoinInv /\ WarnedOnceEach /\ [Next]_vars => WarnedOnceEach'
<1> SUFFICES ASSUME TypeInv, JoinInv, WarnedOnceEach, [Next]_vars PROVE WarnedOnceEach'
  OBVIOUS
<1>1. CASE UNCHANGED lowererVars
  BY <1>1 DEF lowererVars, WarnedOnceEach, JoinedBy
<1>2. CASE JoinHop
  <2> DEFINE chain == CurrentRef.chain
             path == SubSeq(chain, 1, hop + 1)
  <2>1. /\ chain \in Seq(Name) /\ hop \in Nat /\ hop + 1 \in 1..Len(chain) /\ path \in Path
        /\ table \in Tables
    BY <1>2, HopType DEF TypeInv, TypeOK
  <2>2. path[Len(path)] = chain[hop + 1]
    BY <2>1, PrefixProperties
  <2>3. HopKey = <<table, path[Len(path)]>>
    BY <2>2 DEF HopKey
  <2>4. HopKey \in DOMAIN Relationship /\ AddJoin(path, table, Relationship[HopKey])
    BY <1>2 DEF JoinHop
  <2> HIDE DEF path
  <2>5. QED
    BY <2>1, <2>3, <2>4, AddJoinWarnings DEF TypeInv
<1>3. QED
  BY <1>1, <1>2
     DEF Next, vars, lowererVars, BeginReference, UnknownRelationship, ResolveField, UnknownField,
         TypeError, SelectExplicitAlias, DuplicateOutputAlias, SelectDefaultAlias,
         DefaultAliasTaken, SelectSuffixedAlias, NextSuffix, FinishFormula, AliasChoice, Render

(***************************************************************************)
(* A join is warned about exactly once for each of its columns that is     *)
(* known not to be indexed, however many references share it.              *)
(***************************************************************************)
THEOREM ExactWarnings == Spec => []WarningsExact
<1>1. Init => WarnedOnceEach
  <2> SUFFICES ASSUME Init PROVE WarnedOnceEach
    OBVIOUS
  <2>1. DOMAIN joins = {} /\ DOMAIN warnings = {}
    BY DEF Init
  <2>2. QED
    BY <2>1 DEF WarnedOnceEach
<1>2. QED
  BY InitTypeInv, InitJoinInv, TypeInvStep, JoinInvStep, WarningsStep, WarnedMeansExact, <1>1, PTL DEF Spec

-----------------------------------------------------------------------------
(***************************************************************************)
(* The refinement: each step of lowerer and renderer is a step of          *)
(* DocumentPlan or changes nothing that it can see.  Until the end of the  *)
(* module this is one proof, and its last theorem is the result.           *)
(***************************************************************************)

(***************************************************************************)
(* Where a chain leads.  Stops(s, chain, n) says that s holds the tables   *)
(* that the first n hops of the chain visit.                               *)
(***************************************************************************)
Stops(s, chain, n) ==
  /\ s \in [0..n -> Tables]
  /\ s[0] = BaseTable
  /\ \A h \in 1..n : /\ <<s[h - 1], chain[h]>> \in DOMAIN Relationship
                     /\ Relationship[<<s[h - 1], chain[h]>>].to = s[h]

LEMMA LeadsToStops ==
  ASSUME NEW chain, NEW target
  PROVE  Promise!LeadsTo(chain, target) <=>
           \E s : Stops(s, chain, Len(chain)) /\ s[Len(chain)] = target
  BY DEF Promise!LeadsTo, Stops

LEMMA StopsUnique ==
  ASSUME NEW chain, NEW n \in Nat, NEW m \in Nat, n <= m, NEW s, NEW t,
         Stops(s, chain, n), Stops(t, chain, m)
  PROVE  \A h \in 0..n : s[h] = t[h]
<1> DEFINE T == {h \in 0..n : s[h] # t[h]}
<1>1. T \subseteq Nat
  OBVIOUS
<1>2. ASSUME T # {} PROVE FALSE
  <2>1. PICK h \in T : \A k \in T : h <= k
    <3> HIDE DEF T
    <3>1. QED
      BY <1>1, <1>2, LeastNumber
  <2>2. h # 0
    BY DEF Stops
  <2>3. h \in 1..n /\ h \in 1..m /\ h - 1 \in 0..n /\ h - 1 \notin T
    BY <2>1, <2>2
  <2>4. s[h - 1] = t[h - 1]
    BY <2>3
  <2>5. s[h] = t[h]
    BY <2>3, <2>4 DEF Stops
  <2>6. QED
    BY <2>5
<1>3. QED
  BY <1>2

LEMMA LeadsToOne ==
  ASSUME NEW chain \in Path, NEW t, NEW u,
         Promise!LeadsTo(chain, t), Promise!LeadsTo(chain, u)
  PROVE  t = u /\ t \in Tables /\ Promise!EndOf(chain) = t
<1>1. Len(chain) \in Nat
  BY DEF Path
<1>2. \A a, b : Promise!LeadsTo(chain, a) /\ Promise!LeadsTo(chain, b) => a = b
  <2> SUFFICES ASSUME NEW a, NEW b, Promise!LeadsTo(chain, a), Promise!LeadsTo(chain, b)
               PROVE  a = b
    OBVIOUS
  <2>1. PICK s : Stops(s, chain, Len(chain)) /\ s[Len(chain)] = a
    BY LeadsToStops
  <2>2. PICK r : Stops(r, chain, Len(chain)) /\ r[Len(chain)] = b
    BY LeadsToStops
  <2>3. QED
    BY <1>1, <2>1, <2>2, StopsUnique
<1>3. t \in Tables
  BY <1>1, LeadsToStops DEF Stops
<1>4. QED
  BY <1>2, <1>3 DEF Promise!EndOf

LEMMA LeadsNowhere ==
  /\ Promise!LeadsTo(<< >>, BaseTable)
  /\ \A t : Promise!LeadsTo(<< >>, t) => t = BaseTable
<1>1. Stops([h \in 0..0 |-> BaseTable], << >>, 0)
  BY BaseTableAssumption DEF Stops
<1>2. Len(<< >>) = 0
  OBVIOUS
<1>3. QED
  BY <1>1, <1>2, LeadsToStops DEF Stops

(***************************************************************************)
(* One hop more.                                                           *)
(***************************************************************************)
LEMMA LeadsOn ==
  ASSUME NEW chain \in Path, NEW h \in Nat, h + 1 \in 1..Len(chain), NEW t,
         Promise!LeadsTo(SubSeq(chain, 1, h), t),
         <<t, chain[h + 1]>> \in DOMAIN Relationship
  PROVE  Promise!LeadsTo(SubSeq(chain, 1, h + 1), Relationship[<<t, chain[h + 1]>>].to)
<1> DEFINE walked == SubSeq(chain, 1, h)
           longer == SubSeq(chain, 1, h + 1)
           next == Relationship[<<t, chain[h + 1]>>].to
<1>1. /\ Len(walked) = h /\ Len(longer) = h + 1
      /\ \A i \in 1..h : walked[i] = chain[i]
      /\ \A i \in 1..(h + 1) : longer[i] = chain[i]
  BY SubSeqProperties DEF Path
<1>2. next \in Tables
  BY RelationshipAssumption DEF RelationshipRecord
<1> HIDE DEF walked, longer, next
<1>3. PICK s : Stops(s, walked, h) /\ s[h] = t
  BY <1>1, LeadsToStops DEF walked
<1> DEFINE r == [i \in 0..(h + 1) |-> IF i = h + 1 THEN next ELSE s[i]]
<1>4. r \in [0..(h + 1) -> Tables] /\ r[0] = BaseTable /\ r[h + 1] = next
  BY <1>2, <1>3 DEF Stops
<1>5. ASSUME NEW i \in 1..(h + 1)
      PROVE  /\ <<r[i - 1], longer[i]>> \in DOMAIN Relationship
             /\ Relationship[<<r[i - 1], longer[i]>>].to = r[i]
  <2>1. CASE i = h + 1
    <3>1. r[i - 1] = t /\ longer[i] = chain[h + 1] /\ r[i] = next
      BY <1>1, <1>2, <1>3, <2>1
    <3>2. QED
      BY <3>1 DEF next
  <2>2. CASE i # h + 1
    <3>1. i \in 1..h /\ i - 1 \in 0..h
      BY <2>2
    <3>2. QED
      BY <1>1, <1>3, <3>1 DEF Stops
  <2>3. QED
    BY <2>1, <2>2
<1>6. Stops(r, longer, h + 1)
  <2> HIDE DEF r
  <2>1. QED
    BY <1>4, <1>5 DEF Stops
<1>7. QED
  <2>1. Promise!LeadsTo(longer, next)
    BY <1>1, <1>4, <1>6, LeadsToStops
  <2>2. QED
    BY <2>1 DEF longer, next

(***************************************************************************)
(* A chain that leads somewhere follows a relationship at each hop.        *)
(***************************************************************************)
LEMMA LeadsThrough ==
  ASSUME NEW chain \in Path, NEW h \in Nat, h + 1 \in 1..Len(chain), NEW t, NEW u,
         Promise!LeadsTo(SubSeq(chain, 1, h), t), Promise!LeadsTo(chain, u)
  PROVE  <<t, chain[h + 1]>> \in DOMAIN Relationship
<1> DEFINE walked == SubSeq(chain, 1, h)
<1>1. /\ Len(chain) \in Nat /\ Len(walked) = h
      /\ \A i \in 1..h : walked[i] = chain[i]
  BY SubSeqProperties DEF Path
<1> HIDE DEF walked
<1>2. PICK s : Stops(s, walked, h) /\ s[h] = t
  BY <1>1, LeadsToStops DEF walked
<1>3. PICK r : Stops(r, chain, Len(chain)) /\ r[Len(chain)] = u
  BY LeadsToStops
<1>4. Stops(s, chain, h)
  BY <1>1, <1>2 DEF Stops
<1>5. s[h] = r[h]
  BY <1>1, <1>3, <1>4, StopsUnique
<1>6. QED
  BY <1>1, <1>2, <1>3, <1>5 DEF Stops

-----------------------------------------------------------------------------
(***************************************************************************)
(* The output names of a document, one by one.  Names is a fold, that is,  *)
(* a function defined by recursion on sets of positions; it exists.        *)
(***************************************************************************)
Folds(f, items, positions) ==
  f = [s \in SUBSET positions |->
         IF s = {} THEN << >>
         ELSE Append(f[s \ {Max(s)}],
                     Promise!AliasAfter(ToSet(f[s \ {Max(s)}]), items[Max(s)]))]

LEMMA NamesFold ==
  ASSUME NEW items
  PROVE  Promise!Names(items) = (CHOOSE f : Folds(f, items, DOMAIN items))[DOMAIN items]
  BY DEF Promise!Names, Promise!FoldLeft, Promise!MapThenFoldSet, Promise!ToSet, Promise!Max,
         ToSet, Max, Folds

LEMMA FoldsAt ==
  ASSUME NEW items, NEW n \in Nat, NEW f, Folds(f, items, 1..n), NEW s \in SUBSET (1..n)
  PROVE  f[s] = IF s = {} THEN << >>
                ELSE Append(f[s \ {Max(s)}],
                            Promise!AliasAfter(ToSet(f[s \ {Max(s)}]), items[Max(s)]))
  BY DEF Folds

LEMMA GreatestIs ==
  ASSUME NEW n \in Nat, NEW s \in SUBSET (1..n), n \in s
  PROVE  Max(s) = n
<1>1. \A x \in s : x <= n /\ x \in Nat
  OBVIOUS
<1>2. \A x \in s : (\A y \in s : x >= y) => x = n
  BY <1>1
<1>3. \E x \in s : \A y \in s : x >= y
  BY <1>1
<1>4. QED
  BY <1>2, <1>3 DEF Max

LEMMA FoldExists ==
  ASSUME NEW items, NEW n \in Nat
  PROVE  \E f : Folds(f, items, 1..n)
<1> DEFINE S == {k \in Nat : \E f : Folds(f, items, 1..k)}
<1>1. 0 \in S
  <2> DEFINE f == [s \in SUBSET (1..0) |-> << >>]
  <2>1. SUBSET (1..0) = {{}}
    OBVIOUS
  <2>2. \A s \in SUBSET (1..0) :
          f[s] = IF s = {} THEN << >>
                 ELSE Append(f[s \ {Max(s)}],
                             Promise!AliasAfter(ToSet(f[s \ {Max(s)}]), items[Max(s)]))
    BY <2>1
  <2>3. f = [s \in SUBSET (1..0) |-> f[s]]
    OBVIOUS
  <2> HIDE DEF f
  <2>4. Folds(f, items, 1..0)
    BY <2>2, <2>3 DEF Folds
  <2>5. QED
    BY <2>4
<1>2. ASSUME NEW k \in Nat, k \in S
      PROVE  k + 1 \in S
  <2>1. PICK f : Folds(f, items, 1..k)
    BY <1>2
  <2> DEFINE One(g, s) == Append(g[s \ {Max(s)}],
                                 Promise!AliasAfter(ToSet(g[s \ {Max(s)}]), items[Max(s)]))
             g == [s \in SUBSET (1..(k + 1)) |->
                     IF k + 1 \in s
                     THEN Append(f[s \ {k + 1}],
                                 Promise!AliasAfter(ToSet(f[s \ {k + 1}]), items[k + 1]))
                     ELSE f[s]]
  <2>2. \A s \in SUBSET (1..(k + 1)) : k + 1 \notin s => g[s] = f[s]
    OBVIOUS
  <2>3. \A s \in SUBSET (1..(k + 1)) : k + 1 \in s =>
          g[s] = Append(f[s \ {k + 1}],
                        Promise!AliasAfter(ToSet(f[s \ {k + 1}]), items[k + 1]))
    OBVIOUS
  <2>4. g = [s \in SUBSET (1..(k + 1)) |-> g[s]]
    OBVIOUS
  <2> HIDE DEF g
  <2>5. ASSUME NEW s \in SUBSET (1..(k + 1))
        PROVE  g[s] = IF s = {} THEN << >> ELSE One(g, s)
    <3>1. CASE k + 1 \in s
      <4>1. Max(s) = k + 1
        BY <3>1, GreatestIs
      <4>2. s \ {k + 1} \in SUBSET (1..(k + 1)) /\ k + 1 \notin s \ {k + 1}
        OBVIOUS
      <4>3. g[s \ {k + 1}] = f[s \ {k + 1}]
        BY <2>2, <4>2
      <4>4. QED
        BY <2>3, <3>1, <4>1, <4>3
    <3>2. CASE k + 1 \notin s
      <4>0. \A x \in s : x \in 1..k
        BY <3>2
      <4>1. s \in SUBSET (1..k) /\ s \ {Max(s)} \in SUBSET (1..(k + 1))
        BY <4>0
      <4>2. g[s] = f[s] /\ g[s \ {Max(s)}] = f[s \ {Max(s)}]
        BY <2>2, <3>2, <4>1
      <4>3. f[s] = IF s = {} THEN << >> ELSE One(f, s)
        BY <2>1, <4>1, FoldsAt
      <4>4. QED
        BY <4>2, <4>3
    <3>3. QED
      BY <3>1, <3>2
  <2>6. Folds(g, items, 1..(k + 1))
    BY <2>4, <2>5 DEF Folds
  <2>7. QED
    BY <2>6
<1>3. n \in S
  <2> HIDE DEF S
  <2>1. 0..n \subseteq S
    BY <1>1, <1>2, CountUp
  <2>2. QED
    BY <2>1
<1>4. QED
  BY <1>3

(***************************************************************************)
(* Each name depends on the item and on the names before it.               *)
(***************************************************************************)
LEMMA NamesOneByOne ==
  ASSUME NEW items, NEW n \in Nat, DOMAIN items = 1..n
  PROVE  /\ Len(Promise!Names(items)) = n
         /\ DOMAIN Promise!Names(items) = 1..n
         /\ \A i \in 1..n :
              Promise!Names(items)[i] =
                Promise!AliasAfter({Promise!Names(items)[j] : j \in 1..(i - 1)}, items[i])
<1>1. PICK f : Folds(f, items, 1..n) /\ Promise!Names(items) = f[1..n]
  <2>1. \E f : Folds(f, items, DOMAIN items)
    BY FoldExists
  <2>2. Folds(CHOOSE f : Folds(f, items, DOMAIN items), items, DOMAIN items)
    BY <2>1
  <2>3. QED
    BY <2>2, NamesFold
<1> DEFINE name(i) == Promise!AliasAfter(ToSet(f[1..(i - 1)]), items[i])
           V == {name(i) : i \in 1..n}
<1>2. f[1..0] = << >>
  <2>1. 1..0 = {} /\ {} \in SUBSET (1..n)
    OBVIOUS
  <2>2. f[{}] = << >>
    BY <1>1, <2>1, FoldsAt
  <2>3. QED
    BY <2>1, <2>2
<1>3. ASSUME NEW k \in 1..n
      PROVE  f[1..k] = Append(f[1..(k - 1)], name(k))
  <2>1. 1..k \in SUBSET (1..n) /\ 1..k # {} /\ (1..k) \ {k} = 1..(k - 1)
    OBVIOUS
  <2>2. Max(1..k) = k
    BY GreatestIs
  <2>3. f[1..k] = Append(f[(1..k) \ {Max(1..k)}],
                         Promise!AliasAfter(ToSet(f[(1..k) \ {Max(1..k)}]), items[Max(1..k)]))
    <3>0. \A s \in SUBSET (1..n) :
            s # {} => f[s] = Append(f[s \ {Max(s)}],
                                    Promise!AliasAfter(ToSet(f[s \ {Max(s)}]), items[Max(s)]))
      <4> SUFFICES ASSUME NEW s \in SUBSET (1..n), s # {}
                   PROVE  f[s] = Append(f[s \ {Max(s)}],
                                        Promise!AliasAfter(ToSet(f[s \ {Max(s)}]), items[Max(s)]))
        OBVIOUS
      <4>1. f[s] = IF s = {} THEN << >>
                   ELSE Append(f[s \ {Max(s)}],
                               Promise!AliasAfter(ToSet(f[s \ {Max(s)}]), items[Max(s)]))
        <5>1. Folds(f, items, 1..n)
          BY <1>1
        <5>2. QED
          BY ONLY <5>1, n \in Nat, s \in SUBSET (1..n), FoldsAt
      <4>2. QED
        BY <4>1
    <3>1. f[1..k] = Append(f[(1..k) \ {Max(1..k)}],
                           Promise!AliasAfter(ToSet(f[(1..k) \ {Max(1..k)}]), items[Max(1..k)]))
      BY <2>1, <3>0, Zenon
    <3>2. QED
      BY <2>1, <3>1
  <2>4. QED
    BY <2>1, <2>2, <2>3
<1> DEFINE S == {k \in Nat : /\ f[1..k] \in Seq(V) /\ Len(f[1..k]) = k
                             /\ \A i \in 1..k : f[1..k][i] = name(i)}
<1>4. \A i \in 1..n : name(i) \in V
  OBVIOUS
<1> HIDE DEF name, V
<1>5. 0 \in S
  <2>1. << >> \in Seq(V) /\ Len(<< >>) = 0 /\ \A i \in 1..0 : << >>[i] = name(i)
    OBVIOUS
  <2>2. QED
    BY <1>2, <2>1
<1>6. ASSUME NEW k \in Nat, k < n, k \in S
      PROVE  k + 1 \in S
  <2>1. k + 1 \in 1..n /\ (k + 1) - 1 = k
    BY <1>6
  <2>2. f[1..(k + 1)] = Append(f[1..k], name(k + 1)) /\ name(k + 1) \in V
    BY <1>3, <1>4, <2>1
  <2>3. f[1..k] \in Seq(V) /\ Len(f[1..k]) = k /\ \A i \in 1..k : f[1..k][i] = name(i)
    BY <1>6
  <2>4. /\ f[1..(k + 1)] \in Seq(V) /\ Len(f[1..(k + 1)]) = k + 1
        /\ \A i \in 1..(k + 1) : f[1..(k + 1)][i] = name(i)
    BY <2>2, <2>3, AppendProperties
  <2>5. QED
    BY <2>4
<1>7. \A k \in 0..n : k \in S
  <2> HIDE DEF S
  <2>1. QED
    BY <1>5, <1>6, CountUp
<1>8. ASSUME NEW k \in 0..n
      PROVE  /\ Len(f[1..k]) = k /\ DOMAIN f[1..k] = 1..k
             /\ \A i \in 1..k : f[1..k][i] = name(i)
  BY <1>7
<1> HIDE DEF S
<1>9. ASSUME NEW i \in 1..n
      PROVE  ToSet(f[1..(i - 1)]) = {f[1..n][j] : j \in 1..(i - 1)}
  <2>1. i - 1 \in 0..n /\ n \in 0..n
    OBVIOUS
  <2>2. \A j \in 1..(i - 1) : f[1..(i - 1)][j] = f[1..n][j]
    BY <1>8, <2>1
  <2>3. ToSet(f[1..(i - 1)]) = {f[1..(i - 1)][j] : j \in 1..(i - 1)}
    BY <1>8, <2>1 DEF ToSet
  <2>4. QED
    BY <2>2, <2>3
<1>10. \A i \in 1..n : f[1..n][i] = Promise!AliasAfter({f[1..n][j] : j \in 1..(i - 1)}, items[i])
  <2> SUFFICES ASSUME NEW i \in 1..n
               PROVE  f[1..n][i] = Promise!AliasAfter({f[1..n][j] : j \in 1..(i - 1)}, items[i])
    OBVIOUS
  <2>1. f[1..n][i] = Promise!AliasAfter(ToSet(f[1..(i - 1)]), items[i])
    BY <1>8 DEF name
  <2>2. QED
    BY <1>9, <2>1
<1>11. QED
  BY <1>1, <1>8, <1>10

-----------------------------------------------------------------------------
(***************************************************************************)
(* DocumentPlan has its own copies of the library's operators.             *)
(***************************************************************************)
LEMMA SameCardinality == ASSUME NEW S PROVE Promise!Cardinality(S) = Cardinality(S)
  BY DEF Promise!Cardinality, Cardinality

LEMMA SameFlattenSeq == ASSUME NEW ss PROVE Promise!FlattenSeq(ss) = FlattenSeq(ss)
  BY DEF Promise!FlattenSeq, FlattenSeq

LEMMA SameDefaultAlias == ASSUME NEW item PROVE Promise!DefaultAlias(item) = DefaultAlias(item)
  BY SameFlattenSeq DEF Promise!DefaultAlias, DefaultAlias

LEMMA SameDepth == Promise!NormalizedMaxRelationshipDepth = NormalizedMaxRelationshipDepth
  BY DEF Promise!NormalizedMaxRelationshipDepth, NormalizedMaxRelationshipDepth,
         Promise!DefaultMaxRelationshipDepth, DefaultMaxRelationshipDepth

-----------------------------------------------------------------------------
(***************************************************************************)
(* Mentions.  The places of a document that ask for a join, and the path   *)
(* each of them asks for.                                                  *)
(***************************************************************************)
IsHop(doc, h) ==
  /\ h \in Nat \X Nat \X Nat
  /\ h[1] \in DOMAIN doc
  /\ h[2] \in DOMAIN doc[h[1]].refs
  /\ h[3] \in 1..Len(doc[h[1]].refs[h[2]].chain)

PathIn(doc, h) == SubSeq(doc[h[1]].refs[h[2]].chain, 1, h[3])

FirstIn(doc, walked, a) ==
  \A o \in walked : PathIn(doc, o) = PathIn(doc, a) => ~Promise!Before(o, a)

(***************************************************************************)
(* A list of paths holds the paths of the hops walked, in the order of     *)
(* their first mentions.                                                   *)
(***************************************************************************)
Mentioned(doc, walked, paths) ==
  /\ \A a \in walked : \E k \in DOMAIN paths : paths[k] = PathIn(doc, a)
  /\ \A k \in DOMAIN paths : \E a \in walked : PathIn(doc, a) = paths[k] /\ FirstIn(doc, walked, a)
  /\ \A j, k \in DOMAIN paths : \A a, b \in walked :
       /\ j < k
       /\ PathIn(doc, a) = paths[j] /\ FirstIn(doc, walked, a)
       /\ PathIn(doc, b) = paths[k] /\ FirstIn(doc, walked, b)
       => Promise!Before(a, b)

LEMMA BeforeIsStrict ==
  ASSUME NEW a \in Nat \X Nat \X Nat, NEW b \in Nat \X Nat \X Nat, Promise!Before(a, b)
  PROVE  ~Promise!Before(b, a) /\ a # b
  BY DEF Promise!Before

LEMMA MentionMore ==
  ASSUME NEW doc, NEW walked \in SUBSET (Nat \X Nat \X Nat), NEW h \in Nat \X Nat \X Nat,
         \A a \in walked : Promise!Before(a, h),
         NEW paths \in Seq(Path), PathIn(doc, h) \in Path, Mentioned(doc, walked, paths)
  PROVE  LET more == IF \E k \in DOMAIN paths : paths[k] = PathIn(doc, h)
                     THEN paths ELSE Append(paths, PathIn(doc, h))
         IN  Mentioned(doc, walked \cup {h}, more)
<1> DEFINE p == PathIn(doc, h)
           W == walked \cup {h}
<1>1. \A a \in walked : ~Promise!Before(h, a) /\ a # h
  BY BeforeIsStrict
<1>2. ~Promise!Before(h, h)
  BY BeforeIsStrict
<1>3. \A a \in walked : FirstIn(doc, W, a) <=> FirstIn(doc, walked, a)
  BY <1>1 DEF FirstIn
<1>4. CASE \E k \in DOMAIN paths : paths[k] = p
  <2>1. ~FirstIn(doc, W, h)
    <3>1. PICK k \in DOMAIN paths : paths[k] = p
      BY <1>4
    <3>2. PICK a \in walked : PathIn(doc, a) = p
      BY <3>1 DEF Mentioned
    <3>3. QED
      BY <3>2 DEF FirstIn
  <2>2. Mentioned(doc, W, paths)
    <3>1. \A a \in W : \E k \in DOMAIN paths : paths[k] = PathIn(doc, a)
      BY <1>4 DEF Mentioned
    <3>2. \A k \in DOMAIN paths : \E a \in W : PathIn(doc, a) = paths[k] /\ FirstIn(doc, W, a)
      BY <1>3 DEF Mentioned
    <3>3. \A j, k \in DOMAIN paths : \A a, b \in W :
            /\ j < k
            /\ PathIn(doc, a) = paths[j] /\ FirstIn(doc, W, a)
            /\ PathIn(doc, b) = paths[k] /\ FirstIn(doc, W, b)
            => Promise!Before(a, b)
      BY <1>3, <2>1 DEF Mentioned
    <3>4. QED
      BY <3>1, <3>2, <3>3 DEF Mentioned
  <2>3. QED
    BY <1>4, <2>2
<1>5. CASE ~\E k \in DOMAIN paths : paths[k] = p
  <2> DEFINE more == Append(paths, p)
             n == Len(paths)
  <2>1. /\ n \in Nat /\ DOMAIN paths = 1..n /\ DOMAIN more = 1..(n + 1)
        /\ \A k \in 1..n : more[k] = paths[k]
        /\ more[n + 1] = p
    BY AppendProperties
  <2> HIDE DEF more, n
  <2>2. \A a \in walked : PathIn(doc, a) # p
    BY <1>5 DEF Mentioned
  <2>3. FirstIn(doc, W, h)
    BY <1>2, <2>2 DEF FirstIn
  <2>4. \A a \in W : \E k \in DOMAIN more : more[k] = PathIn(doc, a)
    <3> SUFFICES ASSUME NEW a \in W PROVE \E k \in DOMAIN more : more[k] = PathIn(doc, a)
      OBVIOUS
    <3>1. CASE a = h
      BY <2>1, <3>1
    <3>2. CASE a \in walked
      <4>1. PICK k \in 1..n : paths[k] = PathIn(doc, a)
        BY <2>1, <3>2 DEF Mentioned
      <4>2. QED
        BY <2>1, <4>1
    <3>3. QED
      BY <3>1, <3>2
  <2>5. \A k \in DOMAIN more : \E a \in W : PathIn(doc, a) = more[k] /\ FirstIn(doc, W, a)
    <3> SUFFICES ASSUME NEW k \in DOMAIN more
                 PROVE  \E a \in W : PathIn(doc, a) = more[k] /\ FirstIn(doc, W, a)
      OBVIOUS
    <3>1. CASE k = n + 1
      BY <2>1, <2>3, <3>1
    <3>2. CASE k \in 1..n
      <4>1. PICK a \in walked : PathIn(doc, a) = paths[k] /\ FirstIn(doc, walked, a)
        BY <2>1, <3>2 DEF Mentioned
      <4>2. QED
        BY <1>3, <2>1, <3>2, <4>1
    <3>3. k = n + 1 \/ k \in 1..n
      BY <2>1
    <3>4. QED
      BY <3>1, <3>2, <3>3
  <2>6. ASSUME NEW j \in DOMAIN more, NEW k \in DOMAIN more, NEW a \in W, NEW b \in W, j < k,
               PathIn(doc, a) = more[j], FirstIn(doc, W, a),
               PathIn(doc, b) = more[k], FirstIn(doc, W, b)
        PROVE  Promise!Before(a, b)
    <3>1. j \in 1..n /\ more[j] = paths[j] /\ more[j] # p
      BY <1>5, <2>1, <2>6
    <3>2. a \in walked
      BY <2>6, <3>1
    <3>3. CASE b = h
      BY <3>2, <3>3
    <3>4. CASE b \in walked
      <4>1. k \in 1..n /\ more[k] = paths[k]
        BY <2>1, <2>2, <2>6, <3>4
      <4>2. QED
        BY <1>3, <2>1, <2>6, <3>1, <3>2, <3>4, <4>1 DEF Mentioned
    <3>5. QED
      BY <3>3, <3>4
  <2>7. Mentioned(doc, W, more)
    BY <2>4, <2>5, <2>6 DEF Mentioned
  <2>8. QED
    BY <1>5, <2>7 DEF more
<1>6. QED
  BY <1>4, <1>5

(***************************************************************************)
(* The hops of a document, as DocumentPlan collects them.                  *)
(***************************************************************************)
LEMMA HopsAre ==
  ASSUME document \in Seq(Item), NEW h
  PROVE  h \in Promise!Hops <=> IsHop(document, h)
<1>1. \A i \in DOMAIN document : document[i].refs \in Seq(Ref) /\ i \in Nat
  BY DEF Item
<1>2. \A i \in DOMAIN document : \A r \in DOMAIN document[i].refs :
        /\ r \in Nat
        /\ Len(document[i].refs[r].chain) \in Nat
  <2> SUFFICES ASSUME NEW i \in DOMAIN document, NEW r \in DOMAIN document[i].refs
               PROVE  r \in Nat /\ Len(document[i].refs[r].chain) \in Nat
    OBVIOUS
  <2>1. document[i].refs \in Seq(Ref)
    BY <1>1
  <2>2. r \in Nat /\ document[i].refs[r] \in Ref
    BY <2>1
  <2>3. QED
    BY <2>2 DEF Ref, Path
<1>3. ASSUME h \in Promise!Hops PROVE IsHop(document, h)
  <2>1. PICK i \in DOMAIN document : \E r \in DOMAIN document[i].refs :
               \E k \in 1..Len(document[i].refs[r].chain) : h = <<i, r, k>>
    BY <1>3 DEF Promise!Hops
  <2>2. PICK r \in DOMAIN document[i].refs :
               \E k \in 1..Len(document[i].refs[r].chain) : h = <<i, r, k>>
    BY <2>1
  <2>3. PICK k \in 1..Len(document[i].refs[r].chain) : h = <<i, r, k>>
    BY <2>2
  <2>4. h[1] = i /\ h[2] = r /\ h[3] = k
    BY <2>3
  <2>5. h \in Nat \X Nat \X Nat
    BY <1>1, <1>2, <2>3
  <2>6. QED
    BY <2>4, <2>5 DEF IsHop
<1>4. ASSUME IsHop(document, h) PROVE h \in Promise!Hops
  <2>1. h = <<h[1], h[2], h[3]>>
    BY <1>4 DEF IsHop
  <2>2. QED
    BY <1>4, <2>1 DEF IsHop, Promise!Hops
<1>5. QED
  BY <1>3, <1>4

(***************************************************************************)
(* A list of distinct paths in the order of their first mentions is the    *)
(* list of joins that DocumentPlan asks for.                               *)
(***************************************************************************)
LEMMA MentionedIsJoinPaths ==
  ASSUME document \in Seq(Item), NEW paths \in Seq(Path),
         \A j, k \in DOMAIN paths : paths[j] = paths[k] => j = k,
         Mentioned(document, Promise!Hops, paths)
  PROVE  Promise!JoinPaths = paths
<1> DEFINE H == Promise!Hops
           F == Promise!FirstMentions
           n == Len(paths)
<1>1. n \in Nat /\ DOMAIN paths = 1..n /\ paths = [k \in 1..n |-> paths[k]]
  OBVIOUS
<1>2. H \subseteq Nat \X Nat \X Nat
  BY HopsAre DEF IsHop
<1>3. \A a : Promise!PathOf(a) = PathIn(document, a)
  BY DEF Promise!PathOf, PathIn
<1>4. \A a : a \in F <=> a \in H /\ FirstIn(document, H, a)
  BY <1>3 DEF Promise!FirstMentions, FirstIn
<1> HIDE DEF H, F, n
<1>5. \A k \in 1..n : \E a \in F : PathIn(document, a) = paths[k]
  BY <1>1, <1>4 DEF Mentioned, H
<1> DEFINE g == [k \in 1..n |-> CHOOSE a \in F : PathIn(document, a) = paths[k]]
<1>6. \A k \in 1..n : g[k] \in F /\ PathIn(document, g[k]) = paths[k]
  BY <1>5
<1>7. g \in [1..n -> F]
  BY <1>6
<1> HIDE DEF g
<1>8. \A j, k \in 1..n : j < k => Promise!Before(g[j], g[k])
  BY <1>1, <1>4, <1>6 DEF Mentioned, H
<1>9. ASSUME NEW a \in F PROVE \E k \in 1..n : a = g[k]
  <2>1. PICK k \in 1..n : paths[k] = PathIn(document, a)
    BY <1>1, <1>4 DEF Mentioned, H
  <2>2. a = g[k]
    <3>1. PathIn(document, g[k]) = PathIn(document, a) /\ g[k] \in F
      BY <1>6, <2>1
    <3>2. ~Promise!Before(a, g[k]) /\ ~Promise!Before(g[k], a)
      BY <1>4, <3>1 DEF FirstIn
    <3>3. a \in Nat \X Nat \X Nat /\ g[k] \in Nat \X Nat \X Nat
      BY <1>2, <1>4, <3>1
    <3>4. a[1] = g[k][1] /\ a[2] = g[k][2] /\ a[3] = g[k][3]
      BY <3>2, <3>3 DEF Promise!Before
    <3>5. QED
      BY <3>3, <3>4
  <2>3. QED
    BY <2>2
<1>10. \A j, k \in 1..n : Promise!Before(g[j], g[k]) <=> j < k
  <2> SUFFICES ASSUME NEW j \in 1..n, NEW k \in 1..n, Promise!Before(g[j], g[k]), ~(j < k)
               PROVE  FALSE
    BY <1>8
  <2>1. g[j] \in Nat \X Nat \X Nat /\ g[k] \in Nat \X Nat \X Nat
    BY <1>2, <1>4, <1>6
  <2>2. ~Promise!Before(g[k], g[j]) /\ g[j] # g[k]
    BY <2>1, BeforeIsStrict
  <2>3. j = k \/ k < j
    OBVIOUS
  <2>4. QED
    BY <1>8, <2>2, <2>3
<1>11. \A j, k \in 1..n : g[j] = g[k] => j = k
  BY <1>1, <1>6
<1>12. Cardinality(F) = n
  <2>1. g \in Bijection(1..n, F)
    BY <1>7, <1>9, <1>11 DEF Bijection, Injection, Surjection, IsInjective
  <2>2. QED
    BY <1>1, <2>1, FS_CountingElements DEF ExistsBijection
<1>13. ASSUME NEW k \in 1..n PROVE Promise!Rank(g[k]) = k
  <2> DEFINE B == {a \in F : Promise!Before(a, g[k])}
             b == [j \in 1..(k - 1) |-> g[j]]
  <2>1. b \in Bijection(1..(k - 1), B)
    <3>1. \A j \in 1..(k - 1) : j \in 1..n /\ j < k
      BY <1>1
    <3>2. b \in [1..(k - 1) -> B]
      BY <1>6, <1>10, <3>1
    <3>3. \A i, j \in 1..(k - 1) : b[i] = b[j] => i = j
      BY <1>11, <3>1
    <3>4. \A a \in B : \E j \in 1..(k - 1) : b[j] = a
      <4> SUFFICES ASSUME NEW a \in F, Promise!Before(a, g[k])
                   PROVE  \E j \in 1..(k - 1) : b[j] = a
        OBVIOUS
      <4>1. PICK j \in 1..n : a = g[j]
        BY <1>9
      <4>2. j \in 1..(k - 1)
        BY <1>10, <4>1
      <4>3. QED
        BY <4>1, <4>2
    <3> HIDE DEF b, B
    <3>5. QED
      BY <3>2, <3>3, <3>4 DEF Bijection, Injection, Surjection, IsInjective
  <2>2. k - 1 \in Nat
    OBVIOUS
  <2>3. Cardinality(B) = k - 1
    <3> HIDE DEF b, B
    <3>1. QED
      BY <2>1, <2>2, FS_CountingElements DEF ExistsBijection
  <2>4. Promise!Rank(g[k]) = Promise!Cardinality(B) + 1
    BY DEF Promise!Rank, F
  <2> HIDE DEF B
  <2>5. QED
    BY <2>3, <2>4, SameCardinality
<1>14. \A k \in 1..n : (CHOOSE a \in F : Promise!Rank(a) = k) = g[k]
  <2> SUFFICES ASSUME NEW k \in 1..n
               PROVE  (CHOOSE a \in F : Promise!Rank(a) = k) = g[k]
    OBVIOUS
  <2>1. g[k] \in F /\ Promise!Rank(g[k]) = k
    BY <1>6, <1>13
  <2>2. \A a \in F : Promise!Rank(a) = k => a = g[k]
    BY <1>9, <1>13
  <2>3. QED
    BY <2>1, <2>2
<1>15. Promise!JoinPaths = [k \in 1..n |-> paths[k]]
  <2>1. Promise!JoinPaths =
          [k \in 1..n |-> Promise!PathOf(CHOOSE a \in F : Promise!Rank(a) = k)]
    BY <1>12, SameCardinality DEF Promise!JoinPaths, F
  <2>2. \A k \in 1..n : Promise!PathOf(CHOOSE a \in F : Promise!Rank(a) = k) = paths[k]
    BY <1>3, <1>6, <1>14
  <2>3. QED
    BY <2>1, <2>2
<1>16. QED
  BY <1>1, <1>15
-----------------------------------------------------------------------------
(***************************************************************************)
(* The kinds of step of the lowerer: it gives up, begins a reference,      *)
(* joins a hop, resolves a reference, adds a field, tries the next suffix, *)
(* or renders.                                                             *)
(***************************************************************************)
GivesUp ==
  /\ pc \in {"expr", "path"}
  /\ pc' = "failed"
  /\ UNCHANGED <<document, formula, field, refs, lowererVars, suffix, fields, query>>

Begins ==
  /\ pc = "expr"
  /\ ~AllRefsLowered
  /\ Len(CurrentRef.chain) <= NormalizedMaxRelationshipDepth
  /\ pc' = "path"
  /\ hop' = 0
  /\ table' = BaseTable
  /\ UNCHANGED <<document, formula, field, refs, lowererVars, suffix, fields, query>>

Adds(alias) ==
  /\ pc = "expr"
  /\ AllRefsLowered
  /\ CurrentItem.wellTyped
  /\ AddField(alias)
  /\ UNCHANGED <<document, formula, hop, table, lowererVars, query>>

Counts ==
  /\ AliasChoice(FALSE)
  /\ \/ suffix = 0 /\ DefaultAlias(CurrentItem) \in UsedAliases /\ suffix' = 2
     \/ suffix > 0 /\ Candidate \in UsedAliases /\ suffix' = suffix + 1
  /\ UNCHANGED <<pc, field, refs, fields>>

(***************************************************************************)
(* The alias of the field that a step adds.                                *)
(***************************************************************************)
Chosen(alias) ==
  \/ formula /\ alias = <<ResultWord>>
  \/ /\ ~formula
     /\ \/ CurrentItem.alias # NoAlias /\ alias = CurrentItem.alias
        \/ /\ CurrentItem.alias = NoAlias
           /\ \/ suffix = 0 /\ alias = DefaultAlias(CurrentItem)
              \/ suffix > 0 /\ alias = Candidate
     /\ alias \notin UsedAliases

LEMMA StepKinds ==
  ASSUME TypeInv, [Next]_vars
  PROVE  \/ GivesUp \/ Begins \/ JoinHop \/ ResolveField
         \/ \E alias : Adds(alias) /\ Chosen(alias)
         \/ Counts \/ Render \/ UNCHANGED vars
<1>1. CASE BeginReference
  <2>1. CASE Len(CurrentRef.chain) > NormalizedMaxRelationshipDepth
    BY <1>1, <2>1 DEF BeginReference, Fail, GivesUp
  <2>2. CASE ~(Len(CurrentRef.chain) > NormalizedMaxRelationshipDepth)
    <3>1. Len(CurrentRef.chain) <= NormalizedMaxRelationshipDepth
      BY <1>1, <2>2, DepthAssumption, CurrentItemType, CurrentRefType
         DEF BeginReference, NormalizedMaxRelationshipDepth, DefaultMaxRelationshipDepth,
             TypeInv, TypeOK, Position, AllRefsLowered, Ref, Path
    <3>2. QED
      BY <1>1, <2>2, <3>1 DEF BeginReference, Begins
  <2>3. QED
    BY <2>1, <2>2
<1>2. CASE UnknownRelationship \/ UnknownField \/ TypeError \/ DuplicateOutputAlias
  BY <1>2 DEF UnknownRelationship, UnknownField, TypeError, DuplicateOutputAlias, AliasChoice,
              Fail, GivesUp
<1>3. CASE SelectExplicitAlias
  <2>1. Adds(CurrentItem.alias) /\ Chosen(CurrentItem.alias)
    BY <1>3 DEF SelectExplicitAlias, AliasChoice, Adds, Chosen
  <2>2. QED
    BY <2>1
<1>4. CASE SelectDefaultAlias
  <2>1. Adds(DefaultAlias(CurrentItem)) /\ Chosen(DefaultAlias(CurrentItem))
    BY <1>4 DEF SelectDefaultAlias, AliasChoice, Adds, Chosen
  <2>2. QED
    BY <2>1
<1>5. CASE SelectSuffixedAlias
  <2>1. Adds(Candidate) /\ Chosen(Candidate)
    BY <1>5 DEF SelectSuffixedAlias, AliasChoice, Adds, Chosen
  <2>2. QED
    BY <2>1
<1>6. CASE FinishFormula
  <2>1. Adds(<<ResultWord>>) /\ Chosen(<<ResultWord>>)
    BY <1>6 DEF FinishFormula, Adds, Chosen
  <2>2. QED
    BY <2>1
<1>7. CASE DefaultAliasTaken \/ NextSuffix
  BY <1>7 DEF DefaultAliasTaken, NextSuffix, Counts
<1>8. QED
  BY <1>1, <1>2, <1>3, <1>4, <1>5, <1>6, <1>7 DEF Next

-----------------------------------------------------------------------------
(***************************************************************************)
(* What is behind the lowerer resolves: the items it has finished, the     *)
(* references of the current one, and the hops of the current chain.       *)
(***************************************************************************)
Sound(item) ==
  item.wellTyped /\ \A r \in DOMAIN item.refs : Promise!Resolves(item.refs[r])

BehindResolves ==
  pc # "failed" =>
    /\ \A i \in DOMAIN document : i < field => Sound(document[i])
    /\ pc \in {"expr", "path"} =>
         \A r \in DOMAIN CurrentItem.refs : r <= Len(refs) => Promise!Resolves(CurrentItem.refs[r])
    /\ pc = "path" => /\ Len(CurrentRef.chain) <= NormalizedMaxRelationshipDepth
                      /\ Promise!LeadsTo(SubSeq(CurrentRef.chain, 1, hop), table)
    /\ pc \in {"planned", "rendered"} => field = Len(document) + 1

LEMMA WholeChain ==
  ASSUME NEW chain \in Path
  PROVE  SubSeq(chain, 1, Len(chain)) = chain /\ SubSeq(chain, 1, 0) = << >>
<1>1. chain \in Seq(Name) /\ Len(chain) \in Nat
  BY DEF Path
<1>2. SubSeq(chain, 1, Len(chain)) \in Seq(Name) /\ Len(SubSeq(chain, 1, Len(chain))) = Len(chain)
  BY <1>1, SubSeqProperties
<1>3. \A i \in 1..Len(chain) : SubSeq(chain, 1, Len(chain))[i] = chain[i]
  BY <1>1, SubSeqProperties
<1>4. SubSeq(chain, 1, Len(chain)) = chain
  BY <1>1, <1>2, <1>3, SeqEqual
<1>5. SubSeq(chain, 1, 0) = << >>
  BY <1>1, SubSeqProperties
<1>6. QED
  BY <1>4, <1>5

LEMMA ResolveFieldResolves ==
  ASSUME TypeInv, BehindResolves, ResolveField
  PROVE  Promise!Resolves(CurrentRef)
<1>1. CurrentRef \in Ref
  BY CurrentRefType DEF TypeInv, Position, ResolveField
<1>2. CurrentRef.chain \in Path
  BY <1>1 DEF Ref
<1>3. Promise!LeadsTo(CurrentRef.chain, table)
  BY <1>2, WholeChain DEF BehindResolves, ResolveField
<1>4. Len(CurrentRef.chain) <= NormalizedMaxRelationshipDepth
  BY DEF BehindResolves, ResolveField
<1>5. QED
  BY <1>3, <1>4, SameDepth DEF Promise!Resolves, ResolveField, TypeInv, TypeOK

LEMMA InitBehindResolves == Init => BehindResolves
<1> SUFFICES ASSUME Init PROVE BehindResolves
  OBVIOUS
<1>1. TypeInv
  BY InitTypeInv
<1>2. \A i \in DOMAIN document : ~(i < field)
  BY DocumentsAssumption DEF Init
<1>3. CurrentItem.refs \in Seq(Ref)
  BY <1>1, CurrentItemType DEF Init, TypeInv
<1>4. \A r \in DOMAIN CurrentItem.refs : ~(r <= Len(refs))
  BY <1>3 DEF Init
<1>5. QED
  BY <1>2, <1>4 DEF Init, BehindResolves

LEMMA BehindResolvesStep ==
  TypeInv /\ BehindResolves /\ [Next]_vars => BehindResolves'
<1> SUFFICES ASSUME TypeInv, BehindResolves, [Next]_vars PROVE BehindResolves'
  OBVIOUS
<1>0. document \in Seq(Item) /\ field \in 1..(Len(document) + 1)
  BY DocumentsAssumption DEF TypeInv, TypeOK
<1>1. CASE GivesUp
  BY <1>1 DEF GivesUp, BehindResolves
<1>2. CASE Begins
  <2>1. CurrentItem' = CurrentItem /\ CurrentRef' = CurrentRef
    BY <1>2 DEF Begins, CurrentItem, CurrentRef
  <2>2. CurrentRef \in Ref
    <3>1. CurrentItem.refs \in Seq(Ref)
      BY <1>2, CurrentItemType DEF Begins, TypeInv
    <3>2. QED
      BY <1>2, <3>1, CurrentRefType DEF Begins, TypeInv, TypeOK, Position, AllRefsLowered
  <2>3. SubSeq(CurrentRef.chain, 1, 0) = << >>
    BY <2>2, WholeChain DEF Ref
  <2>4. Promise!LeadsTo(SubSeq(CurrentRef'.chain, 1, hop'), table')
    BY <1>2, <2>1, <2>3, LeadsNowhere DEF Begins
  <2>5. QED
    BY <1>2, <2>1, <2>4 DEF Begins, BehindResolves
<1>3. CASE JoinHop
  <2>1. CurrentItem' = CurrentItem /\ CurrentRef' = CurrentRef
    BY <1>3 DEF JoinHop, CurrentItem, CurrentRef
  <2>2. CurrentRef.chain \in Path /\ hop + 1 \in 1..Len(CurrentRef.chain) /\ hop \in Nat
    BY <1>3, HopType DEF Path, TypeInv, TypeOK
  <2>3. Promise!LeadsTo(SubSeq(CurrentRef.chain, 1, hop), table)
    BY <1>3 DEF BehindResolves, JoinHop
  <2>4. Promise!LeadsTo(SubSeq(CurrentRef.chain, 1, hop + 1), Relationship[HopKey].to)
    BY <1>3, <2>2, <2>3, LeadsOn DEF JoinHop, HopKey
  <2>5. QED
    BY <1>3, <2>1, <2>4 DEF JoinHop, BehindResolves
<1>4. CASE ResolveField
  <2>1. CurrentItem' = CurrentItem
    BY <1>4 DEF ResolveField, CurrentItem
  <2>2. CurrentItem.refs \in Seq(Ref) /\ refs \in Seq(FieldRef) /\ Len(refs') = Len(refs) + 1
    BY <1>4, CurrentItemType DEF ResolveField, TypeInv, TypeOK
  <2>3. Promise!Resolves(CurrentItem.refs[Len(refs) + 1])
    BY <1>4, ResolveFieldResolves DEF CurrentRef
  <2>4. \A r \in DOMAIN CurrentItem.refs : r <= Len(refs) + 1 => Promise!Resolves(CurrentItem.refs[r])
    <3>1. \A r \in DOMAIN CurrentItem.refs : r <= Len(refs) + 1 => r <= Len(refs) \/ r = Len(refs) + 1
      BY <2>2
    <3>2. QED
      BY <1>4, <2>3, <3>1 DEF ResolveField, BehindResolves
  <2>5. QED
    BY <1>4, <2>1, <2>2, <2>4 DEF ResolveField, BehindResolves
<1>5. ASSUME NEW alias, Adds(alias) PROVE BehindResolves'
  <2>1. CurrentItem.refs \in Seq(Ref)
    BY <1>5, CurrentItemType DEF Adds, TypeInv
  <2>2. Sound(document[field])
    <3>1. \A r \in DOMAIN CurrentItem.refs : r <= Len(refs)
      BY <1>5, <2>1 DEF Adds, AllRefsLowered
    <3>2. QED
      BY <1>5, <3>1 DEF Adds, BehindResolves, Sound, CurrentItem
  <2>3. \A i \in DOMAIN document : i < field + 1 => Sound(document[i])
    <3>1. \A i \in DOMAIN document : i < field + 1 => i < field \/ i = field
      BY <1>0
    <3>2. QED
      BY <1>5, <2>2, <3>1 DEF Adds, BehindResolves
  <2>4. field' = field + 1 /\ document' = document /\ refs' = << >>
        /\ pc' \in {"expr", "planned"} /\ (pc' = "planned" => field = Len(document))
    BY <1>5 DEF Adds, AddField
  <2>5. ASSUME pc' = "expr" PROVE \A r \in DOMAIN CurrentItem'.refs : ~(r <= Len(refs'))
    <3>1. field' \in 1..Len(document)
      BY <1>5, <2>5, <1>0, <2>4 DEF Adds, AddField, TypeInv, TypeOK
    <3>2. CurrentItem'.refs \in Seq(Ref)
      BY <1>0, <2>4, <3>1 DEF CurrentItem, Item
    <3>3. QED
      BY <2>4, <3>2
  <2>6. QED
    BY <2>3, <2>4, <2>5 DEF BehindResolves, Sound
<1>6. CASE Counts
  <2>1. CurrentItem' = CurrentItem
    BY <1>6 DEF Counts, AliasChoice, CurrentItem
  <2>2. QED
    BY <1>6, <2>1 DEF Counts, AliasChoice, BehindResolves
<1>7. CASE Render
  BY <1>7 DEF Render, BehindResolves
<1>8. CASE UNCHANGED vars
  BY <1>8 DEF vars, BehindResolves, CurrentItem, CurrentRef
<1>9. QED
  BY <1>1, <1>2, <1>3, <1>4, <1>5, <1>6, <1>7, <1>8, StepKinds

-----------------------------------------------------------------------------
(***************************************************************************)
(* The fields hold the references of their items as they are written, and  *)
(* the references resolved so far those of the current item.               *)
(***************************************************************************)
Written(lowered, written) ==
  /\ Len(lowered) = Len(written)
  /\ \A r \in DOMAIN written : /\ lowered[r].path = written[r].chain
                               /\ lowered[r].column = written[r].field

AsWritten ==
  /\ pc \in {"expr", "path"} =>
       \A r \in DOMAIN refs : /\ refs[r].path = CurrentItem.refs[r].chain
                              /\ refs[r].column = CurrentItem.refs[r].field
  /\ Len(fields) = field - 1
  /\ \A i \in DOMAIN fields : Written(fields[i].refs, document[i].refs)

LEMMA InitAsWritten == Init => AsWritten
  BY DEF Init, AsWritten

LEMMA AsWrittenStep == TypeInv /\ AsWritten /\ [Next]_vars => AsWritten'
<1> SUFFICES ASSUME TypeInv, AsWritten, [Next]_vars PROVE AsWritten'
  OBVIOUS
<1>0. refs \in Seq(FieldRef) /\ fields \in Seq([alias : Name, refs : Seq(FieldRef)])
  BY DEF TypeInv, TypeOK
<1>1. CASE GivesUp
  BY <1>1 DEF GivesUp, AsWritten
<1>2. CASE Begins
  BY <1>2 DEF Begins, AsWritten, CurrentItem
<1>3. CASE JoinHop
  BY <1>3 DEF JoinHop, AsWritten, CurrentItem
<1>4. CASE ResolveField
  <2> DEFINE new == [path |-> CurrentRef.chain, table |-> table, column |-> CurrentRef.field]
  <2>1. CurrentItem' = CurrentItem
    BY <1>4 DEF ResolveField, CurrentItem
  <2>2. refs' = Append(refs, new) /\ new.path = CurrentRef.chain /\ new.column = CurrentRef.field
    BY <1>4 DEF ResolveField
  <2> HIDE DEF new
  <2>3. /\ DOMAIN refs' = 1..(Len(refs) + 1)
        /\ \A r \in DOMAIN refs : refs'[r] = refs[r]
        /\ refs'[Len(refs) + 1] = new
    BY <1>0, <2>2
  <2>4. \A r \in DOMAIN refs' : r \in DOMAIN refs \/ r = Len(refs) + 1
    BY <1>0, <2>3
  <2>5. \A r \in DOMAIN refs' : /\ refs'[r].path = CurrentItem.refs[r].chain
                                /\ refs'[r].column = CurrentItem.refs[r].field
    BY <1>4, <2>2, <2>3, <2>4 DEF AsWritten, CurrentRef, ResolveField
  <2>6. QED
    BY <1>4, <2>1, <2>5 DEF ResolveField, AsWritten
<1>5. ASSUME NEW alias, Adds(alias) PROVE AsWritten'
  <2> DEFINE new == [alias |-> alias, refs |-> refs]
  <2>1. CurrentItem.refs \in Seq(Ref)
    BY <1>5, CurrentItemType DEF Adds, TypeInv
  <2>2. fields' = Append(fields, new) /\ new.refs = refs /\ field' = field + 1
        /\ document' = document /\ refs' = << >>
    BY <1>5 DEF Adds, AddField
  <2> HIDE DEF new
  <2>3. /\ DOMAIN fields' = 1..(Len(fields) + 1) /\ Len(fields') = Len(fields) + 1
        /\ \A i \in DOMAIN fields : fields'[i] = fields[i]
        /\ fields'[Len(fields) + 1] = new
    BY <1>0, <2>2
  <2>4. Len(fields) + 1 = field
    BY <1>0 DEF AsWritten, TypeInv, TypeOK
  <2>5. Written(refs, document[field].refs)
    BY <1>0, <1>5, <2>1 DEF Adds, AllRefsLowered, AsWritten, Written, CurrentItem
  <2>6. \A i \in DOMAIN fields' : i \in DOMAIN fields \/ i = field
    BY <1>0, <2>3, <2>4
  <2>7. \A i \in DOMAIN fields' : Written(fields'[i].refs, document[i].refs)
    BY <2>2, <2>3, <2>4, <2>5, <2>6 DEF AsWritten
  <2>8. Len(fields') = field' - 1
    BY <1>0, <2>2, <2>3, <2>4
  <2>9. QED
    BY <2>2, <2>7, <2>8 DEF AsWritten, Written
<1>6. CASE Counts
  BY <1>6 DEF Counts, AliasChoice, AsWritten, CurrentItem
<1>7. CASE Render
  BY <1>7 DEF Render, AsWritten, CurrentItem
<1>8. CASE UNCHANGED vars
  BY <1>8 DEF vars, AsWritten, CurrentItem
<1>9. QED
  BY <1>1, <1>2, <1>3, <1>4, <1>5, <1>6, <1>7, <1>8, StepKinds

-----------------------------------------------------------------------------
(***************************************************************************)
(* The fields have the names that DocumentPlan gives them; a counter that  *)
(* runs has found the default name and every suffix below it taken.        *)
(***************************************************************************)
SuffixesTaken ==
  suffix > 0 =>
    /\ suffix >= 2
    /\ AllRefsLowered
    /\ ~formula
    /\ CurrentItem.alias = NoAlias
    /\ DefaultAlias(CurrentItem) \in UsedAliases
    /\ \A m \in 2..(suffix - 1) : Append(DefaultAlias(CurrentItem), m) \in UsedAliases

NamesChosen ==
  /\ formula => Len(document) = 1
  /\ \A i \in DOMAIN fields :
       fields[i].alias = IF formula THEN <<ResultWord>> ELSE Promise!Names(document)[i]
  /\ SuffixesTaken

(***************************************************************************)
(* A set that holds a name and all of its suffixes below n has n - 1       *)
(* elements at least.                                                      *)
(***************************************************************************)
LEMMA SuffixesNeeded ==
  ASSUME NEW used, IsFiniteSet(used), NEW base \in Name, base \in used,
         NEW n \in Nat, n >= 2, \A m \in 2..(n - 1) : Append(base, m) \in used
  PROVE  n <= Cardinality(used) + 1
<1> DEFINE f == [k \in 1..(n - 1) |-> IF k = 1 THEN base ELSE Append(base, k)]
<1>1. f \in [1..(n - 1) -> used]
  OBVIOUS
<1>2. base \in Seq(Words \cup Nat)
  BY DEF Name
<1>3. \A k \in Nat : /\ Len(Append(base, k)) = Len(base) + 1
                     /\ Append(base, k)[Len(base) + 1] = k
  BY <1>2
<1>4. \A j, k \in 1..(n - 1) : f[j] = f[k] => j = k
  <2> SUFFICES ASSUME NEW j \in 1..(n - 1), NEW k \in 1..(n - 1), f[j] = f[k], j # k
               PROVE  FALSE
    OBVIOUS
  <2>1. Len(base) \in Nat
    BY <1>2
  <2>2. CASE j = 1
    BY <1>3, <2>1, <2>2
  <2>3. CASE k = 1
    BY <1>3, <2>1, <2>3
  <2>4. CASE j # 1 /\ k # 1
    <3>1. Append(base, j) = Append(base, k) /\ j \in Nat /\ k \in Nat
      BY <2>4
    <3>2. QED
      BY <1>3, <3>1
  <2>5. QED
    BY <2>2, <2>3, <2>4
<1> HIDE DEF f
<1>5. f \in Injection(1..(n - 1), used)
  BY <1>1, <1>4 DEF Injection, IsInjective
<1>6. IsFiniteSet(1..(n - 1)) /\ Cardinality(1..(n - 1)) = n - 1
  BY FS_Interval
<1>7. Cardinality(1..(n - 1)) <= Cardinality(used)
  BY <1>5, FS_Injection DEF ExistsInjection
<1>8. Cardinality(used) \in Nat
  BY FS_CardinalityType
<1>9. QED
  BY <1>6, <1>7, <1>8

(***************************************************************************)
(* The name a step chooses is the one DocumentPlan gives the item after    *)
(* the names that are in use.                                              *)
(***************************************************************************)
LEMMA ChosenAliasAfter ==
  ASSUME TypeInv, SuffixesTaken, pc = "expr", NEW alias, Chosen(alias), ~formula
  PROVE  alias = Promise!AliasAfter(UsedAliases, CurrentItem)
<1> DEFINE base == DefaultAlias(CurrentItem)
<1>1. Promise!DefaultAlias(CurrentItem) = base /\ base \in Name
  BY SameDefaultAlias, CurrentItemType DEF TypeInv
<1> HIDE DEF base
<1>2. CASE CurrentItem.alias # NoAlias
  BY <1>2 DEF Chosen, Promise!AliasAfter
<1>3. CASE CurrentItem.alias = NoAlias /\ suffix = 0
  <2>1. alias = base /\ base \notin UsedAliases
    BY <1>3 DEF Chosen, base, TypeInv, TypeOK
  <2>2. QED
    BY <1>1, <1>3, <2>1 DEF Promise!AliasAfter
<1>4. CASE CurrentItem.alias = NoAlias /\ suffix > 0
  <2> DEFINE Free(n) == /\ Append(base, n) \notin UsedAliases
                        /\ \A m \in 2..(n - 1) : Append(base, m) \in UsedAliases
             bound == Promise!Cardinality(UsedAliases) + 1
  <2>1. suffix \in Nat /\ suffix >= 2 /\ base \in UsedAliases
        /\ \A m \in 2..(suffix - 1) : Append(base, m) \in UsedAliases
    BY <1>4 DEF SuffixesTaken, base, TypeInv, TypeOK
  <2>2. alias = Append(base, suffix) /\ alias \notin UsedAliases
    BY <1>4 DEF Chosen, base, Candidate
  <2>3. IsFiniteSet(UsedAliases)
    <3>1. fields \in Seq([alias : Name, refs : Seq(FieldRef)])
      BY DEF TypeInv, TypeOK
    <3>2. IsFiniteSet(1..Len(fields))
      BY <3>1, FS_Interval
    <3>3. UsedAliases = {fields[i].alias : i \in 1..Len(fields)}
      BY <3>1 DEF UsedAliases
    <3> DEFINE g == [i \in 1..Len(fields) |-> fields[i].alias]
    <3>4. g \in Surjection(1..Len(fields), UsedAliases)
      BY <3>3 DEF Surjection
    <3> HIDE DEF g
    <3>5. QED
      BY <3>2, <3>4, FS_Surjection
  <2>4. suffix <= bound
    BY <1>1, <2>1, <2>3, SuffixesNeeded, SameCardinality
  <2>5. Promise!Cardinality(UsedAliases) \in Nat
    BY <2>3, FS_CardinalityType, SameCardinality
  <2>6. suffix \in 2..bound /\ Free(suffix)
    BY <2>1, <2>2, <2>4, <2>5
  <2>7. \A n \in 2..bound : Free(n) => n = suffix
    BY <2>1, <2>2, <2>5
  <2>8. (CHOOSE n \in 2..bound : Free(n)) = suffix
    BY <2>6, <2>7
  <2>9. QED
    BY <1>1, <1>4, <2>1, <2>2, <2>8 DEF Promise!AliasAfter
<1>5. QED
  BY <1>2, <1>3, <1>4 DEF TypeInv, TypeOK

LEMMA InitNamesChosen == Init => NamesChosen
  BY DEF Init, NamesChosen, SuffixesTaken

LEMMA UsedSoFar ==
  ASSUME TypeInv, AsWritten, NamesChosen, ~formula
  PROVE  UsedAliases = {Promise!Names(document)[j] : j \in 1..(field - 1)}
<1>1. DOMAIN fields = 1..(field - 1)
  BY DEF TypeInv, TypeOK, AsWritten
<1>2. \A i \in DOMAIN fields : fields[i].alias = Promise!Names(document)[i]
  BY DEF NamesChosen
<1>3. QED
  BY <1>1, <1>2 DEF UsedAliases

LEMMA NamesChosenStep ==
  TypeInv /\ AsWritten /\ NamesChosen /\ [Next]_vars => NamesChosen'
<1> SUFFICES ASSUME TypeInv, AsWritten, NamesChosen, [Next]_vars PROVE NamesChosen'
  OBVIOUS
<1> DEFINE Same == UNCHANGED <<document, formula, field, refs, fields>>
<1>1. Same => /\ CurrentItem' = CurrentItem /\ UsedAliases' = UsedAliases
              /\ AllRefsLowered' = AllRefsLowered
  BY DEF CurrentItem, UsedAliases, AllRefsLowered
<1>2. Same /\ (suffix' = suffix \/ SuffixesTaken') => NamesChosen'
  BY <1>1 DEF NamesChosen, SuffixesTaken
<1>3. CASE GivesUp \/ Begins \/ JoinHop \/ Render \/ UNCHANGED vars
  BY <1>2, <1>3 DEF GivesUp, Begins, JoinHop, Render, vars
<1>4. CASE ResolveField
  <2>1. suffix = 0
    <3>1. ~AllRefsLowered
      BY <1>4 DEF ResolveField, TypeInv, Position, AllRefsLowered, TypeOK
    <3>2. QED
      BY <3>1 DEF NamesChosen, SuffixesTaken, TypeInv, TypeOK
  <2>2. suffix' = 0 /\ UNCHANGED <<document, formula, fields>>
    BY <1>4, <2>1 DEF ResolveField
  <2>3. QED
    BY <2>2 DEF NamesChosen, SuffixesTaken
<1>5. CASE Counts
  <2>1. Same
    BY <1>5 DEF Counts, AliasChoice
  <2>2. AllRefsLowered /\ ~formula /\ CurrentItem.alias = NoAlias
    BY <1>5 DEF Counts, AliasChoice
  <2>3. CASE suffix = 0
    <3>1. suffix' = 2 /\ DefaultAlias(CurrentItem) \in UsedAliases
      BY <1>5, <2>3 DEF Counts
    <3>2. \A m \in 2..(suffix' - 1) : FALSE
      BY <3>1
    <3>3. SuffixesTaken'
      BY <1>1, <2>1, <2>2, <3>1, <3>2 DEF SuffixesTaken
    <3>4. QED
      BY <1>2, <2>1, <3>3
  <2>4. CASE suffix > 0
    <3>1. suffix' = suffix + 1 /\ Candidate \in UsedAliases
      BY <1>5, <2>4 DEF Counts
    <3>2. suffix \in Nat /\ suffix >= 2 /\ DefaultAlias(CurrentItem) \in UsedAliases
          /\ \A m \in 2..(suffix - 1) : Append(DefaultAlias(CurrentItem), m) \in UsedAliases
      BY <2>4 DEF NamesChosen, SuffixesTaken, TypeInv, TypeOK
    <3>3. \A m \in 2..(suffix' - 1) : m \in 2..(suffix - 1) \/ m = suffix
      BY <3>1, <3>2
    <3>4. \A m \in 2..(suffix' - 1) : Append(DefaultAlias(CurrentItem), m) \in UsedAliases
      BY <3>1, <3>2, <3>3 DEF Candidate
    <3>5. suffix' >= 2
      BY <3>1, <3>2
    <3>6. SuffixesTaken'
      BY <1>1, <2>1, <2>2, <3>2, <3>4, <3>5 DEF SuffixesTaken
    <3>7. QED
      BY <1>2, <2>1, <3>6
  <2>5. QED
    BY <2>3, <2>4 DEF TypeInv, TypeOK
<1>6. ASSUME NEW alias, Adds(alias), Chosen(alias) PROVE NamesChosen'
  <2> DEFINE new == [alias |-> alias, refs |-> refs]
             name == IF formula THEN <<ResultWord>> ELSE Promise!Names(document)[field]
  <2>1. fields' = Append(fields, new) /\ new.alias = alias /\ suffix' = 0
        /\ document' = document /\ formula' = formula
    BY <1>6 DEF Adds, AddField
  <2> HIDE DEF new
  <2>2. Len(fields) + 1 = field /\ fields \in Seq([alias : Name, refs : Seq(FieldRef)])
    BY DEF AsWritten, TypeInv, TypeOK
  <2>3. /\ DOMAIN fields' = 1..field
        /\ \A i \in DOMAIN fields : fields'[i] = fields[i]
        /\ fields'[field] = new
    BY <2>1, <2>2
  <2>4. alias = name
    <3>1. CASE formula
      BY <1>6, <3>1 DEF Chosen
    <3>2. CASE ~formula
      <4>1. document \in Seq(Item) /\ field \in 1..Len(document)
        BY <1>6, DocumentsAssumption DEF Adds, TypeInv, TypeOK
      <4>2. Promise!Names(document)[field] =
              Promise!AliasAfter({Promise!Names(document)[j] : j \in 1..(field - 1)}, document[field])
        <5>1. Len(document) \in Nat /\ DOMAIN document = 1..Len(document)
          BY <4>1
        <5>2. \A i \in 1..Len(document) :
                Promise!Names(document)[i] =
                  Promise!AliasAfter({Promise!Names(document)[j] : j \in 1..(i - 1)}, document[i])
          BY <5>1, NamesOneByOne
        <5>3. QED
          BY <4>1, <5>2
      <4>3. alias = Promise!AliasAfter(UsedAliases, CurrentItem)
        BY <1>6, <3>2, ChosenAliasAfter DEF Adds, NamesChosen
      <4>4. QED
        BY <3>2, <4>2, <4>3, UsedSoFar DEF CurrentItem
    <3>3. QED
      BY <3>1, <3>2
  <2>5. \A i \in DOMAIN fields' : i \in DOMAIN fields \/ i = field
    BY <2>2, <2>3
  <2>6. \A i \in DOMAIN fields' :
          fields'[i].alias = IF formula THEN <<ResultWord>> ELSE Promise!Names(document)[i]
    BY <2>1, <2>3, <2>4, <2>5 DEF NamesChosen
  <2>7. QED
    BY <2>1, <2>6 DEF NamesChosen, SuffixesTaken
<1>7. QED
  BY <1>3, <1>4, <1>5, <1>6, StepKinds

-----------------------------------------------------------------------------
(***************************************************************************)
(* The joins are the paths of the hops the lowerer has behind it, in the   *)
(* order of their first mentions; each starts where its parent leads to.   *)
(***************************************************************************)
Behind(h) ==
  /\ IsHop(document, h)
  /\ \/ h[1] < field
     \/ /\ h[1] = field
        /\ \/ h[2] <= Len(refs)
           \/ pc = "path" /\ h[2] = Len(refs) + 1 /\ h[3] <= hop

Walked == {h \in Nat \X Nat \X Nat : Behind(h)}

JoinsMentioned ==
  /\ pc # "failed" => Mentioned(document, Walked, order)
  /\ \A p \in DOMAIN joins : Promise!LeadsTo(SubSeq(p, 1, Len(p) - 1), joins[p].from)

LEMMA InitJoinsMentioned == Init => JoinsMentioned
<1> SUFFICES ASSUME Init PROVE JoinsMentioned
  OBVIOUS
<1>1. \A h \in Nat \X Nat \X Nat : ~Behind(h)
  <2> SUFFICES ASSUME NEW h \in Nat \X Nat \X Nat, Behind(h) PROVE FALSE
    OBVIOUS
  <2>1. document \in Seq(Item) /\ field = 1 /\ pc = "expr" /\ refs = << >>
    BY DocumentsAssumption DEF Init
  <2>2. h[1] \in DOMAIN document /\ h[2] \in DOMAIN document[h[1]].refs
    BY DEF Behind, IsHop
  <2>3. h[1] \in 1..Len(document) /\ document[h[1]].refs \in Seq(Ref)
    BY <2>1, <2>2 DEF Item
  <2>4. h[2] \in 1..Len(document[h[1]].refs)
    BY <2>2, <2>3
  <2>5. QED
    BY <2>1, <2>3, <2>4 DEF Behind
<1>2. Walked = {}
  BY <1>1 DEF Walked
<1>3. QED
  BY <1>2 DEF Init, JoinsMentioned, Mentioned

LEMMA SameWalked ==
  ASSUME \A h \in Nat \X Nat \X Nat : Behind(h)' <=> Behind(h)
  PROVE  Walked' = Walked
  BY DEF Walked

(***************************************************************************)
(* A hop more is behind after JoinHop, and it comes after all the others.  *)
(***************************************************************************)
LEMMA JoinHopWalked ==
  ASSUME TypeInv, JoinHop
  PROVE  LET h == <<field, Len(refs) + 1, hop + 1>>
         IN  /\ h \in Nat \X Nat \X Nat
             /\ PathIn(document, h) = SubSeq(CurrentRef.chain, 1, hop + 1)
             /\ \A a \in Walked : Promise!Before(a, h)
             /\ Walked' = Walked \cup {h}
<1> DEFINE h == <<field, Len(refs) + 1, hop + 1>>
<1>1. /\ field \in Nat /\ Len(refs) \in Nat /\ hop \in Nat /\ pc = "path" /\ pc' = "path"
      /\ hop' = hop + 1 /\ field' = field /\ refs' = refs /\ document' = document
  BY DEF TypeInv, TypeOK, JoinHop
<1>2. h \in Nat \X Nat \X Nat /\ h[1] = field /\ h[2] = Len(refs) + 1 /\ h[3] = hop + 1
  BY <1>1
<1>3. PathIn(document, h) = SubSeq(CurrentRef.chain, 1, hop + 1)
  BY <1>2 DEF PathIn, CurrentRef, CurrentItem
<1>4. IsHop(document, h)
  <2>1. document \in Seq(Item) /\ field \in DOMAIN document
    BY <1>1, DocumentsAssumption DEF TypeInv, TypeOK
  <2>2. Len(refs) + 1 \in DOMAIN CurrentItem.refs
    <3>1. CurrentItem.refs \in Seq(Ref)
      BY <1>1, CurrentItemType DEF TypeInv
    <3>2. QED
      BY <1>1, <3>1 DEF TypeInv, Position
  <2>3. hop + 1 \in 1..Len(CurrentRef.chain)
    BY HopType
  <2>4. QED
    BY <1>2, <2>1, <2>2, <2>3 DEF IsHop, CurrentItem, CurrentRef
<1> HIDE DEF h
<1>5. ASSUME NEW a \in Walked PROVE Promise!Before(a, h)
  BY <1>1, <1>2, <1>5 DEF Walked, Behind, Promise!Before
<1>6. ASSUME NEW a \in Nat \X Nat \X Nat PROVE Behind(a)' <=> Behind(a) \/ a = h
  <2>1. a = h <=> a[1] = h[1] /\ a[2] = h[2] /\ a[3] = h[3]
    BY <1>2
  <2>2. a[3] \in Nat /\ (a[3] <= hop + 1 <=> a[3] <= hop \/ a[3] = hop + 1)
    BY <1>1
  <2>3. CASE a = h
    BY <1>1, <1>2, <1>4, <2>3 DEF Behind
  <2>4. CASE a # h
    BY <1>1, <1>2, <2>1, <2>2, <2>4 DEF Behind
  <2>5. QED
    BY <2>3, <2>4
<1>7. Walked' = Walked \cup {h}
  BY <1>2, <1>6 DEF Walked
<1>8. QED
  BY <1>2, <1>3, <1>5, <1>7 DEF h

LEMMA ResolveFieldWalked ==
  ASSUME TypeInv, ResolveField
  PROVE  Walked' = Walked
<1>1. /\ field \in Nat /\ Len(refs) \in Nat /\ hop \in Nat /\ pc = "path" /\ pc' = "expr"
      /\ hop = Len(CurrentRef.chain) /\ field' = field /\ document' = document
      /\ Len(refs') = Len(refs) + 1
  BY DEF TypeInv, TypeOK, ResolveField
<1>2. ASSUME NEW a \in Nat \X Nat \X Nat PROVE Behind(a)' <=> Behind(a)
  <2>1. a[1] \in Nat /\ a[2] \in Nat /\ a[3] \in Nat
    OBVIOUS
  <2>2. a[2] <= Len(refs) + 1 <=> a[2] <= Len(refs) \/ a[2] = Len(refs) + 1
    BY <1>1, <2>1
  <2>3. IsHop(document, a) /\ a[1] = field /\ a[2] = Len(refs) + 1 => a[3] <= hop
    BY <1>1, <2>1 DEF IsHop, CurrentRef, CurrentItem
  <2>4. QED
    BY <1>1, <2>2, <2>3 DEF Behind
<1>3. QED
  BY <1>2, SameWalked

LEMMA AddsWalked ==
  ASSUME TypeInv, NEW alias, Adds(alias)
  PROVE  Walked' = Walked
<1>1. /\ field \in Nat /\ Len(refs) \in Nat /\ pc = "expr" /\ pc' \in {"expr", "planned"}
      /\ field' = field + 1 /\ document' = document /\ refs' = << >>
      /\ Len(refs) = Len(CurrentItem.refs)
  BY DEF TypeInv, TypeOK, Adds, AddField, AllRefsLowered
<1>2. document \in Seq(Item)
  BY DocumentsAssumption DEF TypeInv, TypeOK
<1>3. ASSUME NEW a \in Nat \X Nat \X Nat PROVE Behind(a)' <=> Behind(a)
  <2>1. a[1] \in Nat /\ a[2] \in Nat
    OBVIOUS
  <2>2. IsHop(document, a) => a[2] \in 1..Len(document[a[1]].refs)
    <3> SUFFICES ASSUME IsHop(document, a) PROVE a[2] \in 1..Len(document[a[1]].refs)
      OBVIOUS
    <3>1. document[a[1]].refs \in Seq(Ref)
      BY <1>2 DEF IsHop, Item
    <3>2. QED
      BY <3>1 DEF IsHop
  <2>3. IsHop(document, a) /\ a[1] = field => a[2] <= Len(refs)
    BY <1>1, <2>2 DEF CurrentItem
  <2>4. IsHop(document, a) => a[2] > 0
    BY <2>1, <2>2
  <2>5. a[1] < field + 1 <=> a[1] < field \/ a[1] = field
    BY <1>1, <2>1
  <2>6. Behind(a)' <=> IsHop(document, a) /\ a[1] < field + 1
    BY <1>1, <2>4 DEF Behind
  <2>7. Behind(a) <=> IsHop(document, a) /\ (a[1] < field \/ a[1] = field)
    BY <1>1, <2>3 DEF Behind
  <2>8. QED
    BY <2>5, <2>6, <2>7
<1>4. QED
  BY <1>3, SameWalked

LEMMA JoinsMentionedStep ==
  TypeInv /\ JoinInv /\ BehindResolves /\ JoinsMentioned /\ [Next]_vars => JoinsMentioned'
<1> SUFFICES ASSUME TypeInv, JoinInv, BehindResolves, JoinsMentioned, [Next]_vars
             PROVE  JoinsMentioned'
  OBVIOUS
<1>1. UNCHANGED lowererVars /\ document' = document /\ (pc' # "failed" => pc # "failed" /\ Walked' = Walked)
        => JoinsMentioned'
  BY DEF lowererVars, JoinsMentioned
<1>2. CASE GivesUp
  BY <1>1, <1>2 DEF GivesUp
<1>3. CASE Begins
  <2>1. \A h \in Nat \X Nat \X Nat : Behind(h)' <=> Behind(h)
    <3> SUFFICES ASSUME NEW h \in Nat \X Nat \X Nat PROVE Behind(h)' <=> Behind(h)
      OBVIOUS
    <3>1. IsHop(document, h) => h[3] > 0
      BY DEF IsHop
    <3>2. QED
      BY <1>3, <3>1 DEF Begins, Behind
  <2>2. QED
    BY <1>1, <1>3, <2>1, SameWalked DEF Begins
<1>4. CASE JoinHop
  <2> DEFINE h == <<field, Len(refs) + 1, hop + 1>>
             path == SubSeq(CurrentRef.chain, 1, hop + 1)
  <2>1. /\ h \in Nat \X Nat \X Nat /\ PathIn(document, h) = path
        /\ \A a \in Walked : Promise!Before(a, h)
        /\ Walked' = Walked \cup {h}
    BY <1>4, JoinHopWalked
  <2>2. path \in Path /\ Walked \in SUBSET (Nat \X Nat \X Nat) /\ order \in Seq(Path)
    BY <1>4, HopType DEF Walked, TypeInv, TypeOK
  <2>3. Mentioned(document, Walked, order) /\ document' = document /\ pc' = pc
        /\ AddJoin(path, table, Relationship[HopKey])
    BY <1>4 DEF JoinsMentioned, JoinHop
  <2>4. SubSeq(path, 1, Len(path) - 1) = SubSeq(CurrentRef.chain, 1, hop)
    BY <1>4, HopType, PrefixProperties DEF TypeInv, TypeOK
  <2>5. Promise!LeadsTo(SubSeq(path, 1, Len(path) - 1), table)
    BY <1>4, <2>4 DEF JoinHop, BehindResolves
  <2> HIDE DEF h, path
  <2>6. order' = IF \E k \in DOMAIN order : order[k] = path THEN order ELSE Append(order, path)
    <3>1. path \in DOMAIN joins <=> \E k \in DOMAIN order : order[k] = path
      BY DEF JoinInv, OrderListsJoins
    <3>2. QED
      BY <2>3, <3>1 DEF AddJoin, lowererVars
  <2>7. Mentioned(document, Walked', order')
    BY <2>1, <2>2, <2>3, <2>6, MentionMore
  <2>8. \A p \in DOMAIN joins' : Promise!LeadsTo(SubSeq(p, 1, Len(p) - 1), joins'[p].from)
    BY <2>3, <2>5 DEF AddJoin, lowererVars, JoinsMentioned
  <2>9. QED
    BY <2>3, <2>7, <2>8 DEF JoinsMentioned
<1>5. CASE ResolveField
  BY <1>1, <1>5, ResolveFieldWalked DEF ResolveField
<1>6. ASSUME NEW alias, Adds(alias) PROVE JoinsMentioned'
  BY <1>1, <1>6, AddsWalked DEF Adds
<1>7. CASE Counts \/ Render \/ UNCHANGED vars
  <2>1. \A h \in Nat \X Nat \X Nat : Behind(h)' <=> Behind(h)
    BY <1>7 DEF Counts, AliasChoice, Render, vars, Behind
  <2>2. QED
    BY <1>1, <1>7, <2>1, SameWalked DEF Counts, AliasChoice, Render, vars, lowererVars
<1>8. QED
  BY <1>2, <1>3, <1>4, <1>5, <1>6, <1>7, StepKinds

-----------------------------------------------------------------------------
(***************************************************************************)
(* The warnings are those of the joins, join after join.                   *)
(***************************************************************************)
DueIn(known, p) == JoinWarnings(p, Relationship[<<known[p].from, p[Len(p)]>>])

WarningsOfJoins == [k \in DOMAIN order |-> DueIn(joins, order[k])]

WarningsInOrder == warnings = FlattenSeq(WarningsOfJoins)

LEMMA WarningsOfJoinsType ==
  ASSUME TypeInv, JoinInv
  PROVE  WarningsOfJoins \in Seq(Seq(Warning)) /\ Len(WarningsOfJoins) = Len(order)
<1>1. order \in Seq(Path)
  BY DEF TypeInv, TypeOK
<1>2. \A k \in DOMAIN order : DueIn(joins, order[k]) \in Seq(Warning)
  <2> SUFFICES ASSUME NEW k \in DOMAIN order
               PROVE  DueIn(joins, order[k]) \in Seq(Warning)
    OBVIOUS
  <2>1. order[k] \in DOMAIN joins /\ order[k] \in Path
    BY <1>1 DEF JoinInv, OrderListsJoins
  <2>2. JoinedBy(order[k]) \in RelationshipRecord
    BY <2>1, RelationshipAssumption DEF JoinInv, JoinsFollowCatalog, JoinedBy
  <2>3. QED
    BY <2>1, <2>2, JoinWarningsDue DEF DueIn, JoinedBy
<1>3. QED
  BY <1>1, <1>2 DEF WarningsOfJoins

LEMMA InitWarningsInOrder == Init => WarningsInOrder
<1> SUFFICES ASSUME Init PROVE WarningsInOrder
  OBVIOUS
<1>1. Len(WarningsOfJoins) = 0
  BY DEF Init, WarningsOfJoins
<1>2. QED
  BY <1>1 DEF Init, WarningsInOrder, FlattenSeq

LEMMA WarningsInOrderStep ==
  TypeInv /\ JoinInv /\ WarningsInOrder /\ [Next]_vars => WarningsInOrder'
<1> SUFFICES ASSUME TypeInv, JoinInv, WarningsInOrder, [Next]_vars PROVE WarningsInOrder'
  OBVIOUS
<1>1. UNCHANGED lowererVars => WarningsInOrder'
  BY DEF lowererVars, WarningsInOrder, WarningsOfJoins
<1>2. CASE JoinHop
  <2> DEFINE path == SubSeq(CurrentRef.chain, 1, hop + 1)
             due == JoinWarnings(path, Relationship[HopKey])
  <2>1. AddJoin(path, table, Relationship[HopKey])
    BY <1>2 DEF JoinHop
  <2>2. CASE path \in DOMAIN joins
    BY <1>1, <2>1, <2>2 DEF AddJoin
  <2>3. CASE path \notin DOMAIN joins
    <3>1. path \in Path /\ path[Len(path)] = CurrentRef.chain[hop + 1]
          /\ Relationship[HopKey] \in RelationshipRecord
      BY <1>2, HopType, PrefixProperties DEF TypeInv, TypeOK
    <3>2. <<table, path[Len(path)]>> = HopKey
      BY <3>1 DEF HopKey
    <3>3. due \in Seq(Warning)
      BY <3>1, JoinWarningsDue
    <3>4. order \in Seq(Path) /\ \A k \in DOMAIN order : order[k] \in DOMAIN joins
      BY DEF TypeInv, TypeOK, JoinInv, OrderListsJoins
    <3> HIDE DEF path
    <3>5. /\ order' = Append(order, path) /\ warnings' = warnings \o due
          /\ joins'[path].from = table
          /\ \A p \in DOMAIN joins : joins'[p] = joins[p]
      BY <2>1, <2>3 DEF AddJoin
    <3>6. /\ DOMAIN order' = 1..(Len(order) + 1) /\ DOMAIN order = 1..Len(order)
          /\ \A k \in 1..Len(order) : order'[k] = order[k]
          /\ order'[Len(order) + 1] = path
      BY <3>1, <3>4, <3>5
    <3>7. \A k \in 1..Len(order) : DueIn(joins', order'[k]) = WarningsOfJoins[k]
      BY <3>4, <3>5, <3>6 DEF DueIn, WarningsOfJoins
    <3>8. DueIn(joins', order'[Len(order) + 1]) = due
      BY <3>2, <3>5, <3>6 DEF DueIn
    <3> HIDE DEF due
    <3>9. WarningsOfJoins' = [k \in 1..(Len(order) + 1) |-> DueIn(joins', order'[k])]
      BY <3>6 DEF WarningsOfJoins
    <3>10. WarningsOfJoins' = Append(WarningsOfJoins, due)
      <4>1. WarningsOfJoins \in Seq(Seq(Warning)) /\ Len(WarningsOfJoins) = Len(order)
        BY WarningsOfJoinsType
      <4>2. WarningsOfJoins' \in Seq(Seq(Warning)) /\ Len(WarningsOfJoins') = Len(order) + 1
        <5>1. \A k \in 1..Len(order) : WarningsOfJoins[k] \in Seq(Warning)
          BY <3>4, <4>1
        <5>2. \A k \in 1..(Len(order) + 1) : k \in 1..Len(order) \/ k = Len(order) + 1
          BY <3>4
        <5>3. \A k \in 1..(Len(order) + 1) : DueIn(joins', order'[k]) \in Seq(Warning)
          BY <3>3, <3>7, <3>8, <5>1, <5>2
        <5>4. Len(order) + 1 \in Nat
          BY <3>4
        <5>5. QED
          BY <3>9, <5>3, <5>4
      <4>3. Append(WarningsOfJoins, due) \in Seq(Seq(Warning))
            /\ Len(Append(WarningsOfJoins, due)) = Len(order) + 1
        BY <3>3, <4>1
      <4>4. \A k \in 1..(Len(order) + 1) : WarningsOfJoins'[k] = Append(WarningsOfJoins, due)[k]
        BY <3>3, <3>4, <3>7, <3>8, <3>9, <4>1
      <4>5. QED
        BY <4>2, <4>3, <4>4, SeqEqual
    <3>11. FlattenSeq(WarningsOfJoins') = FlattenSeq(WarningsOfJoins) \o due
      BY <3>3, <3>10, WarningsOfJoinsType, FlattenAppend
    <3>12. QED
      BY <3>5, <3>11 DEF WarningsInOrder
  <2>4. QED
    BY <2>2, <2>3
<1>3. CASE GivesUp \/ Begins \/ ResolveField \/ Counts \/ Render \/ UNCHANGED vars
  BY <1>1, <1>3 DEF GivesUp, Begins, ResolveField, Counts, AliasChoice, Render, vars, lowererVars
<1>4. ASSUME NEW alias, Adds(alias) PROVE WarningsInOrder'
  BY <1>1, <1>4 DEF Adds
<1>5. QED
  BY <1>2, <1>3, <1>4, StepKinds

-----------------------------------------------------------------------------
(***************************************************************************)
(* A lowering that gives up does so on a document that means nothing.      *)
(***************************************************************************)
LEMMA CurrentRefResolves ==
  ASSUME TypeInv, Promise!Meaningful, pc \in {"expr", "path"}, Len(refs) < Len(CurrentItem.refs)
  PROVE  CurrentRef \in Ref /\ CurrentRef.chain \in Path /\ Promise!Resolves(CurrentRef)
<1>1. document \in Seq(Item) /\ field \in DOMAIN document
  BY DocumentsAssumption DEF TypeInv, TypeOK
<1>2. Len(refs) + 1 \in DOMAIN CurrentItem.refs
  BY CurrentItemType DEF TypeInv, TypeOK
<1>3. CurrentRef \in Ref
  BY CurrentRefType DEF TypeInv
<1>4. Promise!Resolves(document[field].refs[Len(refs) + 1])
  BY <1>1, <1>2 DEF Promise!Meaningful, CurrentItem
<1>5. QED
  BY <1>3, <1>4 DEF Ref, CurrentRef, CurrentItem

LEMMA DuplicateMeansNothing ==
  ASSUME TypeInv, AsWritten, NamesChosen, DuplicateOutputAlias
  PROVE  ~Promise!Meaningful
<1>1. /\ ~formula /\ field \in 1..Len(document) /\ document \in Seq(Item)
      /\ CurrentItem.alias # NoAlias /\ CurrentItem.alias \in UsedAliases
  BY DocumentsAssumption DEF DuplicateOutputAlias, AliasChoice, TypeInv, TypeOK
<1>2. \A i \in 1..Len(document) :
        Promise!Names(document)[i] =
          Promise!AliasAfter({Promise!Names(document)[j] : j \in 1..(i - 1)}, document[i])
  <2>1. Len(document) \in Nat /\ DOMAIN document = 1..Len(document)
    BY <1>1
  <2>2. QED
    BY <2>1, NamesOneByOne
<1>3. Promise!Names(document)[field] = CurrentItem.alias
  <2>1. Promise!Names(document)[field] =
          Promise!AliasAfter({Promise!Names(document)[j] : j \in 1..(field - 1)}, CurrentItem)
    BY <1>1, <1>2 DEF CurrentItem
  <2>2. QED
    BY <1>1, <2>1 DEF Promise!AliasAfter
<1>4. PICK j \in 1..(field - 1) : Promise!Names(document)[j] = CurrentItem.alias
  BY <1>1, UsedSoFar
<1>5. j \in DOMAIN document /\ field \in DOMAIN document /\ j # field
  BY <1>1
<1>6. Promise!Aliases[j] = Promise!Aliases[field]
  BY <1>1, <1>3, <1>4 DEF Promise!Aliases
<1>7. QED
  BY <1>5, <1>6 DEF Promise!Meaningful

LEMMA GivesUpRightly ==
  ASSUME TypeInv, BehindResolves, AsWritten, NamesChosen, [Next]_vars,
         pc # "failed", pc' = "failed"
  PROVE  ~Promise!Meaningful
<1> SUFFICES ASSUME Promise!Meaningful PROVE FALSE
  OBVIOUS
<1>0. Len(refs) \in Nat /\ document \in Seq(Item)
  BY DocumentsAssumption DEF TypeInv, TypeOK
<1>1. CASE BeginReference
  <2>1. CurrentItem.refs \in Seq(Ref)
    BY <1>1, CurrentItemType DEF BeginReference, TypeInv
  <2>2. Len(refs) < Len(CurrentItem.refs)
    BY <1>0, <1>1, <2>1 DEF BeginReference, AllRefsLowered, TypeInv, Position
  <2>3. Promise!Resolves(CurrentRef) /\ Len(CurrentRef.chain) \in Nat
    BY <1>1, <2>2, CurrentRefResolves DEF BeginReference, Path
  <2>4. Len(CurrentRef.chain) > NormalizedMaxRelationshipDepth
    BY <1>1 DEF BeginReference
  <2>5. NormalizedMaxRelationshipDepth \in Int
    BY DepthAssumption DEF NormalizedMaxRelationshipDepth, DefaultMaxRelationshipDepth
  <2>6. QED
    BY <2>3, <2>4, <2>5, SameDepth DEF Promise!Resolves
<1>2. CASE UnknownRelationship
  <2>1. /\ pc = "path" /\ hop \in Nat /\ hop < Len(CurrentRef.chain)
        /\ HopKey \notin DOMAIN Relationship
    BY <1>2 DEF UnknownRelationship, TypeInv, TypeOK
  <2>2. CurrentRef.chain \in Path /\ Promise!Resolves(CurrentRef)
    BY <2>1, CurrentRefResolves DEF TypeInv, Position
  <2>3. Promise!LeadsTo(SubSeq(CurrentRef.chain, 1, hop), table)
    BY <2>1 DEF BehindResolves
  <2>4. PICK t \in Tables : Promise!LeadsTo(CurrentRef.chain, t)
    BY <2>2 DEF Promise!Resolves
  <2>5. hop + 1 \in 1..Len(CurrentRef.chain)
    BY <2>1, <2>2 DEF Path
  <2>6. QED
    BY <2>1, <2>2, <2>3, <2>4, <2>5, LeadsThrough DEF HopKey
<1>3. CASE UnknownField
  <2>1. pc = "path" /\ hop = Len(CurrentRef.chain) /\ CurrentRef.field \notin ColumnsOf[table]
    BY <1>3 DEF UnknownField
  <2>2. CurrentRef.chain \in Path /\ Promise!Resolves(CurrentRef)
    BY <2>1, CurrentRefResolves DEF TypeInv, Position
  <2>3. Promise!LeadsTo(CurrentRef.chain, table)
    BY <2>1, <2>2, WholeChain DEF BehindResolves
  <2>4. PICK t \in Tables : Promise!LeadsTo(CurrentRef.chain, t) /\ CurrentRef.field \in ColumnsOf[t]
    BY <2>2 DEF Promise!Resolves
  <2>5. t = table
    BY <2>2, <2>3, <2>4, LeadsToOne
  <2>6. QED
    BY <2>1, <2>4, <2>5
<1>4. CASE TypeError
  <2>1. field \in DOMAIN document /\ ~document[field].wellTyped
    BY <1>0, <1>4 DEF TypeError, CurrentItem, TypeInv, TypeOK
  <2>2. QED
    BY <2>1 DEF Promise!Meaningful
<1>5. CASE DuplicateOutputAlias
  BY <1>5, DuplicateMeansNothing
<1>6. pc' # "failed" \/ UNCHANGED pc
        \/ BeginReference \/ UnknownRelationship \/ UnknownField \/ TypeError \/ DuplicateOutputAlias
  BY DEF Next, vars, JoinHop, ResolveField, SelectExplicitAlias, SelectDefaultAlias,
         DefaultAliasTaken, SelectSuffixedAlias, NextSuffix, FinishFormula, AddField, Render
<1>7. QED
  BY <1>1, <1>2, <1>3, <1>4, <1>5, <1>6

-----------------------------------------------------------------------------
(***************************************************************************)
(* A plan that is rendered is the one the document promises.               *)
(***************************************************************************)
PlanInv ==
  /\ TypeInv
  /\ JoinInv
  /\ AliasInv
  /\ BehindResolves
  /\ AsWritten
  /\ NamesChosen
  /\ JoinsMentioned
  /\ WarningsInOrder

LEMMA PlannedMeans ==
  ASSUME PlanInv, pc = "planned"
  PROVE  /\ document \in Seq(Item)
         /\ Len(fields) = Len(document) /\ DOMAIN fields = DOMAIN document
         /\ \A i \in DOMAIN document : fields[i].alias = Promise!Aliases[i]
         /\ Promise!Meaningful
<1>1. /\ document \in Seq(Item) /\ field = Len(document) + 1
      /\ fields \in Seq([alias : Name, refs : Seq(FieldRef)])
  BY DocumentsAssumption DEF PlanInv, BehindResolves, TypeInv, TypeOK
<1>2. Len(fields) = Len(document) /\ DOMAIN fields = DOMAIN document
  BY <1>1 DEF PlanInv, AsWritten
<1>3. \A i \in DOMAIN document : fields[i].alias = Promise!Aliases[i]
  <2>1. CASE formula
    <3>1. Promise!Aliases = <<(<<ResultWord>>)>> /\ DOMAIN document = {1}
      BY <1>1, <2>1 DEF PlanInv, NamesChosen, Promise!Aliases
    <3>2. fields[1].alias = <<ResultWord>>
      BY <1>2, <2>1, <3>1 DEF PlanInv, NamesChosen
    <3>3. Promise!Aliases[1] = <<ResultWord>>
      BY <3>1
    <3>4. QED
      BY <3>1, <3>2, <3>3
  <2>2. CASE ~formula
    BY <1>2, <2>2 DEF PlanInv, NamesChosen, Promise!Aliases
  <2>3. QED
    BY <2>1, <2>2
<1>4. \A i \in DOMAIN document : Sound(document[i])
  <2>1. \A i \in DOMAIN document : i < field
    BY <1>1
  <2>2. QED
    BY <2>1 DEF PlanInv, BehindResolves
<1>5. \A i, j \in DOMAIN document : Promise!Aliases[i] = Promise!Aliases[j] => i = j
  BY <1>2, <1>3 DEF PlanInv, AliasInv, AliasesDistinct
<1>6. QED
  BY <1>1, <1>2, <1>3, <1>4, <1>5 DEF Promise!Meaningful, Sound

LEMMA PlannedJoins ==
  ASSUME PlanInv, pc = "planned"
  PROVE  /\ Promise!JoinPaths = order
         /\ \A k \in DOMAIN order :
              /\ Promise!RelationshipAt(order[k]) = JoinedBy(order[k])
              /\ joins[order[k]].to = JoinedBy(order[k]).to
<1>1. document \in Seq(Item) /\ field = Len(document) + 1 /\ order \in Seq(Path)
  BY DocumentsAssumption DEF PlanInv, BehindResolves, TypeInv, TypeOK
<1>2. Walked = Promise!Hops
  <2>1. ASSUME NEW h PROVE h \in Walked <=> h \in Promise!Hops
    <3>1. IsHop(document, h) => h \in Nat \X Nat \X Nat /\ h[1] < field
      BY <1>1 DEF IsHop
    <3>2. QED
      BY <1>1, <3>1, HopsAre DEF Walked, Behind
  <2>2. QED
    BY <2>1
<1>3. Promise!JoinPaths = order
  BY <1>1, <1>2, MentionedIsJoinPaths DEF PlanInv, JoinInv, OrderListsJoins, JoinsMentioned
<1>4. ASSUME NEW k \in DOMAIN order
      PROVE  /\ Promise!RelationshipAt(order[k]) = JoinedBy(order[k])
             /\ joins[order[k]].to = JoinedBy(order[k]).to
  <2> DEFINE p == order[k]
  <2>1. p \in DOMAIN joins /\ p \in Path /\ p # << >>
    <3>1. p \in DOMAIN joins /\ p \in Path
      BY <1>1 DEF PlanInv, JoinInv, OrderListsJoins
    <3>2. QED
      BY <3>1 DEF PlanInv, JoinInv, JoinsFollowCatalog
  <2> HIDE DEF p
  <2>2. Promise!LeadsTo(SubSeq(p, 1, Len(p) - 1), joins[p].from)
    BY <2>1 DEF PlanInv, JoinsMentioned
  <2>3. SubSeq(p, 1, Len(p) - 1) \in Path
    <3>1. p \in Seq(Name) /\ Len(p) \in Nat /\ Len(p) # 0
      BY <2>1 DEF Path
    <3>2. QED
      BY <3>1, SubSeqProperties DEF Path
  <2>4. Promise!EndOf(SubSeq(p, 1, Len(p) - 1)) = joins[p].from
    BY <2>2, <2>3, LeadsToOne
  <2>5. Promise!RelationshipAt(p) = Relationship[<<joins[p].from, p[Len(p)]>>]
    BY <2>4 DEF Promise!RelationshipAt, Promise!Front, Promise!Last
  <2>6. joins[p].to = JoinedBy(p).to
    BY <2>1 DEF PlanInv, JoinInv, JoinsFollowCatalog, JoinedBy
  <2>7. QED
    BY <2>5, <2>6 DEF JoinedBy, p
<1>5. QED
  BY <1>3, <1>4

LEMMA RendersPromise ==
  ASSUME PlanInv, Render
  PROVE  query' = Promise!Query
<1>1. pc = "planned"
  BY DEF Render
<1> DEFINE select == [i \in DOMAIN fields |->
                        [alias |-> fields[i].alias, expr |-> RenderExpr(fields[i].refs)]]
           Projection(i) == [alias |-> Promise!Aliases[i],
                             expr  |-> [r \in DOMAIN document[i].refs |->
                                          [alias  |-> document[i].refs[r].chain,
                                           column |-> document[i].refs[r].field]]]
           Clause(k) == [table  |-> Promise!RelationshipAt(Promise!JoinPaths[k]).to,
                         alias  |-> Promise!JoinPaths[k],
                         parent |-> Promise!Front(Promise!JoinPaths[k])]
<1>2. \A i \in DOMAIN document :
        [alias |-> fields[i].alias, expr |-> RenderExpr(fields[i].refs)] = Projection(i)
  <2> SUFFICES ASSUME NEW i \in DOMAIN document
               PROVE  [alias |-> fields[i].alias, expr |-> RenderExpr(fields[i].refs)]
                        = Projection(i)
    OBVIOUS
  <2>1. Written(fields[i].refs, document[i].refs) /\ fields[i].alias = Promise!Aliases[i]
    BY <1>1, PlannedMeans DEF PlanInv, AsWritten
  <2>2. document[i].refs \in Seq(Ref) /\ fields[i].refs \in Seq(FieldRef)
    <3> DEFINE F == [alias : Name, refs : Seq(FieldRef)]
    <3>1. fields \in Seq(F) /\ i \in 1..Len(fields)
      <4>1. fields \in Seq(F)
        BY DEF PlanInv, TypeInv, TypeOK
      <4>2. i \in DOMAIN fields
        BY <1>1, PlannedMeans
      <4>3. QED
        BY <4>1, <4>2
    <3>2. fields[i].refs \in Seq(FieldRef)
      <4> HIDE DEF F
      <4>1. fields[i] \in F
        BY <3>1
      <4>2. QED
        BY <4>1 DEF F
    <3>3. document[i] \in Item
      BY <1>1, PlannedMeans
    <3>4. QED
      BY <3>2, <3>3 DEF Item
  <2>3. DOMAIN fields[i].refs = DOMAIN document[i].refs
    BY <2>1, <2>2 DEF Written
  <2>4. RenderExpr(fields[i].refs) = [r \in DOMAIN document[i].refs |->
                                        [alias  |-> document[i].refs[r].chain,
                                         column |-> document[i].refs[r].field]]
    BY <2>1, <2>3 DEF RenderExpr, Written
  <2>5. QED
    BY <2>1, <2>4
<1>3. select = [i \in DOMAIN document |-> Projection(i)]
  <2>1. DOMAIN fields = DOMAIN document
    BY <1>1, PlannedMeans
  <2> HIDE DEF Projection
  <2>2. QED
    BY <1>2, <2>1
<1>4. RenderJoinClauses = [k \in DOMAIN Promise!JoinPaths |-> Clause(k)]
  <2>1. Promise!JoinPaths = order
    BY <1>1, PlannedJoins
  <2>2. \A k \in DOMAIN order :
          [table |-> joins[order[k]].to, alias |-> order[k],
           parent |-> SubSeq(order[k], 1, Len(order[k]) - 1)] = Clause(k)
    <3> SUFFICES ASSUME NEW k \in DOMAIN order
                 PROVE  [table |-> joins[order[k]].to, alias |-> order[k],
                         parent |-> SubSeq(order[k], 1, Len(order[k]) - 1)] = Clause(k)
      OBVIOUS
    <3>1. joins[order[k]].to = Promise!RelationshipAt(order[k]).to
      BY <1>1, PlannedJoins
    <3>2. QED
      BY <2>1, <3>1 DEF Promise!Front
  <2> HIDE DEF Clause
  <2>3. QED
    BY <2>1, <2>2 DEF RenderJoinClauses
<1>5. query' = [from |-> BaseTable, select |-> select, joins |-> RenderJoinClauses]
  BY DEF Render
<1>6. QED
  BY <1>3, <1>4, <1>5 DEF Promise!Query

LEMMA PromisedWarnings ==
  ASSUME PlanInv, pc = "planned"
  PROVE  warnings = Promise!Warnings
<1>1. Promise!JoinPaths = order
  BY PlannedJoins
<1>2. \A k \in DOMAIN order : Promise!WarningsAt(order[k]) = DueIn(joins, order[k])
  <2> SUFFICES ASSUME NEW k \in DOMAIN order
               PROVE  Promise!WarningsAt(order[k]) = DueIn(joins, order[k])
    OBVIOUS
  <2>1. Promise!RelationshipAt(order[k]) = JoinedBy(order[k])
    BY PlannedJoins
  <2>2. QED
    BY <2>1 DEF Promise!WarningsAt, DueIn, JoinWarnings, JoinedBy
<1>3. [k \in DOMAIN Promise!JoinPaths |-> Promise!WarningsAt(Promise!JoinPaths[k])]
        = WarningsOfJoins
  BY <1>1, <1>2 DEF WarningsOfJoins
<1>4. QED
  BY <1>3, SameFlattenSeq DEF Promise!Warnings, PlanInv, WarningsInOrder

-----------------------------------------------------------------------------
LEMMA InitPlan == Init => PlanInv /\ Promise!Init
<1> SUFFICES ASSUME Init PROVE PlanInv /\ Promise!Init
  OBVIOUS
<1>1. AliasInv
  BY DEF Init, AliasInv, AliasesDistinct, FieldPerItem
<1>2. PlanInv
  BY <1>1, InitTypeInv, InitJoinInv, InitBehindResolves, InitAsWritten, InitNamesChosen,
     InitJoinsMentioned, InitWarningsInOrder DEF PlanInv
<1>3. Outcome = [result |-> "pending"]
  BY DEF Init, Outcome
<1>4. Promise!Init
  BY <1>3 DEF Init, Promise!Init
<1>5. QED
  BY <1>2, <1>4

LEMMA PlanInvStep == PlanInv /\ [Next]_vars => PlanInv'
  BY TypeInvStep, JoinInvStep, AliasInvStep, BehindResolvesStep, AsWrittenStep, NamesChosenStep,
     JoinsMentionedStep, WarningsInOrderStep DEF PlanInv

LEMMA PlanStep ==
  ASSUME PlanInv, [Next]_vars
  PROVE  [Promise!Answer]_(Promise!planVars)
<1>0. /\ pc \in {"expr", "path", "planned", "rendered", "failed"}
      /\ UNCHANGED <<document, formula>>
  <2>1. UNCHANGED <<document, formula>>
    BY StepKinds DEF PlanInv, GivesUp, Begins, JoinHop, ResolveField, Adds, Counts, AliasChoice,
                     Render, vars
  <2>2. QED
    BY <2>1 DEF PlanInv, TypeInv, TypeOK
<1>1. CASE pc # "failed" /\ pc' = "failed"
  <2>1. ~Promise!Meaningful
    BY <1>1, GivesUpRightly DEF PlanInv
  <2>2. pc # "rendered"
    BY <1>1, StepKinds DEF PlanInv, GivesUp, Begins, JoinHop, ResolveField, Adds, Counts,
                           AliasChoice, Render, vars
  <2>3. Outcome = [result |-> "pending"] /\ Outcome' = [result |-> "error"]
    BY <1>0, <1>1, <2>2 DEF Outcome
  <2>4. QED
    BY <1>0, <2>1, <2>3 DEF Promise!Answer
<1>2. CASE Render
  <2>1. pc = "planned" /\ pc' = "rendered" /\ warnings' = warnings
    BY <1>2 DEF Render, lowererVars
  <2>2. Promise!Meaningful /\ query' = Promise!Query /\ warnings' = Promise!Warnings
    BY <1>2, <2>1, PlannedMeans, RendersPromise, PromisedWarnings
  <2>3. /\ Outcome = [result |-> "pending"]
        /\ Outcome' = [result |-> "query", query |-> query', warnings |-> warnings']
    BY <2>1 DEF Outcome
  <2>4. QED
    BY <1>0, <2>2, <2>3 DEF Promise!Answer
<1>3. CASE ~Render /\ (pc = "failed" \/ pc' # "failed")
  <2>1. \/ UNCHANGED vars
        \/ pc \in {"expr", "path", "planned"} /\ pc' \in {"expr", "path", "planned"}
    BY <1>3, StepKinds DEF PlanInv, GivesUp, Begins, JoinHop, ResolveField, Adds, AddField,
                           Counts, AliasChoice
  <2>2. Outcome' = Outcome
    BY <2>1 DEF Outcome, vars, lowererVars
  <2>3. QED
    BY <1>0, <2>2 DEF Promise!planVars
<1>4. QED
  BY <1>1, <1>2, <1>3

(***************************************************************************)
(* The lowerer and the renderer keep the promise of DocumentPlan for every *)
(* catalog, depth limit and document: they give up exactly on the          *)
(* documents that mean nothing, and otherwise render the very query, with  *)
(* its projections, joins and warnings in order, that the document stands  *)
(* for.                                                                    *)
(***************************************************************************)
THEOREM KeepsPromise == Spec => ImplementsDocumentPlan
<1>1. PlanInv /\ [Next]_vars => [Promise!Answer]_(Promise!planVars)
  BY PlanStep
<1>2. QED
  BY InitPlan, PlanInvStep, <1>1, PTL DEF Spec, ImplementsDocumentPlan, Promise!Spec
=============================================================================
