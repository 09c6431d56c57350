---------------------------- MODULE DocumentPlan ----------------------------
(***************************************************************************)
(* What a document means, said at once: which query it stands for, or that *)
(* it stands for none.  DocumentLowering is shown to implement it.         *)
(***************************************************************************)
EXTENDS DocumentSyntax

VARIABLES document, formula, outcome

planVars == <<document, formula, outcome>>

(***************************************************************************)
(* The table a chain of relationships leads to from the base table.        *)
(***************************************************************************)
LeadsTo(chain, target) ==
  \E stops \in [0..Len(chain) -> Tables] :
    /\ stops[0] = BaseTable
    /\ stops[Len(chain)] = target
    /\ \A h \in 1..Len(chain) :
         /\ <<stops[h - 1], chain[h]>> \in DOMAIN Relationship
         /\ Relationship[<<stops[h - 1], chain[h]>>].to = stops[h]

EndOf(chain) == CHOOSE t \in Tables : LeadsTo(chain, t)

Resolves(ref) ==
  /\ Len(ref.chain) <= NormalizedMaxRelationshipDepth
  /\ \E t \in Tables : LeadsTo(ref.chain, t) /\ ref.field \in ColumnsOf[t]

(***************************************************************************)
(* A hop is a place of the document that asks for a join: hop h of the     *)
(* chain of reference r of item i.  The joins are the paths of the hops,   *)
(* in the order in which the document first mentions them.                 *)
(***************************************************************************)
Hops ==
  UNION {UNION {{<<i, r, h>> : h \in 1..Len(document[i].refs[r].chain)}
                : r \in DOMAIN document[i].refs} : i \in DOMAIN document}

PathOf(hop) == SubSeq(document[hop[1]].refs[hop[2]].chain, 1, hop[3])

Before(a, b) ==
  \/ a[1] < b[1]
  \/ a[1] = b[1] /\ a[2] < b[2]
  \/ a[1] = b[1] /\ a[2] = b[2] /\ a[3] < b[3]

FirstMentions ==
  {hop \in Hops : \A other \in Hops : PathOf(other) = PathOf(hop) => ~Before(other, hop)}

(***************************************************************************)
(* The k-th join is that of the first mention with k - 1 others before it. *)
(***************************************************************************)
Rank(hop) == Cardinality({earlier \in FirstMentions : Before(earlier, hop)}) + 1

JoinPaths ==
  [k \in 1..Cardinality(FirstMentions) |->
     PathOf(CHOOSE hop \in FirstMentions : Rank(hop) = k)]

RelationshipAt(path) == Relationship[<<EndOf(Front(path)), Last(path)>>]

(***************************************************************************)
(* The output names: an explicit alias is kept; a default one gets the     *)
(* least suffix from _2 upwards that no earlier field uses, if it needs    *)
(* one.                                                                    *)
(***************************************************************************)
AliasAfter(used, item) ==
  LET base == DefaultAlias(item)
  IN  CASE item.alias # NoAlias -> item.alias
        [] item.alias = NoAlias /\ base \notin used -> base
        [] OTHER -> Append(base, CHOOSE n \in 2..(Cardinality(used) + 1) :
                                   /\ Append(base, n) \notin used
                                   /\ \A m \in 2..(n - 1) : Append(base, m) \in used)

Names(items) ==
  FoldLeft(LAMBDA chosen, item : Append(chosen, AliasAfter(ToSet(chosen), item)), << >>, items)

Aliases == IF formula THEN <<(<<ResultWord>>)>> ELSE Names(document)

Meaningful ==
  /\ \A i \in DOMAIN document :
       /\ document[i].wellTyped
       /\ \A r \in DOMAIN document[i].refs : Resolves(document[i].refs[r])
  /\ \A i, j \in DOMAIN document : Aliases[i] = Aliases[j] => i = j

Query ==
  [from   |-> BaseTable,
   select |-> [i \in DOMAIN document |->
                 [alias |-> Aliases[i],
                  expr  |-> [r \in DOMAIN document[i].refs |->
                               [alias  |-> document[i].refs[r].chain,
                                column |-> document[i].refs[r].field]]]],
   joins  |-> [k \in DOMAIN JoinPaths |->
                 [table  |-> RelationshipAt(JoinPaths[k]).to,
                  alias  |-> JoinPaths[k],
                  parent |-> Front(JoinPaths[k])]]]

WarningsAt(path) ==
  LET about(column, indexed) ==
        IF indexed = "not_indexed" THEN <<[path |-> path, column |-> column]>> ELSE << >>
  IN  about("join", RelationshipAt(path).joinIndexed)
      \o about("target", RelationshipAt(path).targetIndexed)

Warnings == FlattenSeq([k \in DOMAIN JoinPaths |-> WarningsAt(JoinPaths[k])])

Init ==
  /\ document \in Documents
  /\ formula \in {b \in BOOLEAN : b => Len(document) = 1}
  /\ outcome = [result |-> "pending"]

Answer ==
  /\ outcome.result = "pending"
  /\ outcome'.result # "pending"
  /\ outcome' = IF Meaningful
                THEN [result |-> "query", query |-> Query, warnings |-> Warnings]
                ELSE [result |-> "error"]
  /\ UNCHANGED <<document, formula>>

Spec == Init /\ [][Answer]_planVars
=============================================================================
