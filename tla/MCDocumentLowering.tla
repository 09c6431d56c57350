------------------------- MODULE MCDocumentLowering -------------------------
(***************************************************************************)
(* A catalog with a diamond (order -> rep and order -> customer -> rep)    *)
(* and a cycle (rep -> rep), and the documents of up to MaxItems items     *)
(* taken from a list in which paths share prefixes, output names collide   *)
(* and every error has an item that causes it.                             *)
(***************************************************************************)
EXTENDS DocumentLowering

CONSTANTS id, name, customer, rep, manager, result, ghost,   \* words
          orders, customers, reps,                          \* tables
          MaxItems

MCWords  == {id, name, customer, rep, manager, result, ghost}
MCTables == {orders, customers, reps}

MCColumnsOf ==
  orders    :> {<<id>>, <<customer, name>>, <<customer, name, 2>>}
  @@ customers :> {<<name>>}
  @@ reps      :> {<<name>>}

Rel(to, joinIndexed, targetIndexed) ==
  [to |-> to, joinIndexed |-> joinIndexed, targetIndexed |-> targetIndexed]

MCRelationship ==
  <<orders, <<customer>>>> :> Rel(customers, "not_indexed", "not_indexed")
  @@ <<orders, <<rep>>>>    :> Rel(reps, "indexed", "unknown")
  @@ <<customers, <<rep>>>> :> Rel(reps, "not_indexed", "indexed")
  @@ <<reps, <<manager>>>>  :> Rel(reps, "unknown", "not_indexed")

Column(n)      == [chain |-> << >>, field |-> n]
Related(c, n)  == [chain |-> c, field |-> n]
Bare(ref)      == [alias |-> NoAlias, bare |-> TRUE, refs |-> <<ref>>, wellTyped |-> TRUE]
Compound(rs)   == [alias |-> NoAlias, bare |-> FALSE, refs |-> rs, wellTyped |-> TRUE]
As(item, n)    == [item EXCEPT !.alias = n]
IllTyped(item) == [item EXCEPT !.wellTyped = FALSE]

C  == <<customer>>
R  == <<rep>>
M  == <<manager>>
N  == <<name>>

GoodItems ==
  {Bare(Column(<<customer, name>>)),          \* default alias customer_name
   Bare(Column(<<customer, name, 2>>)),       \* default alias customer_name_2
   Bare(Related(<<C>>, N)),                   \* default alias customer_name
   Bare(Related(<<C, R>>, N)),
   Bare(Related(<<R, M>>, N)),
   As(Bare(Column(<<id>>)), <<customer, name, 2>>),
   As(Compound(<<Related(<<R, M>>, N), Related(<<C, R>>, N)>>), <<result>>),
   Compound(<<Related(<<C, R, M>>, N), Column(<<id>>), Related(<<C>>, N)>>),
   Compound(<< >>)}                           \* a literal: default alias result

BadItems ==
  {IllTyped(Compound(<<Related(<<C, R>>, N), Column(<<id>>)>>)),
   Compound(<<Related(<<R>>, N), Related(<<R, M, M, M>>, N)>>),   \* too deep
   Bare(Related(<<C, M>>, N)),                                    \* no such relationship
   Bare(Column(<<ghost>>)),
   Compound(<<Related(<<R>>, <<ghost>>)>>)}

(***************************************************************************)
(* A bad item may stand anywhere; only one is needed in a document, since  *)
(* the first error ends the lowering.                                      *)
(***************************************************************************)
MCDocuments ==
  UNION {[1..n -> GoodItems] : n \in 1..MaxItems}
  \cup {<<bad>> : bad \in BadItems}
  \cup {<<good, bad>> : good \in GoodItems, bad \in BadItems}
  \cup {<<bad, good>> : good \in GoodItems, bad \in BadItems}
=============================================================================
