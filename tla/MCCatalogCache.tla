--------------------------- MODULE MCCatalogCache ---------------------------
(***************************************************************************)
(* Callers of one provider, and references to tables of one name in two    *)
(* schemas, qualified by a namespace or in the table's own name.           *)
(***************************************************************************)
EXTENDS CatalogCache, FiniteSets, TLC

MCPieces == {"public", "sales", "orders", ".", ":"}
MCFallbackNamespace == <<"public">>

TwoRefs ==
  {[namespace |-> << >>, table |-> <<"orders">>], [namespace |-> <<"sales">>, table |-> <<"orders">>]}

\* The tables sales.orders, public.orders, and orders of a schema "sales:public".
AlikeRefs ==
  {[namespace |-> <<"sales">>, table |-> <<"public", ".", "orders">>],
   [namespace |-> << >>, table |-> <<"public", ".", "orders">>],
   [namespace |-> << >>, table |-> <<"sales", ":", "public", ".", "orders">>]}

CallerSymmetry == Permutations(Callers)
=============================================================================
