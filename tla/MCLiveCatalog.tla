---------------------------- MODULE MCLiveCatalog ----------------------------
(***************************************************************************)
(* Two schemas, public and sales, with tables orders, customers and reps   *)
(* in either.  The foreign keys: one within public, two from public to     *)
(* sales, one within sales that has the constraint name of the first, one  *)
(* from sales back to public, and one of two columns.                      *)
(***************************************************************************)
EXTENDS LiveCatalog

Id == <<"id">>
CustomerId == <<"customer", "id">>
RepId == <<"rep", "id">>
RegionId == <<"region", "id">>

MCShape ==
  [t \in {"public", "sales"} \X {"orders", "customers", "reps"} |->
     CASE t[2] = "orders" -> {Id, CustomerId, RepId, RegionId}
       [] t[2] = "customers" -> {Id, RegionId, RepId}
       [] t[2] = "reps" -> {Id, RepId, CustomerId}]

MCIndexed ==
  {<<s, n, Id>> : s \in {"public", "sales"}, n \in {"orders", "customers", "reps"}}
    \cup {<<"public", "customers", RegionId>>, <<"public", "orders", RepId>>}

ForeignKey(schema, table, name, toSchema, toTable, columns) ==
  [schema |-> schema, table |-> table, name |-> name,
   toSchema |-> toSchema, toTable |-> toTable, columns |-> columns]

CustomerOf == ForeignKey("public", "orders", "fk_customer", "public", "customers", {<<CustomerId, Id>>})
RepOf == ForeignKey("public", "orders", "fk_rep", "sales", "reps", {<<RepId, Id>>})
AgentOf == ForeignKey("public", "customers", "fk_agent", "sales", "reps", {<<RepId, Id>>})
BossOf == ForeignKey("sales", "reps", "fk_customer", "sales", "reps", {<<RepId, Id>>})
AccountOf == ForeignKey("sales", "reps", "fk_account", "public", "customers", {<<CustomerId, Id>>})
CustomerInRegion ==
  ForeignKey("public", "orders", "fk_region", "public", "customers",
             {<<CustomerId, Id>>, <<RegionId, RegionId>>})

MCForeignKeys == {CustomerOf, RepOf, AgentOf, BossOf, AccountOf}
MCForeignKeysOfTwoColumns == {CustomerInRegion}
=============================================================================
