---------------------------- MODULE MCSourceText ----------------------------
(***************************************************************************)
(* Files whose texts begin like a comment, over what comments and          *)
(* directives are made of; texts of tokens; and pairs of sidecars next to  *)
(* texts with a directive and without.                                     *)
(***************************************************************************)
EXTENDS SourceText, TLC

CONSTANTS
  CommentLength, TokenLength   \* bounds on the characters of a text

Param(k, v) == [key |-> k, value |-> v]
MCParameters ==
  ("@table=a" :> <<Param("table", "a")>>) @@ ("@table=b" :> <<Param("table", "b")>>) @@
  ("@base_table=b" :> <<Param("base_table", "b")>>) @@ ("@table=" :> <<Param("table", NoValue)>>) @@
  ("@" :> << >>) @@ ("@table=a,table=b" :> <<Param("table", "a"), Param("table", "b")>>) @@
  ("@base_table=b,other=x,table=a" :>
     <<Param("base_table", "b"), Param("other", "x"), Param("table", "a")>>)

MCNormalized ==
  ("table" :> "table") @@ ("Table" :> "table") @@
  ("base_table" :> "base_table") @@ ("base-table" :> "base_table")

OneSidecar(t) == Sidecar("object", [NoEntries EXCEPT !["table"] = t])
AnySidecar ==
  {Absent, Sidecar("broken", NoEntries)} \cup
  {Sidecar("object", e) : e \in [DOMAIN MCNormalized -> {"unset", "object", NoValue, "c", "d"}]}

Place(p, s1, s2) == [path |-> p, sidecars |-> <<s1, s2>>]
Default == {Place(TRUE, OneSidecar("c"), Absent)}
Everywhere ==
  {Place(p, s1, s2) : p \in BOOLEAN, s1 \in AnySidecar,
                      s2 \in {Absent, Sidecar("broken", NoEntries), OneSidecar("d")}}

Family(prefix, letters, length, places) ==
  [prefix |-> prefix, letters |-> letters, length |-> length, places |-> places]
MCFamilies ==
  {Family(<<"slash", second>>, {"slash", "star", "lf", "cr"} \cup {"@table=a", "@table=b", "@base_table=b"},
          CommentLength - 2, Default) : second \in {"slash", "star"}} \cup
  {Family(<< >>, {"letter", "digit", "dot", "quote", "backslash", "gt", "eq", "bang",
                  "plus", "slash", "star", "space", "vt", "nul", "lf"}, TokenLength, Default),
   Family(<<"slash", "slash">>, {"@table=a", "@table="}, 1, Everywhere)} \cup
  {Family(<<"slash", "slash", d, "lf", "slash", "slash">>, Directives, 1, Default) : d \in Directives}
=============================================================================
