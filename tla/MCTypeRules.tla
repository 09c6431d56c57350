----------------------------- MODULE MCTypeRules -----------------------------
(***************************************************************************)
(* Columns of every type, the one name SUM that is no builtin, and three   *)
(* nodes at a time, which is what IF takes.                                *)
(***************************************************************************)
EXTENDS TypeRules
=============================================================================
