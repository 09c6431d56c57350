-------------------------- MODULE MCLanguageServer --------------------------
(***************************************************************************)
(* Two documents, one with a path, and the texts that matter: one that     *)
(* names a table, one that leaves it to the sidecar, one that contradicts  *)
(* itself.                                                                 *)
(***************************************************************************)
EXTENDS LanguageServer

CONSTANTS file, untitled, blank, named, broken, orders, NotGiven, Malformed

MCTwoDirectives == (blank :> NotGiven) @@ (named :> orders)
MCDirective == MCTwoDirectives @@ (broken :> Malformed)
=============================================================================
