----------------------------- MODULE MCBindings -----------------------------
(* One variable and one function: what a stack restores to the wrong place  *)
(* shows in their values.  ev may name its variable twice.                   *)
EXTENDS Bindings, TLC

CONSTANTS var, fun

MCVarLists == {<<var>>}
MCEvLists == {<<var, var>>}
MCFunLists == {<<fun>>}
=============================================================================
