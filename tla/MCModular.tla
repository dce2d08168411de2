------------------------------ MODULE MCModular ------------------------------
(***************************************************************************)
(* An instance of Modular for TLC, on both sides of the limit of crecip,   *)
(* with the arithmetic in C beside it.                                     *)
(***************************************************************************)
EXTENDS ArchivedModular
=============================================================================
