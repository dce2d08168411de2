------------------------------ MODULE MCWinkill ------------------------------
(***************************************************************************)
(* Instances of Winkill and TclWinkill for TLC: runs of winkill, and the   *)
(* extension, that signal one Maxima.                                      *)
(***************************************************************************)
EXTENDS TclWinkill

MCParties == Senders \cup Clients \cup {Server}
=============================================================================
