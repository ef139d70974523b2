---------------------------- MODULE MCFactoryReset ----------------------------
(***************************************************************************)
(* FactoryReset has no parameters and finitely many states: TLC explores   *)
(* it completely, with any number of failures, power cuts and resets.      *)
(***************************************************************************)
EXTENDS FactoryReset
===============================================================================
