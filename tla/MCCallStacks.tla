---------------------------- MODULE MCCallStacks ----------------------------
(***************************************************************************)
(* Small instances of CallStacks for TLC.                                  *)
(***************************************************************************)
EXTENDS CallStacks
=============================================================================
