---------------------------- MODULE MCBootstrap ----------------------------
(***************************************************************************)
(* Bootstrap for TLC: the constants get their values in the .cfg file.     *)
(***************************************************************************)
EXTENDS Bootstrap
=============================================================================
