---------------------------- MODULE MCDceAsync ----------------------------
(***************************************************************************)
(* DceAsync for TLC; the constants are given in the cfg files.  The driver *)
(* has 8 work items; the argument about the scan tells the first, the      *)
(* second and a later one apart, so 3 show every case.                     *)
(***************************************************************************)
EXTENDS DceAsync
=============================================================================
