------------------------------ MODULE MCSmartcar ------------------------------
(***************************************************************************)
(* Smartcar for TLC.  All of its bounds are constants, so nothing has to   *)
(* be cut off.                                                             *)
(***************************************************************************)
EXTENDS Smartcar
=============================================================================
