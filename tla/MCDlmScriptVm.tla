---------------------------- MODULE MCDlmScriptVm ----------------------------
(***************************************************************************)
(* DlmScriptVm for TLC.  The objects are interchangeable: no action or     *)
(* property tells one from another, and no run with several of them checks *)
(* a liveness property.                                                    *)
(***************************************************************************)
EXTENDS DlmScriptVm, TLC

VmSymmetry == Permutations(Vms)
=============================================================================
