------------------------ MODULE MCCredentialManager ------------------------
(***************************************************************************)
(* Instances of CredentialManager for TLC.                                 *)
(***************************************************************************)
EXTENDS CredentialManager, TLC

ProcSymmetry == Permutations(Procs)
=============================================================================
