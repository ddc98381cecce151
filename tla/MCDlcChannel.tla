---------------------------- MODULE MCDlcChannel ----------------------------
(***************************************************************************)
(* The module TLC runs: the cfg files give the parties, the calls the      *)
(* applications make and the bounds.  The two parties have different roles *)
(* in Init (Alice offered the channel), so there is no symmetry to use.    *)
(***************************************************************************)
EXTENDS DlcChannelClaims
=============================================================================
