---------------------------- MODULE MCMucHistory ----------------------------
(* Instances of MucHistory.                                                 *)
EXTENDS MucHistory
=============================================================================
