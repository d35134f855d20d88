-------------------------- MODULE MCManagedSidebar --------------------------
(* Instances of ManagedSidebar: two accounts that share a browser tab.      *)
EXTENDS ManagedSidebar
=============================================================================
