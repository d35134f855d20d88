---------------------------- MODULE MCRediffAuth ----------------------------
(* Instances of RediffAuth: two accounts that share a browser tab.          *)
EXTENDS RediffAuth
=============================================================================
