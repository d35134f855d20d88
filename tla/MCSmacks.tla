------------------------------ MODULE MCSmacks ------------------------------
(* Instances of Smacks: short conversations over a few connections.         *)
EXTENDS Smacks
=============================================================================
