----------------------------- MODULE MCMucRoom -----------------------------
(* Instances of MucRoom.                                                    *)
EXTENDS MucRoom
=============================================================================
