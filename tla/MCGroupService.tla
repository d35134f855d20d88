--------------------------- MODULE MCGroupService ---------------------------
(* Instances of GroupService: tenant t1 has the users a1, a2, t2   *)
(* has b1.                                                                 *)
EXTENDS GroupService, TLC

CONSTANTS a1, a2, b1, t1, t2

TwoTenants   == (a1 :> t1) @@ (a2 :> t1) @@ (b1 :> t2)
OneTenant    == (a1 :> t1) @@ (a2 :> t1)

\* Handlers, and the users of t1, are interchangeable.
Interchangeable == Permutations(Reqs) \cup Permutations({a1, a2})
=============================================================================
