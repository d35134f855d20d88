-------------------------- MODULE GroupMembership --------------------------
(***************************************************************************)
(* What the group service promises about its stored memberships, with     *)
(* every API call a single step: who belongs to a group, in which role,   *)
(* and which group is open.  GroupService implements it with handlers     *)
(* that read, check and write in separate statements and transactions.    *)
(***************************************************************************)
CONSTANTS Users, Tenants, TenantOf, Groups, None

VARIABLES owner, status, role

Statuses == {"absent", "active", "archived"}
Roles    == {"none", "member", "admin", "owner"}    \* "none": no row

\* A new group: one owner, members of the owner's tenant.
Create(g, u, ms) ==
    /\ status[g] = "absent"
    /\ \A m \in ms : TenantOf[m] = TenantOf[u]
    /\ owner' = [owner EXCEPT ![g] = u]
    /\ status' = [status EXCEPT ![g] = "active"]
    /\ role' = [role EXCEPT ![g] =
                  [m \in Users |-> IF m = u THEN "owner"
                                   ELSE IF m \in ms THEN "member" ELSE "none"]]

\* A member joins the list or changes role; nobody becomes owner this way.
SetRole(g, u, new) ==
    /\ status[g] # "absent"
    /\ TenantOf[u] = TenantOf[owner[g]]
    /\ role' = [role EXCEPT ![g][u] = new]
    /\ UNCHANGED <<owner, status>>

\* Anybody but the owner leaves or is removed.
Remove(g, u) ==
    /\ status[g] # "absent"
    /\ u # owner[g]
    /\ role' = [role EXCEPT ![g][u] = "none"]
    /\ UNCHANGED <<owner, status>>

\* Archive or reopen.
SetStatus(g, new) ==
    /\ status[g] # "absent"
    /\ status' = [status EXCEPT ![g] = new]
    /\ UNCHANGED <<owner, role>>

Init ==
    /\ owner = [g \in Groups |-> None]
    /\ status = [g \in Groups |-> "absent"]
    /\ role = [g \in Groups |-> [u \in Users |-> "none"]]

Next ==
    \E g \in Groups :
        \/ \E u \in Users, ms \in SUBSET Users : Create(g, u, ms)
        \/ \E u \in Users, new \in {"member", "admin"} : SetRole(g, u, new)
        \/ \E u \in Users : Remove(g, u)
        \/ \E new \in {"active", "archived"} : SetStatus(g, new)

Spec == Init /\ [][Next]_<<owner, status, role>>
=============================================================================
