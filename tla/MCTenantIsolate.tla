-------------------------- MODULE MCTenantIsolate --------------------------
(* Instances of TenantIsolate: vhosts v1, v2 with their conference and      *)
(* upload services, a room on each vhost, users of two tenants, a service.  *)
EXTENDS TenantIsolate, TLC

CONSTANTS v1, v2, c1, c2, up1, lh, x1, y1, x2, adm, s1, m1, m2, t1, t2, p1, p2, n1, n2

Conferences == (v1 :> c1) @@ (v2 :> c2) @@ [d \in {c1, c2, up1, lh} |-> None]
Others      == (v1 :> {up1}) @@ [d \in {v2, c1, c2, up1, lh} |-> {}]
Placement   == (p1 :> n1) @@ (p2 :> n2)

JidDomain == [j \in Jids |-> IF j \in {x1, y1, adm} THEN v1
                             ELSE IF j = x2 THEN v2 ELSE IF j = s1 THEN up1
                             ELSE IF j = m1 THEN c1 ELSE c2]
JidTenant == [j \in Jids |-> IF j \in {x1, x2} THEN t1
                             ELSE IF j = y1 THEN t2 ELSE None]
=============================================================================
