--------------------------- MODULE TenantIsolate ---------------------------
(***************************************************************************)
(* ejabberd/src/mod_tenant_isolate.erl: the filter_packet hook that keeps *)
(* tenants apart, the Mnesia table that binds a room to the tenant of its *)
(* first sender, and the start and stop of the module on each host.       *)
(*                                                                         *)
(* A packet is filtered by the Erlang process that routes it, so many     *)
(* filters run at once on several nodes; looking a room up and binding it *)
(* are two Mnesia transactions, and each of them may abort.               *)
(*                                                                         *)
(* Abstracted: a JID is a model value with the tenant extract_tenant finds *)
(* in its local part and a domain; Mnesia's table is one replicated value. *)
(***************************************************************************)
EXTENDS Naturals, FiniteSets

CONSTANTS
    Jids,           \* users and rooms
    Domains, Tenants,
    DomainOf, TenantOf,
    ConferenceOf,   \* "conference." d, or None
    OtherOf,        \* {"pubsub." d, "upload." d}
    Localhost,
    Nodes, Hosts,
    Procs, NodeOf,  \* routing processes and the nodes they run on
    Stoppable,      \* hosts whose module an operator may stop and start
    Aborts,         \* which transactions may abort
    None            \* undefined tenant, no binding, no domain, no JID

ASSUME JidAssumption ==
    /\ DomainOf \in [Jids -> Domains]
    /\ TenantOf \in [Jids -> Tenants \cup {None}]
    /\ ConferenceOf \in [Domains -> Domains \cup {None}]
    /\ OtherOf \in [Domains -> SUBSET Domains]
    /\ None \notin Tenants \cup Domains \cup Jids
ASSUME NodeAssumption ==
    NodeOf \in [Procs -> Nodes] /\ Stoppable \subseteq Hosts
ASSUME AbortAssumption == Aborts \subseteq {"lookup", "bind"}

VARIABLES
    table,      \* muc_tenant_rooms: room -> tenant (None: no record)
    proc,       \* the packet each routing process has in hand
    occupants,  \* mod_muc: who has entered each room
    started,    \* node -> hosts on which the module runs
    hooked,     \* nodes whose hook table holds {filter_packet, global}
    lapsed      \* history: some node has been without the hook

vars == <<table, proc, occupants, started, hooked, lapsed>>

Rooms == {j \in Jids : \E d \in Domains : DomainOf[j] = ConferenceOf[d]}
Users == Jids \ Rooms

\* Accounts are named <tenant>.<user>; services and system users are not.
Tenanted == {u \in Users : TenantOf[u] # None}

\* Accounts live on the virtual hosts of ejabberd.yml: neither they nor the
\* rooms are on localhost or on a pubsub or upload service.
ASSUME DeploymentAssumption ==
    /\ \A j \in Tenanted \cup Rooms : DomainOf[j] # Localhost
    /\ \A u \in Tenanted :
         /\ \A d \in Domains : DomainOf[u] \notin OtherOf[d]
         /\ \A r \in Rooms : DomainOf[r] \notin OtherOf[DomainOf[u]]

Packet == [pc : {"idle", "lookup", "bind", "pass"},
           from : Jids \cup {None}, to : Jids \cup {None},
           blind : BOOLEAN]     \* history: let through by an aborted look-up
Idle == [pc |-> "idle", from |-> None, to |-> None, blind |-> FALSE]

-----------------------------------------------------------------------------
(* is_allowed, clause by clause.                                           *)

ToMuc(f, t)   == DomainOf[t] = ConferenceOf[DomainOf[f]]
FromMuc(f, t) == DomainOf[f] = ConferenceOf[DomainOf[t]]
Room(f, t)    == IF ToMuc(f, t) THEN t ELSE f
UserTenant(f, t) == IF ToMuc(f, t) THEN TenantOf[f] ELSE TenantOf[t]

\* muc_context: exactly one side is the conference service of the other, and
\* the user's name carries a tenant.
AsksTable(f, t) ==
    /\ DomainOf[f] # DomainOf[t]
    /\ Localhost \notin {DomainOf[f], DomainOf[t]}
    /\ ToMuc(f, t) # FromMuc(f, t)
    /\ UserTenant(f, t) # None

\* Mutant: conference services pass with the other components.
AllowedConference(f, t) ==
    \/ /\ DomainOf[f] = DomainOf[t]
       /\ None \in {TenantOf[f], TenantOf[t]} \/ TenantOf[f] = TenantOf[t]
    \/ Localhost \in {DomainOf[f], DomainOf[t]} \/ ToMuc(f, t) \/ FromMuc(f, t)

\* The clauses that answer true without the table.
Allowed(f, t) ==
    \/ /\ DomainOf[f] = DomainOf[t]
       /\ None \in {TenantOf[f], TenantOf[t]} \/ TenantOf[f] = TenantOf[t]
    \/ /\ DomainOf[f] # DomainOf[t]
       /\ \/ Localhost \in {DomainOf[f], DomainOf[t]}
          \/ ToMuc(f, t) # FromMuc(f, t) /\ UserTenant(f, t) = None
          \/ DomainOf[t] \in OtherOf[DomainOf[f]]
          \/ DomainOf[f] \in OtherOf[DomainOf[t]]

-----------------------------------------------------------------------------
(* A packet on its way.                                                    *)

Goto(p, pc) == proc' = [proc EXCEPT ![p].pc = pc]
Drop(p)      == proc' = [proc EXCEPT ![p] = Idle]

\* A user sends to anybody; a room with an occupant sends to anybody (it
\* relays to occupants and carries their invitations to others).  On a node
\* without the hook the packet is not looked at.
Send(p, f, t) ==
    /\ proc[p].pc = "idle"
    /\ f # t
    /\ f \in Rooms => occupants[f] # {}
    /\ \E pc \in {"lookup", "pass"} :
        /\ pc = "lookup" => NodeOf[p] \in hooked /\ AsksTable(f, t)
        /\ pc = "pass" => NodeOf[p] \notin hooked \/ Allowed(f, t)
        /\ proc' = [proc EXCEPT ![p] = [Idle EXCEPT !.pc = pc, !.from = f, !.to = t]]
    /\ UNCHANGED <<table, occupants, started, hooked, lapsed>>

\* lookup_room_tenant, when its transaction commits
Found(p, b) == table[Room(proc[p].from, proc[p].to)] = b

\* An aborted transaction answers not_found too, and lets a room's packet out.
PassBlind(p) ==
    /\ "lookup" \in Aborts
    /\ FromMuc(proc[p].from, proc[p].to)
    /\ proc' = [proc EXCEPT ![p].pc = "pass", ![p].blind = TRUE]

\* Mutant: a missing record lets a sender in as it lets a room's packet out.
LookUpNeverBinds(p) ==
    /\ proc[p].pc = "lookup"
    /\ LET own == UserTenant(proc[p].from, proc[p].to)
       IN  \/ (Found(p, own) \/ Found(p, None)) /\ Goto(p, "pass")
           \/ \E b \in Tenants \ {own} : Found(p, b) /\ Drop(p)
    /\ UNCHANGED <<table, occupants, started, hooked, lapsed>>

\* resolve_or_bind_room_tenant up to its first transaction
LookUp(p) ==
    /\ proc[p].pc = "lookup"
    /\ LET f == proc[p].from
           t == proc[p].to
       IN  \/ Found(p, UserTenant(f, t)) /\ Goto(p, "pass")
           \/ \E b \in Tenants \ {UserTenant(f, t)} : Found(p, b) /\ Drop(p)
           \/ (Found(p, None) \/ "lookup" \in Aborts) /\ ToMuc(f, t) /\ Goto(p, "bind")
           \/ Found(p, None) /\ FromMuc(f, t) /\ Goto(p, "pass")
           \/ PassBlind(p)
    /\ UNCHANGED <<table, occupants, started, hooked, lapsed>>

\* Mutant: the record is written without being read again.
BindBlind(p) ==
    /\ proc[p].pc = "bind"
    /\ table' = [table EXCEPT ![proc[p].to] = TenantOf[proc[p].from]]
    /\ Goto(p, "pass")
    /\ UNCHANGED <<occupants, started, hooked, lapsed>>

\* bind_room_tenant reads again, so a record that appeared since then counts.
Bind(p) ==
    /\ proc[p].pc = "bind"
    /\ LET r == proc[p].to
           t == TenantOf[proc[p].from]
       IN  \/ /\ table[r] \in {None, t}
              /\ table' = [table EXCEPT ![r] = t]
              /\ Goto(p, "pass")
           \/ /\ table[r] \notin {None, t} \/ "bind" \in Aborts
              /\ Drop(p)
              /\ UNCHANGED table
    /\ UNCHANGED <<occupants, started, hooked, lapsed>>

\* The router delivers; a presence to a room enters or leaves it.
Route(p) ==
    /\ proc[p].pc = "pass"
    /\ Drop(p)
    /\ LET f == proc[p].from
           t == proc[p].to
       IN  \/ UNCHANGED occupants
           \/ /\ t \in Rooms /\ f \in Users
              /\ \/ occupants' = [occupants EXCEPT ![t] = @ \cup {f}]
                 \/ occupants' = [occupants EXCEPT ![t] = @ \ {f}]
    /\ UNCHANGED <<table, started, hooked, lapsed>>

-----------------------------------------------------------------------------
(* Operation of the module.                                                *)

\* sync_room_tenant; a conflict or an abort changes nothing.
SyncRoomTenant(r, t) ==
    /\ table[r] = None
    /\ table' = [table EXCEPT ![r] = t]
    /\ UNCHANGED <<proc, occupants, started, hooked, lapsed>>

\* Mutant: the hook is entered under the host, not for the node.
StartPerHost(n, h) ==
    /\ h \notin started[n]
    /\ started' = [started EXCEPT ![n] = @ \cup {h}]
    /\ hooked' = hooked \cup {h}
    /\ UNCHANGED <<table, proc, occupants, lapsed>>

\* ejabberd_hooks keeps one entry however often it is added, and one delete
\* removes it: the hook is registered as global, not for the host.
Start(n, h) ==
    /\ h \notin started[n]
    /\ started' = [started EXCEPT ![n] = @ \cup {h}]
    /\ hooked' = hooked \cup {n}
    /\ UNCHANGED <<table, proc, occupants, lapsed>>

Stop(n, h) ==
    /\ h \in Stoppable \cap started[n]
    /\ started' = [started EXCEPT ![n] = @ \ {h}]
    /\ hooked' = hooked \ {n}
    /\ lapsed' = TRUE
    /\ UNCHANGED <<table, proc, occupants>>

Init ==
    /\ table = [r \in Rooms |-> None]
    /\ proc = [p \in Procs |-> Idle]
    /\ occupants = [r \in Rooms |-> {}]
    /\ started = [n \in Nodes |-> Hosts]
    /\ hooked = Nodes
    /\ lapsed = FALSE

Filter(p) == LookUp(p) \/ Bind(p) \/ Route(p)

Next ==
    \/ \E p \in Procs : Filter(p) \/ \E f, t \in Jids : Send(p, f, t)
    \/ \E r \in Rooms, t \in Tenants : SyncRoomTenant(r, t)
    \/ \E n \in Nodes, h \in Hosts : Start(n, h) \/ Stop(n, h)

Spec == Init /\ [][Next]_vars

-----------------------------------------------------------------------------
(* Properties.                                                             *)

\* The table binds rooms to tenants, a packet in the filter is between JIDs.
TypeOK ==
    /\ table \in [Rooms -> Tenants \cup {None}]
    /\ proc \in [Procs -> Packet]
    /\ occupants \in [Rooms -> SUBSET Users]
    /\ started \in [Nodes -> SUBSET Hosts]
    /\ hooked \in SUBSET Nodes
    /\ lapsed \in BOOLEAN

\* Two first senders that both find no record never take a room from each
\* other: once bound, a room keeps its tenant (bind_room_tenant).
BindingsStay ==
    [][\A r \in Rooms : table[r] # None => table'[r] = table[r]]_vars

\* However the joins of two tenants interleave, and whichever transactions
\* abort, a room never holds occupants of two tenants, unless the module has
\* been stopped somewhere.
OneTenantPerRoom ==
    ~lapsed => \A r \in Rooms : \A u, v \in occupants[r] \cap Tenanted :
                  TenantOf[u] = TenantOf[v]

\* A packet to a room is of the tenant the room is bound to now; one from a
\* room, of that tenant or of an unbound room that only system users have
\* entered (if it was looked up); one between accounts, of one tenant and vhost.
WithinTenant(f, t, blind) ==
    /\ t \in Rooms /\ f \in Tenanted => table'[t] = TenantOf[f]
    /\ f \in Rooms /\ t \in Tenanted /\ ~blind =>
         /\ table'[f] \in {None, TenantOf[t]}
         /\ table'[f] = None => occupants[f] \cap Tenanted = {}
    /\ {f, t} \subseteq Tenanted => /\ TenantOf[f] = TenantOf[t]
                                    /\ DomainOf[f] = DomainOf[t]

\* Whatever is_allowed lets through, at once or by way of the table, stays
\* within the tenant as long as no node has been without the hook.
NoCrossTenantDelivery ==
    [][\A p \in Procs : ~lapsed /\ proc[p].pc # "pass" /\ proc'[p].pc = "pass" =>
         WithinTenant(proc'[p].from, proc'[p].to, proc'[p].blind)]_vars

\* Where the module runs for a host, no packet between that host's users of
\* two tenants gets through, whatever became of the module on other hosts (it
\* "intercepts every message", docs/01_project_architecture.md:138).
StartedHostsFiltered ==
    \A p \in Procs :
        LET f == proc[p].from
            t == proc[p].to
        IN  /\ proc[p].pc = "pass"
            /\ {f, t} \subseteq Tenanted
            /\ DomainOf[f] \in started[NodeOf[p]]
            => TenantOf[f] = TenantOf[t]
=============================================================================
