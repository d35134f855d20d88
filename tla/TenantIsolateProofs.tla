------------------------ MODULE TenantIsolateProofs ------------------------
(* Theorems about TenantIsolate for every set of JIDs, tenants, nodes and   *)
(* routing processes.                                                      *)
EXTENDS TenantIsolate, TLAPS

USE JidAssumption

\* What the packets in the filter have established.
PacketKnows(q) ==
    /\ q.pc # "idle" => q.from \in Jids /\ q.to \in Jids
    /\ q.pc \in {"lookup", "bind"} => AsksTable(q.from, q.to)
    /\ q.pc = "bind" => ToMuc(q.from, q.to)

PacketsKnow == \A p \in Procs : PacketKnows(proc[p])

-----------------------------------------------------------------------------
\* The room of a MUC packet is a room, its user's tenant a tenant.
LEMMA RoomOf ==
  ASSUME NEW f \in Jids, NEW t \in Jids, AsksTable(f, t)
  PROVE  /\ Room(f, t) \in Rooms
         /\ UserTenant(f, t) \in Tenants
         /\ ToMuc(f, t) => t \in Rooms
         /\ FromMuc(f, t) => f \in Rooms
  BY DEF AsksTable, ToMuc, FromMuc, Room, Rooms, UserTenant

\* The table-free clauses never speak for an account and a room.
LEMMA RoomsAreAsked ==
  ASSUME NEW u \in Tenanted, NEW r \in Rooms
  PROVE  /\ ~Allowed(u, r) /\ ~Allowed(r, u)
         /\ UserTenant(u, r) = TenantOf[u] \/ ~ToMuc(u, r)
         /\ ~FromMuc(u, r) /\ ~ToMuc(r, u)
  <1>1. u \in Users /\ u \in Jids /\ r \in Jids /\ TenantOf[u] # None
    BY DEF Tenanted, Users, Rooms
  <1>2. DomainOf[u] # DomainOf[r]
    BY <1>1 DEF Users, Rooms
  <1>3. ~FromMuc(u, r) /\ ~ToMuc(r, u)
    BY <1>1 DEF FromMuc, ToMuc, Users, Rooms
  <1>4. (ToMuc(u, r) => UserTenant(u, r) = TenantOf[u]) /\ UserTenant(r, u) = TenantOf[u]
    BY <1>3 DEF UserTenant
  <1>5. /\ Localhost \notin {DomainOf[u], DomainOf[r]}
        /\ DomainOf[r] \notin OtherOf[DomainOf[u]]
        /\ DomainOf[u] \notin OtherOf[DomainOf[r]]
    BY <1>1, DeploymentAssumption
  <1>6. ~Allowed(u, r)
    <2>1. ~(ToMuc(u, r) # FromMuc(u, r) /\ UserTenant(u, r) = None)
      BY <1>1, <1>3, <1>4 DEF ToMuc, FromMuc
    <2>2. QED
      BY <1>2, <1>5, <2>1 DEF Allowed
  <1>7. ~Allowed(r, u)
    BY <1>1, <1>2, <1>3, <1>4, <1>5 DEF Allowed
  <1>8. QED
    BY <1>3, <1>4, <1>6, <1>7

\* With no packet in hand the types hold.
LEMMA TypeInit == Init => TypeOK /\ PacketsKnow
  <1>1. Idle \in Packet /\ Idle.pc = "idle"
    BY DEF Idle, Packet
  <1>2. SUFFICES ASSUME Init PROVE TypeOK /\ PacketsKnow
    OBVIOUS
  <1>3. PacketsKnow
    BY <1>1, <1>2 DEF Init, PacketsKnow, PacketKnows
  <1>4. table \in [Rooms -> Tenants \cup {None}] /\ proc \in [Procs -> Packet]
    BY <1>1, <1>2 DEF Init
  <1>5. occupants \in [Rooms -> SUBSET Users] /\ started \in [Nodes -> SUBSET Hosts]
    BY <1>2 DEF Init
  <1>6. QED
    BY <1>2, <1>3, <1>4, <1>5 DEF Init, TypeOK

\* A process that has just taken, moved on or dropped a packet.
LEMMA PacketStep ==
  ASSUME TypeOK, PacketsKnow, NEW p \in Procs, NEW q \in Packet, PacketKnows(q),
         proc' = [proc EXCEPT ![p] = q]
  PROVE  proc' \in [Procs -> Packet] /\ PacketsKnow'
  <1>1. proc' \in [Procs -> Packet]
    BY DEF TypeOK
  <1>2. ASSUME NEW x \in Procs PROVE PacketKnows(proc[x])'
    BY DEF TypeOK, PacketsKnow, PacketKnows
  <1>3. QED
    BY <1>1, <1>2 DEF PacketsKnow

\* Every step keeps the types and what packets know.
LEMMA TypeNext ==
  ASSUME TypeOK, PacketsKnow, [Next]_vars
  PROVE  TypeOK' /\ PacketsKnow'
  <1>0. Idle \in Packet /\ PacketKnows(Idle)
    BY DEF Idle, Packet, PacketKnows
  <1>1. ASSUME NEW p \in Procs, NEW f \in Jids, NEW t \in Jids, Send(p, f, t)
        PROVE  TypeOK' /\ PacketsKnow'
    <2>1. PICK pc \in {"lookup", "pass"} :
            /\ pc = "lookup" => AsksTable(f, t)
            /\ proc' = [proc EXCEPT ![p] = [Idle EXCEPT !.pc = pc, !.from = f, !.to = t]]
      BY <1>1 DEF Send
    <2>2. [Idle EXCEPT !.pc = pc, !.from = f, !.to = t] \in Packet
      BY DEF Packet, Idle
    <2>3. PacketKnows([Idle EXCEPT !.pc = pc, !.from = f, !.to = t])
      BY <2>1 DEF PacketKnows, Idle
    <2>4. proc' \in [Procs -> Packet] /\ PacketsKnow'
      BY <2>1, <2>2, <2>3, PacketStep
    <2>5. QED
      BY <1>1, <2>4 DEF Send, TypeOK
  <1>2. ASSUME NEW p \in Procs, LookUp(p) PROVE TypeOK' /\ PacketsKnow'
    <2> DEFINE q(pc) == [proc[p] EXCEPT !.pc = pc]
    <2>1. proc[p] \in Packet /\ PacketKnows(proc[p]) /\ proc[p].pc = "lookup"
      BY <1>2 DEF LookUp, TypeOK, PacketsKnow
    <2> DEFINE blind == [proc[p] EXCEPT !.pc = "pass", !.blind = TRUE]
    <2>2. \/ Drop(p) \/ Goto(p, "pass") \/ proc' = [proc EXCEPT ![p] = blind]
          \/ ToMuc(proc[p].from, proc[p].to) /\ Goto(p, "bind")
      BY <1>2 DEF LookUp, PassBlind, TypeOK
    <2>3. q("pass") \in Packet /\ PacketKnows(q("pass"))
      BY <2>1 DEF Packet, PacketKnows
    <2>4. q("bind") \in Packet
          /\ (ToMuc(proc[p].from, proc[p].to) => PacketKnows(q("bind")))
      BY <2>1 DEF Packet, PacketKnows
    <2>5. blind \in Packet /\ PacketKnows(blind)
      BY <2>1 DEF Packet, PacketKnows
    <2>6. proc' \in [Procs -> Packet] /\ PacketsKnow'
      <3>1. CASE proc' = [proc EXCEPT ![p] = blind]
        BY <2>5, <3>1, PacketStep
      <3>2. CASE Drop(p) \/ Goto(p, "pass")
        BY <1>0, <2>3, <3>2, PacketStep DEF Drop, Goto
      <3>3. CASE ToMuc(proc[p].from, proc[p].to) /\ Goto(p, "bind")
        BY <2>4, <3>3, PacketStep DEF Goto
      <3>4. QED
        BY <2>2, <3>1, <3>2, <3>3
    <2>7. QED
      BY <1>2, <2>6 DEF LookUp, TypeOK
  <1>3. ASSUME NEW p \in Procs, Bind(p) PROVE TypeOK' /\ PacketsKnow'
    <2> DEFINE q == [proc[p] EXCEPT !.pc = "pass"]
    <2>1. proc[p] \in Packet /\ PacketKnows(proc[p]) /\ proc[p].pc = "bind"
      BY <1>3 DEF Bind, TypeOK, PacketsKnow
    <2>2. proc[p].from \in Jids /\ proc[p].to \in Rooms
          /\ TenantOf[proc[p].from] \in Tenants
      BY <2>1, RoomOf DEF PacketKnows, AsksTable, UserTenant
    <2>3. q \in Packet /\ PacketKnows(q)
      BY <2>1 DEF Packet, PacketKnows
    <2>4. Drop(p) \/ Goto(p, "pass")
      BY <1>3 DEF Bind
    <2>5. proc' \in [Procs -> Packet] /\ PacketsKnow'
      BY <1>0, <2>3, <2>4, PacketStep DEF Drop, Goto
    <2>6. table' \in [Rooms -> Tenants \cup {None}]
      BY <1>3, <2>2 DEF Bind, TypeOK
    <2>7. QED
      BY <1>3, <2>5, <2>6 DEF Bind, TypeOK
  <1>4. ASSUME NEW p \in Procs, Route(p) PROVE TypeOK' /\ PacketsKnow'
    <2>1. proc' \in [Procs -> Packet] /\ PacketsKnow'
      BY <1>0, <1>4, PacketStep DEF Route, Drop
    <2>2. occupants' \in [Rooms -> SUBSET Users]
      BY <1>4 DEF Route, TypeOK
    <2>3. QED
      BY <1>4, <2>1, <2>2 DEF Route, TypeOK
  <1>5. ASSUME NEW r \in Rooms, NEW t \in Tenants, SyncRoomTenant(r, t)
        PROVE  TypeOK' /\ PacketsKnow'
    BY <1>5 DEF SyncRoomTenant, TypeOK, PacketsKnow, PacketKnows
  <1>6. ASSUME NEW n \in Nodes, NEW h \in Hosts, Start(n, h) \/ Stop(n, h)
        PROVE  TypeOK' /\ PacketsKnow'
    <2>1. proc' = proc /\ PacketsKnow'
      BY <1>6 DEF Start, Stop, PacketsKnow, PacketKnows
    <2>2. started' \in [Nodes -> SUBSET Hosts] /\ hooked' \in SUBSET Nodes
      BY <1>6 DEF Start, Stop, TypeOK
    <2>3. lapsed' \in BOOLEAN /\ table' = table /\ occupants' = occupants
      BY <1>6 DEF Start, Stop, TypeOK
    <2>4. QED
      BY <2>1, <2>2, <2>3 DEF TypeOK
  <1>7. CASE UNCHANGED vars
    BY <1>7 DEF vars, TypeOK, PacketsKnow, PacketKnows
  <1>8. QED
    BY <1>1, <1>2, <1>3, <1>4, <1>5, <1>6, <1>7 DEF Next, Filter

\* Types, and what a packet in the filter knows of itself.
THEOREM TypeCorrect == Spec => [](TypeOK /\ PacketsKnow)
  <1>1. TypeOK /\ PacketsKnow /\ [Next]_vars => (TypeOK /\ PacketsKnow)'
    BY TypeNext
  <1>2. QED
    BY TypeInit, <1>1, PTL DEF Spec

\* Only bind_room_tenant and sync_room_tenant write, and neither overwrites.
LEMMA BindingStep ==
  ASSUME TypeOK, PacketsKnow, [Next]_vars, NEW r \in Rooms, table[r] # None
  PROVE  table'[r] = table[r]
  <1>1. ASSUME NEW p \in Procs, Bind(p) PROVE table'[r] = table[r]
    BY <1>1 DEF Bind, TypeOK
  <1>2. ASSUME NEW x \in Rooms, NEW t \in Tenants, SyncRoomTenant(x, t)
        PROVE  table'[r] = table[r]
    BY <1>2 DEF SyncRoomTenant, TypeOK
  <1>3. ASSUME NEW p \in Procs, LookUp(p) \/ Route(p) \/ \E f, t \in Jids : Send(p, f, t)
        PROVE  table'[r] = table[r]
    BY <1>3 DEF LookUp, Route, Send
  <1>4. ASSUME NEW n \in Nodes, NEW h \in Hosts, Start(n, h) \/ Stop(n, h)
        PROVE  table'[r] = table[r]
    BY <1>4 DEF Start, Stop
  <1>5. QED
    BY <1>1, <1>2, <1>3, <1>4 DEF Next, Filter, vars

\* A binding once made is final, whatever aborts, stops or races.
THEOREM BindingsAreFinal == Spec => BindingsStay
  <1>1. TypeOK /\ PacketsKnow /\ [Next]_vars =>
          [\A r \in Rooms : table[r] # None => table'[r] = table[r]]_vars
    BY BindingStep
  <1>2. QED
    BY <1>1, TypeCorrect, PTL DEF Spec, BindingsStay
-----------------------------------------------------------------------------
(* Until the module is stopped somewhere, a packet of an account reaches a room *)
(* only once the room is bound to the account's tenant; bindings stay, so   *)
(* what is true of the packet is true of the occupant it made.              *)

PassKnows ==
    \A p \in Procs :
        proc[p].pc = "pass" /\ proc[p].from \in Tenanted /\ proc[p].to \in Rooms
        => table[proc[p].to] = TenantOf[proc[p].from]

OccupantsBound ==
    \A r \in Rooms : \A u \in occupants[r] \cap Tenanted : table[r] = TenantOf[u]

Sealed == hooked = Nodes /\ PassKnows /\ OccupantsBound

Isolated == ~lapsed => Sealed

\* At the start every node filters and no room is occupied.
LEMMA IsolatedInit == Init => Isolated
  BY DEF Init, Isolated, Sealed, PassKnows, OccupantsBound, Idle

\* A packet that is let through to a room in this step finds it bound.
LEMMA LetThrough ==
  ASSUME TypeOK, PacketsKnow, Sealed, NEW p \in Procs, Filter(p),
         proc'[p].pc = "pass", proc'[p].from \in Tenanted, proc'[p].to \in Rooms
  PROVE  table'[proc'[p].to] = TenantOf[proc'[p].from]
  <1> DEFINE f == proc[p].from
             t == proc[p].to
  <1>1. proc[p] \in Packet /\ PacketKnows(proc[p]) /\ proc \in [Procs -> Packet]
    BY DEF TypeOK, PacketsKnow
  <1>2. CASE LookUp(p)
    <2>1. proc[p].pc = "lookup" /\ ~Drop(p)
      BY <1>1, <1>2 DEF LookUp, Drop, Idle
    <2>2. proc'[p].from = f /\ proc'[p].to = t
      BY <1>1, <1>2, <2>1 DEF LookUp, PassBlind, Goto, Packet
    <2>3. AsksTable(f, t) /\ UserTenant(f, t) = TenantOf[f] /\ Room(f, t) = t
      <3>1. AsksTable(f, t) /\ ~FromMuc(f, t)
        BY <1>1, <2>1, <2>2, RoomsAreAsked DEF PacketKnows
      <3>2. ToMuc(f, t)
        BY <3>1 DEF AsksTable, ToMuc, FromMuc
      <3>3. QED
        BY <3>1, <3>2 DEF UserTenant, Room
    <2>4. ~FromMuc(f, t) /\ TenantOf[f] # None
      BY <2>2, RoomsAreAsked DEF Tenanted
    <2>5. Goto(p, "bind") => proc'[p].pc = "bind"
      BY <1>1 DEF Goto, Packet
    <2>6. Found(p, TenantOf[f])
      BY <1>2, <2>1, <2>3, <2>4, <2>5 DEF LookUp, PassBlind
    <2>7. QED
      BY <1>2, <2>2, <2>3, <2>4, <2>6 DEF Found, LookUp
  <1>3. CASE Bind(p)
    <2>1. ~Drop(p)
      BY <1>1 DEF Drop, Idle
    <2>2. proc'[p].from = f /\ proc'[p].to = t
      BY <1>1, <1>3, <2>1 DEF Bind, Goto, Packet
    <2>3. table' = [table EXCEPT ![t] = TenantOf[f]]
      BY <1>3, <2>1 DEF Bind
    <2>4. QED
      BY <2>2, <2>3 DEF TypeOK
  <1>4. CASE Route(p)
    BY <1>1, <1>4 DEF Route, Drop, Idle
  <1>5. QED
    BY <1>2, <1>3, <1>4 DEF Filter

\* Until the module is stopped, every step keeps occupants bound to the tenant of their room.
LEMMA IsolatedStep ==
  ASSUME TypeOK, PacketsKnow, Isolated, [Next]_vars
  PROVE  Isolated'
  <1>0. SUFFICES ASSUME ~lapsed' PROVE Sealed'
    BY DEF Isolated
  <1>a. ASSUME NEW n \in Nodes, NEW h \in Hosts PROVE ~Stop(n, h)
    BY <1>0 DEF Stop
  <1>b. Sealed
    BY <1>0, <1>a DEF Isolated, Next, Filter, Send, LookUp, Bind, Route,
                      SyncRoomTenant, Start, vars
  <1>1. \A r \in Rooms : table[r] # None => table'[r] = table[r]
    BY BindingStep
  <1>2. hooked' = Nodes
    <2>1. ASSUME NEW n \in Nodes, NEW h \in Hosts, Start(n, h) \/ Stop(n, h)
          PROVE  hooked' = Nodes
      <3>1. ~Stop(n, h)
        BY <1>a
      <3>2. hooked' = hooked \cup {n}
        BY <2>1, <3>1 DEF Start
      <3>3. QED
        BY <1>b, <3>2 DEF Sealed
    <2>2. ASSUME NEW p \in Procs, Filter(p) \/ \E f, t \in Jids : Send(p, f, t)
          PROVE  hooked' = hooked
      BY <2>2 DEF Filter, LookUp, Bind, Route, Send
    <2>3. QED
      BY <1>b, <2>1, <2>2 DEF Next, SyncRoomTenant, vars, Sealed
  <1>3. PassKnows'
    <2> SUFFICES ASSUME NEW p \in Procs, proc'[p].pc = "pass",
                        proc'[p].from \in Tenanted, proc'[p].to \in Rooms
                 PROVE  table'[proc'[p].to] = TenantOf[proc'[p].from]
      BY DEF PassKnows
    <2>1. CASE proc'[p] = proc[p]
      <3>1. table[proc[p].to] = TenantOf[proc[p].from] /\ TenantOf[proc[p].from] # None
        BY <1>b, <2>1 DEF Sealed, PassKnows, Tenanted
      <3>2. QED
        BY <1>1, <2>1, <3>1
    <2>2. CASE proc'[p] # proc[p]
      <3>1. ASSUME NEW f \in Jids, NEW t \in Jids, Send(p, f, t) PROVE FALSE
        <4>1. PICK pc \in {"lookup", "pass"} :
                /\ pc = "pass" => NodeOf[p] \notin hooked \/ Allowed(f, t)
                /\ proc' = [proc EXCEPT ![p] = [Idle EXCEPT !.pc = pc, !.from = f, !.to = t]]
          BY <3>1 DEF Send
        <4>2. pc = "pass" /\ f \in Tenanted /\ t \in Rooms
          BY <4>1 DEF TypeOK
        <4>3. QED
          BY <1>b, <4>1, <4>2, RoomsAreAsked, NodeAssumption DEF Sealed
      <3>2. ASSUME NEW q \in Procs, q # p, Filter(q) \/ \E f, t \in Jids : Send(q, f, t)
            PROVE  proc'[p] = proc[p]
        BY <3>2 DEF Filter, LookUp, PassBlind, Bind, Route, Send, Goto, Drop, TypeOK
      <3>3. ASSUME NEW r \in Rooms, NEW t \in Tenants, SyncRoomTenant(r, t)
            PROVE  proc'[p] = proc[p]
        BY <3>3 DEF SyncRoomTenant
      <3>4. ASSUME NEW n \in Nodes, NEW h \in Hosts, Start(n, h) \/ Stop(n, h)
            PROVE  proc'[p] = proc[p]
        BY <3>4 DEF Start, Stop
      <3>5. Filter(p)
        BY <2>2, <3>1, <3>2, <3>3, <3>4 DEF Next, vars
      <3>6. QED
        BY <1>b, <3>5, LetThrough
    <2>3. QED
      BY <2>1, <2>2
  <1>4. OccupantsBound'
    <2> SUFFICES ASSUME NEW r \in Rooms, NEW u \in Tenanted, u \in occupants'[r]
                 PROVE  table'[r] = TenantOf[u]
      BY DEF OccupantsBound
    <2>1. TenantOf[u] # None
      BY DEF Tenanted
    <2>2. CASE u \in occupants[r]
      BY <1>b, <1>1, <2>1, <2>2 DEF Sealed, OccupantsBound
    <2>3. CASE u \notin occupants[r]
      <3>1. PICK p \in Procs : Route(p)
        BY <2>3 DEF Next, Filter, Send, LookUp, Bind, SyncRoomTenant, Start, Stop, vars
      <3>2. u = proc[p].from /\ r = proc[p].to
        BY <2>3, <3>1 DEF Route, TypeOK
      <3>3. table[r] = TenantOf[u]
        BY <1>b, <3>1, <3>2 DEF Route, Sealed, PassKnows
      <3>4. QED
        BY <1>1, <2>1, <3>3
    <2>4. QED
      BY <2>2, <2>3
  <1>5. QED
    BY <1>2, <1>3, <1>4 DEF Sealed

\* Until an operator stops the module somewhere, no room holds accounts of two
\* tenants, whichever transactions abort and however the joins interleave.
THEOREM RoomsHoldOneTenant == Spec => []OneTenantPerRoom
  <1>1. TypeOK /\ PacketsKnow /\ Isolated /\ [Next]_vars => Isolated'
    BY IsolatedStep
  <1>2. Isolated => OneTenantPerRoom
        BY DEF Isolated, Sealed, OccupantsBound, OneTenantPerRoom
  <1>3. QED
    BY IsolatedInit, TypeCorrect, <1>1, <1>2, PTL DEF Spec
-----------------------------------------------------------------------------
\* The table-free clauses keep accounts within their tenant and vhost.
LEMMA AccountsAllowed ==
  ASSUME NEW u \in Tenanted, NEW v \in Tenanted, Allowed(u, v) \/ AsksTable(u, v)
  PROVE  TenantOf[u] = TenantOf[v] /\ DomainOf[u] = DomainOf[v]
  <1>1. /\ u \in Jids /\ v \in Jids /\ u \notin Rooms /\ v \notin Rooms
        /\ TenantOf[u] # None /\ TenantOf[v] # None
    BY DEF Tenanted, Users
  <1>2. ~ToMuc(u, v) /\ ~FromMuc(u, v)
    BY <1>1 DEF ToMuc, FromMuc, Rooms
  <1>3. ~AsksTable(u, v)
    BY <1>2 DEF AsksTable, ToMuc, FromMuc
  <1>4. /\ Localhost \notin {DomainOf[u], DomainOf[v]}
        /\ DomainOf[v] \notin OtherOf[DomainOf[u]]
        /\ DomainOf[u] \notin OtherOf[DomainOf[v]]
    BY <1>1, DeploymentAssumption
  <1>5. ~(ToMuc(u, v) # FromMuc(u, v) /\ UserTenant(u, v) = None)
    BY <1>2 DEF ToMuc, FromMuc
  <1>6. QED
    BY <1>1, <1>3, <1>4, <1>5 DEF Allowed

\* A packet that the clauses without the table let through.
LEMMA SentThrough ==
  ASSUME TypeOK, Sealed, NEW p \in Procs, NEW f \in Jids, NEW t \in Jids,
         Send(p, f, t), proc'[p].pc = "pass"
  PROVE  WithinTenant(proc'[p].from, proc'[p].to, proc'[p].blind)
  <1>1. PICK pc \in {"lookup", "pass"} :
          /\ pc = "pass" => NodeOf[p] \notin hooked \/ Allowed(f, t)
          /\ proc' = [proc EXCEPT ![p] = [Idle EXCEPT !.pc = pc, !.from = f, !.to = t]]
    BY DEF Send
  <1>2. pc = "pass" /\ proc'[p].from = f /\ proc'[p].to = t
    BY <1>1 DEF TypeOK
  <1>3. Allowed(f, t)
    BY <1>1, <1>2, NodeAssumption DEF Sealed
  <1>4. ~(t \in Rooms /\ f \in Tenanted) /\ ~(f \in Rooms /\ t \in Tenanted)
    BY <1>3, RoomsAreAsked
  <1>5. QED
    BY <1>2, <1>3, <1>4, AccountsAllowed DEF WithinTenant

\* If it was looked up, a room's packet goes through if the room is its reader's,
\* or still unbound and then without accounts in it.
LEMMA RoomsPacketThrough ==
  ASSUME TypeOK, PacketsKnow, Sealed,
         NEW p \in Procs, LookUp(p), proc'[p].pc = "pass",
         proc[p].from \in Rooms, proc[p].to \in Tenanted, ~proc'[p].blind
  PROVE  /\ table'[proc[p].from] \in {None, TenantOf[proc[p].to]}
         /\ table'[proc[p].from] = None => occupants[proc[p].from] \cap Tenanted = {}
  <1> DEFINE f == proc[p].from
             t == proc[p].to
  <1>1. proc[p].pc = "lookup" /\ AsksTable(f, t) /\ table' = table
    BY DEF LookUp, PacketsKnow, PacketKnows
  <1>2. ~ToMuc(f, t)
    BY RoomsAreAsked
  <1>3. Room(f, t) = f /\ UserTenant(f, t) = TenantOf[t]
    BY <1>2 DEF Room, UserTenant
  <1>4. ~Drop(p)
    BY DEF Drop, Idle, TypeOK
  <1>b. ~PassBlind(p)
    BY DEF PassBlind, TypeOK, Packet
  <1>5. Found(p, TenantOf[t]) \/ Found(p, None)
    BY <1>b, <1>2, <1>3, <1>4 DEF LookUp
  <1>6. table[f] \in {None, TenantOf[t]}
    BY <1>3, <1>5 DEF Found
  <1>7. table[f] = None => occupants[f] \cap Tenanted = {}
    BY DEF Sealed, OccupantsBound, Tenanted
  <1>8. QED
    BY <1>1, <1>6, <1>7

\* A packet that the table lets through.
LEMMA FilteredThrough ==
  ASSUME TypeOK, PacketsKnow, Sealed,
         NEW p \in Procs, Filter(p), proc[p].pc # "pass", proc'[p].pc = "pass"
  PROVE  WithinTenant(proc'[p].from, proc'[p].to, proc'[p].blind)
  <1> DEFINE f == proc[p].from
             t == proc[p].to
  <1>1. LookUp(p) \/ Bind(p)
    BY DEF Filter, Route
  <1>2. proc[p] \in Packet /\ proc[p].pc \in {"lookup", "bind"}
    BY <1>1 DEF LookUp, Bind, TypeOK
  <1>3. f \in Jids /\ t \in Jids /\ AsksTable(f, t)
        /\ (proc[p].pc = "bind" => ToMuc(f, t))
    BY <1>2 DEF PacketsKnow, PacketKnows
  <1>4. ~Drop(p)
    BY DEF Drop, Idle, TypeOK
  <1>5. proc'[p].from = f /\ proc'[p].to = t
    BY <1>1, <1>2, <1>4 DEF LookUp, PassBlind, Bind, Goto, TypeOK, Packet
  <1>6. t \in Rooms /\ f \in Tenanted => table'[t] = TenantOf[f]
    BY <1>5, LetThrough
  <1>7. ASSUME f \in Rooms, t \in Tenanted, ~proc'[p].blind
        PROVE  /\ table'[f] \in {None, TenantOf[t]}
               /\ table'[f] = None => occupants[f] \cap Tenanted = {}
    <2>1. ~ToMuc(f, t)
      BY <1>7, RoomsAreAsked
    <2>2. LookUp(p)
      BY <1>1, <1>3, <2>1 DEF Bind
    <2>3. QED
      BY <1>7, <2>2, RoomsPacketThrough
  <1>8. {f, t} \subseteq Tenanted => TenantOf[f] = TenantOf[t] /\ DomainOf[f] = DomainOf[t]
    BY <1>3, AccountsAllowed
  <1>9. QED
    BY <1>5, <1>6, <1>7, <1>8 DEF WithinTenant

\* Every packet that a step lets through stays with its tenant.
LEMMA PassedStep ==
  ASSUME TypeOK, PacketsKnow, Sealed, [Next]_vars,
         NEW p \in Procs, proc[p].pc # "pass", proc'[p].pc = "pass"
  PROVE  WithinTenant(proc'[p].from, proc'[p].to, proc'[p].blind)
  <1>1. ASSUME NEW q \in Procs, q # p, Filter(q) \/ \E f, t \in Jids : Send(q, f, t)
        PROVE  proc'[p] = proc[p]
    BY <1>1 DEF Filter, LookUp, PassBlind, Bind, Route, Send, Goto, Drop, TypeOK
  <1>2. ASSUME NEW r \in Rooms, NEW t \in Tenants, SyncRoomTenant(r, t)
        PROVE  proc'[p] = proc[p]
    BY <1>2 DEF SyncRoomTenant
  <1>3. ASSUME NEW n \in Nodes, NEW h \in Hosts, Start(n, h) \/ Stop(n, h)
        PROVE  proc'[p] = proc[p]
    BY <1>3 DEF Start, Stop
  <1>4. Filter(p) \/ \E f, t \in Jids : Send(p, f, t)
    BY <1>1, <1>2, <1>3 DEF Next, vars
  <1>5. QED
    BY <1>4, SentThrough, FilteredThrough

\* Until an operator stops the module somewhere, no packet gets from one tenant
\* to another, through a room (whose look-up commits) or directly.
THEOREM PacketsLetThrough == Spec => NoCrossTenantDelivery
  <1>1. TypeOK /\ PacketsKnow /\ Isolated /\ [Next]_vars => Isolated'
    BY IsolatedStep
  <1>2. TypeOK /\ PacketsKnow /\ Isolated /\ [Next]_vars =>
          [\A p \in Procs : ~lapsed /\ proc[p].pc # "pass" /\ proc'[p].pc = "pass" =>
             WithinTenant(proc'[p].from, proc'[p].to, proc'[p].blind)]_vars
    BY PassedStep DEF Isolated
  <1>3. QED
    BY IsolatedInit, TypeCorrect, <1>1, <1>2, PTL DEF Spec, NoCrossTenantDelivery
=============================================================================
