---------------------------- MODULE GroupService ----------------------------
(***************************************************************************)
(* The group API of auth_service (auth_service/app/group_service.py): two *)
(* Postgres tables, the HTTP handlers that read and write them, and the   *)
(* MUC rooms of ejabberd whose affiliations the handlers push.            *)
(*                                                                         *)
(* Postgres runs at READ COMMITTED: every SELECT is a step of its own, a  *)
(* write becomes visible at the commit of its transaction.  Every handler *)
(* pushes to ejabberd AFTER its transaction, one HTTP call per member, so *)
(* other handlers run between any two of these steps.                     *)
(*                                                                         *)
(* Abstracted: a JID is a user, TenantOf is its (tenant, vhost) pair, the *)
(* name and description of a group are left out.  The affiliation column  *)
(* always holds the same word as the role column, so one function stands  *)
(* for both.  get_group changes state exactly as sync_room_members does.  *)
(***************************************************************************)
EXTENDS Naturals, FiniteSets

CONSTANTS
    Users,          \* bare JIDs that may authenticate or be named as members
    Tenants,
    TenantOf,       \* the (tenant, vhost) of a user
    Groups,         \* ids the BIGSERIAL may hand out
    Reqs,           \* HTTP requests in progress at once
    Offered,        \* bound: the calls clients make in this instance
    Faults,         \* which faults may happen, a subset of FaultKinds
    MaxLate,        \* bound: timed-out calls still travelling to ejabberd
    None

FaultKinds == {"push", "late", "crash"}

ASSUME TenantAssumption == TenantOf \in [Users -> Tenants]
ASSUME NoneAssumption == None \notin Users \cup Groups
ASSUME FaultAssumption == Faults \subseteq FaultKinds /\ MaxLate \in Nat

VARIABLES
    owner,      \* rediff_groups.owner_jid (None: no row)
    status,     \* rediff_groups.status ("absent": no row)
    role,       \* rediff_group_members.role ("none": no row)
    creator,    \* ejabberd: first occupant of the room (None: no room)
    affil,      \* ejabberd: affiliation list of the room
    late,       \* calls that timed out at the caller and still run
    granted,    \* <<group, user>>: this client holds a permission to open
    req,        \* the handlers
    due,        \* history: every affiliation a stored row ever justified
    lost        \* history: whose change of membership did not reach the room

db   == <<owner, status, role, due>>
muc  == <<creator, affil, late, lost>>
vars == <<db, muc, granted, req>>

Affiliations == {"none", "member", "admin", "owner"}
Calls == {"create", "sync", "join", "update", "add", "remove"}

\* Rows to insert, or affiliations to push.
Pairs == Users \X Affiliations

Request ==
    [op : Calls \cup {"none"},
     pc : {"idle", "group", "member", "list", "act", "push"},
     user : Users \cup {None}, group : Groups \cup {None},
     target : Users \cup {None},
     arg : {"none", "member", "admin", "active", "archived", "keep"},
     todo : SUBSET Pairs, skipped : BOOLEAN]

\* A handler that has answered: nothing of the call is kept.
Answered ==
    [op |-> "none", pc |-> "idle", user |-> None, group |-> None,
     target |-> None, arg |-> "none", todo |-> {}, skipped |-> FALSE]

Reply(r) == req' = [req EXCEPT ![r] = Answered]

-----------------------------------------------------------------------------
(* Requests arrive.  The path, the body and Keycloak's answer are checked  *)
(* before the first statement; a call that fails there changes nothing.    *)

\* Mutant: only what Keycloak says of the member is validated.
ValidMemberAnyTenant(u, m) == TRUE

\* validate_same_tenant_jid; Keycloak may enable and disable anybody at any
\* time, so that it knows the member as active restricts no order of calls.
ValidMember(u, m) == TenantOf[m] = TenantOf[u]

Receive(r, call) ==
    /\ req[r].pc = "idle"
    /\ call.op \in Offered
    /\ req' = [req EXCEPT ![r] = call]
    /\ UNCHANGED <<db, muc, granted>>

\* Bound: no more creations start than Groups has ids left.
IdsLeft ==
    Cardinality({x \in Reqs : req[x].op = "create"})
      < Cardinality({g \in Groups : status[g] = "absent"})

\* Mutant: every initial member is written as owner.
ReceiveCreateAllOwners(r, u, ms) ==
    /\ IdsLeft
    /\ \A m \in ms : ValidMember(u, m)
    /\ Receive(r, [Answered EXCEPT !.op = "create", !.pc = "act", !.user = u,
                     !.todo = (ms \cup {u}) \X {"owner"}])

ReceiveCreate(r, u, ms) ==
    /\ IdsLeft
    /\ \A m \in ms : ValidMember(u, m)
    /\ Receive(r, [Answered EXCEPT !.op = "create", !.pc = "act", !.user = u,
                     !.todo = {<<u, "owner">>} \cup {<<m, "member">> : m \in ms \ {u}}])

ReceiveRead(r, u, g, op) ==
    /\ op \in {"sync", "join"}
    /\ Receive(r, [Answered EXCEPT !.op = op, !.pc = "group", !.user = u,
                     !.group = g])

ReceiveUpdate(r, u, g, new) ==
    /\ new \in {"active", "archived", "keep"}
    /\ Receive(r, [Answered EXCEPT !.op = "update", !.pc = "group", !.user = u,
                     !.group = g, !.arg = new])

ReceiveAdd(r, u, g, m, new) ==
    /\ ValidMember(u, m)
    /\ new \in {"member", "admin"}
    /\ Receive(r, [Answered EXCEPT !.op = "add", !.pc = "group", !.user = u,
                     !.group = g, !.target = m, !.arg = new])

ReceiveRemove(r, u, g, m) ==
    /\ ValidMember(u, m)
    /\ Receive(r, [Answered EXCEPT !.op = "remove", !.pc = "group", !.user = u,
                     !.group = g, !.target = m])

-----------------------------------------------------------------------------
(* The checks inside the transaction, one step per SELECT.                 *)

IsEditor(g, u) == role[g][u] \in {"owner", "admin"}

\* _group_row, and join_group's test of the status
GroupFound(q) ==
    /\ status[q.group] # "absent"
    /\ TenantOf[owner[q.group]] = TenantOf[q.user]
    /\ q.op = "join" => status[q.group] = "active"

\* Mutant: whoever removes himself is not compared with the owner.
MayRemoveOwnerExits(q) ==
    /\ role[q.group][q.user] # "none"
    /\ \/ q.target = q.user
       \/ IsEditor(q.group, q.user) /\ q.target # owner[q.group]

\* remove_member's tests: the owner never goes, others go by an editor's hand
MayRemove(q) ==
    /\ q.target # owner[q.group]
    /\ role[q.group][q.user] # "none"
    /\ q.target = q.user \/ IsEditor(q.group, q.user)

Permitted(q) ==
    \/ q.op \in {"sync", "join"} /\ role[q.group][q.user] # "none"
    \/ q.op \in {"update", "add"} /\ IsEditor(q.group, q.user)
    \/ q.op = "remove" /\ MayRemove(q)

\* Mutant: a missing status is written as it came.
ReadGroupAsSent(r) ==
    /\ req[r].pc = "group"
    /\ GroupFound(req[r])
    /\ req' = [req EXCEPT ![r] = [@ EXCEPT !.pc = "member"]]
    /\ UNCHANGED <<db, muc, granted>>

\* update_group keeps the status it reads here when the body names none.
ReadGroup(r) ==
    LET q == req[r]
        arg == IF q.arg = "keep" THEN status[q.group] ELSE q.arg
    IN  /\ q.pc = "group"
        /\ GroupFound(q)
        /\ req' = [req EXCEPT ![r] = [q EXCEPT !.pc = "member", !.arg = arg]]
        /\ UNCHANGED <<db, muc, granted>>

ReadMember(r) ==
    /\ req[r].pc = "member"
    /\ Permitted(req[r])
    /\ req' = [req EXCEPT ![r] =
                 [@ EXCEPT !.pc = IF req[r].op \in {"sync", "join"}
                                  THEN "list" ELSE "act"]]
    /\ UNCHANGED <<db, muc, granted>>

\* 403, 404 or 400: the transaction rolls back, the call ends.
Refuse(r) ==
    /\ \/ req[r].pc = "group" /\ ~GroupFound(req[r])
       \/ req[r].pc = "member" /\ ~Permitted(req[r])
    /\ Reply(r)
    /\ UNCHANGED <<db, muc, granted>>

-----------------------------------------------------------------------------
(* The writes, each at the commit of its transaction.                      *)

\* ON CONFLICT DO UPDATE: a row already there takes the new role.
Upsert(g, u, new) ==
    /\ role' = [role EXCEPT ![g][u] = new]
    /\ due' = [due EXCEPT ![g][u] = @ \cup {new}]

\* What add_member and remove_member still need after their commit.
PushOnly(q, pushes) ==
    [Answered EXCEPT !.op = q.op, !.pc = "push", !.group = q.group, !.todo = pushes]

\* Group row and all member rows in one transaction.
CreateGroup(r) ==
    /\ req[r].pc = "act" /\ req[r].op = "create"
    /\ \E g \in Groups :
        LET rows == [u \in Users |->
                       IF <<u, "owner">> \in req[r].todo THEN "owner"
                       ELSE IF <<u, "member">> \in req[r].todo THEN "member"
                       ELSE "none"]
        IN  /\ status[g] = "absent"
            /\ owner' = [owner EXCEPT ![g] = req[r].user]
            /\ status' = [status EXCEPT ![g] = "active"]
            /\ role' = [role EXCEPT ![g] = rows]
            /\ due' = [due EXCEPT ![g] = [u \in Users |-> @[u] \cup {rows[u]}]]
            /\ granted' = granted \cup {<<g, req[r].user>>}
    /\ Reply(r)
    /\ UNCHANGED muc

UpdateGroup(r) ==
    /\ req[r].pc = "act" /\ req[r].op = "update"
    /\ status' = [status EXCEPT ![req[r].group] = req[r].arg]
    /\ Reply(r)
    /\ UNCHANGED <<owner, role, due, muc, granted>>

\* After the upsert the handler pushes the role of the request, whoever the
\* member is.
AddMember(r) ==
    /\ req[r].pc = "act" /\ req[r].op = "add"
    /\ Upsert(req[r].group, req[r].target, req[r].arg)
    /\ req' = [req EXCEPT ![r] =
                 PushOnly(@, {<<req[r].target, req[r].arg>>})]
    /\ UNCHANGED <<owner, status, muc, granted>>

\* Mutant: the row goes and nothing is pushed.
RemoveMemberSilently(r) ==
    /\ req[r].pc = "act" /\ req[r].op = "remove"
    /\ role' = [role EXCEPT ![req[r].group][req[r].target] = "none"]
    /\ req' = [req EXCEPT ![r] = PushOnly(@, {})]
    /\ UNCHANGED <<owner, status, due, muc, granted>>

\* The DELETE runs in a second transaction and repeats none of the checks.
RemoveMember(r) ==
    /\ req[r].pc = "act" /\ req[r].op = "remove"
    /\ role' = [role EXCEPT ![req[r].group][req[r].target] = "none"]
    /\ req' = [req EXCEPT ![r] =
                 PushOnly(@, {<<req[r].target, "none">>})]
    /\ UNCHANGED <<owner, status, due, muc, granted>>

-----------------------------------------------------------------------------
(* Pushing affiliations to ejabberd.                                       *)

\* _member_affiliation: the owner is owner whatever the stored role says.
MemberAffiliation(g, u) ==
    IF u = owner[g] THEN "owner"
    ELSE IF role[g][u] = "admin" THEN "admin" ELSE "member"

\* Mutant: the list is not restricted to the rows of the group.
ListMembersAll(r) ==
    /\ req[r].pc = "list"
    /\ req' = [req EXCEPT ![r] =
                 [@ EXCEPT !.pc = "push",
                           !.todo = {<<u, MemberAffiliation(req[r].group, u)>> : u \in Users}]]
    /\ UNCHANGED <<db, muc, granted>>

\* _group_members, the list that _sync_members_to_muc walks
ListMembers(r) ==
    LET g == req[r].group
        listed == {u \in Users : /\ role[g][u] # "none"
                                 /\ TenantOf[u] = TenantOf[req[r].user]}
    IN  /\ req[r].pc = "list"
        /\ req' = [req EXCEPT ![r] =
                     [@ EXCEPT !.pc = "push",
                               !.todo = {<<u, MemberAffiliation(g, u)>> : u \in listed}]]
        /\ UNCHANGED <<db, muc, granted>>

\* Mutant: the loop stays with a member until its push was applied.
PushedAtLast(r, p, ok) ==
    LET q == req[r]
    IN  req' = [req EXCEPT ![r] = [q EXCEPT !.todo = IF ok THEN q.todo \ {p} ELSE q.todo,
                                            !.skipped = q.skipped \/ ~ok]]

\* The loop goes on to the next member whatever became of this one.
Pushed(r, p, ok) ==
    LET q == req[r]
    IN  req' = [req EXCEPT ![r] = [q EXCEPT !.todo = q.todo \ {p},
                                            !.skipped = q.skipped \/ ~ok]]

SetAffiliation(g, u, a) ==
    affil' = [affil EXCEPT ![g][u] = a]

\* Mutant: "none" is not sent, as if it were the default.
PushAppliedNotNone(r, p) ==
    /\ creator[req[r].group] # None
    /\ IF p[2] = "none" THEN UNCHANGED affil
       ELSE SetAffiliation(req[r].group, p[1], p[2])
    /\ Pushed(r, p, TRUE)
    /\ UNCHANGED <<db, creator, late, lost, granted>>

PushApplied(r, p) ==
    /\ creator[req[r].group] # None
    /\ SetAffiliation(req[r].group, p[1], p[2])
    /\ Pushed(r, p, TRUE)
    /\ UNCHANGED <<db, creator, late, lost, granted>>

\* No such room: logged and counted as skipped.
PushMissing(r, p) ==
    /\ creator[req[r].group] = None
    /\ Pushed(r, p, FALSE)
    /\ UNCHANGED <<db, muc, granted>>

\* What a change of membership still had to push goes astray.
Lose(q, pairs) ==
    lost' = IF q.op \in {"add", "remove"}
            THEN lost \cup {<<q.group, p[1]>> : p \in pairs} ELSE lost

\* Connection refused, HTTP error, or synchronisation switched off.
PushFails(r, p) ==
    /\ "push" \in Faults
    /\ Lose(req[r], {p})
    /\ Pushed(r, p, FALSE)
    /\ UNCHANGED <<db, creator, affil, late, granted>>

\* The caller gives up after EJABBERD_API_TIMEOUT; ejabberd still runs it.
PushTimesOut(r, p) ==
    /\ "late" \in Faults
    /\ Cardinality(late) < MaxLate
    /\ late' = late \cup {<<req[r].group, p[1], p[2]>>}
    /\ lost' = lost \cup {<<req[r].group, p[1]>>}
    /\ Pushed(r, p, FALSE)
    /\ UNCHANGED <<db, creator, affil, granted>>

Push(r) ==
    /\ req[r].pc = "push"
    /\ \E p \in req[r].todo :
        PushApplied(r, p) \/ PushMissing(r, p) \/ PushFails(r, p) \/ PushTimesOut(r, p)

\* The answer to join carries the room's address and configuration.
Respond(r) ==
    /\ req[r].pc = "push" /\ req[r].todo = {}
    /\ granted' = IF req[r].op = "join" /\ creator[req[r].group] = None
                  THEN granted \cup {<<req[r].group, req[r].user>>} ELSE granted
    /\ Reply(r)
    /\ UNCHANGED <<db, muc>>

-----------------------------------------------------------------------------
(* The world around the handlers.                                          *)

\* The auth_service process stops: open transactions roll back, pushes that
\* were not sent never are.
Crash(r) ==
    /\ "crash" \in Faults
    /\ req[r].pc # "idle"
    /\ Lose(req[r], IF req[r].pc = "push" THEN req[r].todo ELSE {})
    /\ Reply(r)
    /\ UNCHANGED <<db, creator, affil, late, granted>>

\* A client with a permission enters the room; ejabberd creates a room for
\* its first occupant and makes that occupant its owner.
OpenRoom(g, u) ==
    /\ <<g, u>> \in granted
    /\ creator[g] = None
    /\ creator' = [creator EXCEPT ![g] = u]
    /\ SetAffiliation(g, u, "owner")
    /\ granted' = {x \in granted : x[1] # g}
    /\ UNCHANGED <<db, late, lost, req>>

LateApply(x) ==
    /\ late' = late \ {x}
    /\ IF creator[x[1]] = None THEN UNCHANGED affil
       ELSE SetAffiliation(x[1], x[2], x[3])
    /\ UNCHANGED <<db, creator, lost, granted, req>>

-----------------------------------------------------------------------------
Init ==
    /\ owner = [g \in Groups |-> None]
    /\ status = [g \in Groups |-> "absent"]
    /\ role = [g \in Groups |-> [u \in Users |-> "none"]]
    /\ creator = [g \in Groups |-> None]
    /\ affil = [g \in Groups |-> [u \in Users |-> "none"]]
    /\ late = {} /\ lost = {}
    /\ granted = {}
    /\ req = [r \in Reqs |-> Answered]
    /\ due = [g \in Groups |-> [u \in Users |-> {"none"}]]

Receives(r) ==
    \E u \in Users :
        \/ \E ms \in SUBSET Users : ReceiveCreate(r, u, ms)
        \/ \E g \in Groups :
            \/ \E op \in {"sync", "join"} : ReceiveRead(r, u, g, op)
            \/ \E new \in {"active", "archived", "keep"} : ReceiveUpdate(r, u, g, new)
            \/ \E m \in Users, new \in {"member", "admin"} : ReceiveAdd(r, u, g, m, new)
            \/ \E m \in Users : ReceiveRemove(r, u, g, m)

\* One step of the handler of r, other than a crash.
Handle(r) ==
    \/ ReadGroup(r) \/ ReadMember(r) \/ Refuse(r)
    \/ CreateGroup(r) \/ UpdateGroup(r) \/ AddMember(r) \/ RemoveMember(r)
    \/ ListMembers(r) \/ Push(r) \/ Respond(r)

World ==
    \/ \E g \in Groups, u \in Users : OpenRoom(g, u)
    \/ \E x \in late : LateApply(x)

Next == World \/ \E r \in Reqs : Receives(r) \/ Handle(r) \/ Crash(r)

Spec == Init /\ [][Next]_vars

\* uvicorn keeps running a handler it started and every call a handler makes
\* has a timeout; users, ejabberd and Keycloak owe nothing.
FairSpec == Spec /\ \A r \in Reqs : WF_vars(Handle(r))

-----------------------------------------------------------------------------
(* Properties.                                                             *)

\* Every variable keeps the shape the tables, the room and the handlers have.
TypeOK ==
    /\ owner \in [Groups -> Users \cup {None}]
    /\ status \in [Groups -> {"absent", "active", "archived"}]
    /\ role \in [Groups -> [Users -> Affiliations]]
    /\ creator \in [Groups -> Users \cup {None}]
    /\ affil \in [Groups -> [Users -> Affiliations]]
    /\ late \in SUBSET (Groups \X Users \X Affiliations)
    /\ lost \in SUBSET (Groups \X Users)
    /\ granted \in SUBSET (Groups \X Users)
    /\ req \in [Reqs -> Request]
    /\ due \in [Groups -> [Users -> SUBSET Affiliations]]

\* The owner of a group always has a row in it, although remove_member checks
\* in one transaction and deletes in another while others add, demote and leave.
OwnerKeepsRow ==
    \A g \in Groups : status[g] # "absent" => role[g][owner[g]] # "none"

\* An affiliation in the room is one that a stored row of this user justified
\* at some time (or the first occupant's): stale snapshots, lost and late
\* pushes may bring an old one back, never one the user was not given.
AffiliationsWereDue ==
    \A g \in Groups, u \in Users :
        affil[g][u] \in due[g][u] \cup (IF u = creator[g] THEN {"owner"} ELSE {})

\* Nobody outside the owner's tenant and vhost gets a row, an affiliation, a
\* permission to open, or is named in a call on its way to ejabberd.
SameTenantOnly ==
    \A g \in Groups, u \in Users :
        \/ role[g][u] # "none"
        \/ affil[g][u] # "none"
        \/ <<g, u>> \in granted
        \/ \E a \in Affiliations : <<g, u, a>> \in late
        => /\ status[g] # "absent"
           /\ TenantOf[u] = TenantOf[owner[g]]

\* The stored memberships behave as if every API call were one step.
GM == INSTANCE GroupMembership WITH owner <- owner, status <- status, role <- role
Membership == GM!Spec

\* The affiliation the stored row of u stands for.
Expected(g, u) ==
    IF role[g][u] = "none" THEN "none"
    ELSE IF u = owner[g] THEN "owner" ELSE role[g][u]

\* When sync, get or join answers and skipped nobody, the room (opened first
\* by its owner) has exactly the stored membership, but for those whose change
\* never reached it (docs/tenant_groups.md:39).
SyncAligns ==
    [][\A r \in Reqs :
         /\ Respond(r)
         /\ req[r].op \in {"sync", "join"}
         /\ ~req[r].skipped
         /\ creator[req[r].group] = owner[req[r].group]
         => \A u \in Users :
              \/ affil[req[r].group][u] = Expected(req[r].group, u)
              \/ <<req[r].group, u>> \in lost]_vars

\* With no call in progress nor on its way, a room opened first by its owner
\* admits nobody who has no row (docs/tenant_groups.md:3).
NoLeftovers ==
    (\A r \in Reqs : req[r].pc = "idle") /\ late = {}
    => \A g \in Groups, u \in Users :
          creator[g] # None /\ creator[g] = owner[g] /\ role[g][u] = "none"
          => affil[g][u] = "none"

\* Every call that arrives is answered, also when ejabberd has no such room.
EveryCallAnswered ==
    \A r \in Reqs : req[r].pc # "idle" ~> req[r].pc = "idle"

\* Whoever has lost the row loses the affiliation, or gets a row again, or
\* the push that should have told the room went astray.
RemovalTakesEffect ==
    \A g \in Groups, u \in Users :
        creator[g] # None /\ creator[g] = owner[g] /\ role[g][u] = "none"
        ~> \/ affil[g][u] = "none" \/ role[g][u] # "none"
           \/ <<g, u>> \in lost
=============================================================================
