------------------------- MODULE GroupServiceProofs -------------------------
(* Theorems about GroupService, for every set of users, groups, handlers    *)
(* and faults.                                                             *)
EXTENDS GroupService, TLAPS

(* The inductive invariant.  The safety properties talk about the tables    *)
(* and the room; what keeps them is what every handler already knows at its *)
(* program counter.                                                        *)

\* What a handler past its checks, or on its way to them, has established.
CallKnows(q) ==
    /\ q.pc # "idle" /\ q.op # "create" => q.group \in Groups
    /\ q.pc \in {"group", "member", "list", "act"} => q.user \in Users
    /\ q.pc \in {"group", "member", "act"} /\ q.op \in {"add", "remove"}
       => q.target \in Users /\ TenantOf[q.target] = TenantOf[q.user]
    /\ q.pc \in {"member", "list", "act", "push"} /\ q.op # "create"
       => status[q.group] # "absent"
    /\ q.pc \in {"member", "list", "act"} /\ q.op # "create"
       => TenantOf[q.user] = TenantOf[owner[q.group]]
    /\ q.pc = "push" /\ q.op = "join"
       => q.user \in Users /\ TenantOf[q.user] = TenantOf[owner[q.group]]
    /\ q.op = "create" => q.pc = "act"
    /\ q.pc = "list" => q.op \in {"sync", "join"}
    /\ q.pc = "act" => q.op \in {"create", "update", "add", "remove"}
    /\ q.pc = "act" /\ q.op = "update" => q.arg \in {"active", "archived"}
    /\ q.pc = "group" /\ q.op = "update" => q.arg \in {"active", "archived", "keep"}
    /\ q.pc = "member" /\ q.op = "update" => q.arg \in {"active", "archived"}
    /\ q.op = "add" /\ q.pc \in {"group", "member", "act"} => q.arg \in {"member", "admin"}

\* The rows a creation will insert.
CreationKnows(q) ==
    q.op = "create" =>
        /\ q.user \in Users
        /\ <<q.user, "owner">> \in q.todo
        /\ \A p \in q.todo : /\ p[2] \in {"owner", "member"}
                             /\ p[2] = "owner" => p[1] = q.user
                             /\ TenantOf[p[1]] = TenantOf[q.user]

\* Only a target that is not the owner gets past the checks of remove_member.
DeletesSpareOwner(q) ==
    q.op = "remove" /\ q.pc = "act" => q.target # owner[q.group]

\* Every affiliation about to be pushed was due.
PushesWereDue(q) ==
    q.pc = "push" =>
        \A p \in q.todo : /\ p[2] \in due[q.group][p[1]]
                          /\ TenantOf[p[1]] = TenantOf[owner[q.group]]

HandlersKnow ==
    \A r \in Reqs : /\ CallKnows(req[r])
                    /\ CreationKnows(req[r])
                    /\ DeletesSpareOwner(req[r])
                    /\ PushesWereDue(req[r])

\* A group that exists has an owner, to whom "owner" is due.
GroupsHaveOwners ==
    \A g \in Groups : status[g] # "absent" =>
        owner[g] \in Users /\ "owner" \in due[g][owner[g]]

\* Nobody becomes "owner" after the creation.
OneOwner ==
    \A g \in Groups, u \in Users : role[g][u] = "owner" => u = owner[g]

\* What a row says, and what any user may always be pushed to, was due.
RowsWereDue ==
    \A g \in Groups, u \in Users : {"none", role[g][u]} \subseteq due[g][u]

LateWereDue ==
    \A x \in late : x[3] \in due[x[1]][x[2]]

\* A call on its way names a group and a user of its tenant.
LateBelong ==
    \A x \in late : status[x[1]] # "absent" /\ TenantOf[x[2]] = TenantOf[owner[x[1]]]

IInv ==
    /\ TypeOK
    /\ HandlersKnow
    /\ GroupsHaveOwners
    /\ OneOwner
    /\ RowsWereDue
    /\ LateWereDue
    /\ LateBelong
    /\ SameTenantOnly
    /\ OwnerKeepsRow
    /\ AffiliationsWereDue

-----------------------------------------------------------------------------

\* The empty tables satisfy the invariant.
LEMMA InitInv == Init => IInv
  <1> SUFFICES ASSUME Init PROVE IInv
    OBVIOUS
  <1>1. TypeOK
    BY NoneAssumption DEF Init, TypeOK, Affiliations, Request, Answered
  <1>2. HandlersKnow
    BY DEF Init, HandlersKnow, CallKnows, CreationKnows, DeletesSpareOwner,
           PushesWereDue, Answered
  <1>3. GroupsHaveOwners /\ OneOwner /\ RowsWereDue /\ LateWereDue /\ LateBelong
    BY DEF Init, GroupsHaveOwners, OneOwner, RowsWereDue, LateWereDue, LateBelong
  <1>4. SameTenantOnly /\ OwnerKeepsRow /\ AffiliationsWereDue
    BY DEF Init, SameTenantOnly, OwnerKeepsRow, AffiliationsWereDue
  <1>5. QED
    BY <1>1, <1>2, <1>3, <1>4 DEF IInv

\* A step that changes one handler only: it is enough to look at what that
\* handler knows afterwards.
LEMMA HandlerLoses ==
  ASSUME IInv, NEW r \in Reqs, NEW q \in Request,
         req' = [req EXCEPT ![r] = q],
         UNCHANGED <<db, creator, affil, late, granted>>,
         lost' \in SUBSET (Groups \X Users),
         CallKnows(q), CreationKnows(q), DeletesSpareOwner(q), PushesWereDue(q)
  PROVE  IInv'
  <1> USE DEF db
  <1>1. TypeOK'
    BY DEF IInv, TypeOK
  <1>2. HandlersKnow'
    <2> SUFFICES ASSUME NEW x \in Reqs
                 PROVE  /\ CallKnows(req[x])' /\ CreationKnows(req[x])'
                        /\ DeletesSpareOwner(req[x])' /\ PushesWereDue(req[x])'
      BY DEF HandlersKnow
    <2>1. req'[x] = IF x = r THEN q ELSE req[x]
      BY DEF IInv, TypeOK
    <2>2. /\ CallKnows(req[x]) /\ CreationKnows(req[x])
          /\ DeletesSpareOwner(req[x]) /\ PushesWereDue(req[x])
      BY DEF IInv, HandlersKnow
    <2>3. CallKnows(req[x])'
      BY <2>1, <2>2 DEF CallKnows
    <2>4. CreationKnows(req[x])'
      BY <2>1, <2>2 DEF CreationKnows
    <2>5. DeletesSpareOwner(req[x])'
      BY <2>1, <2>2 DEF DeletesSpareOwner
    <2>6. PushesWereDue(req[x])'
      BY <2>1, <2>2 DEF PushesWereDue
    <2>7. QED
      BY <2>3, <2>4, <2>5, <2>6
  <1>3. /\ GroupsHaveOwners' /\ OneOwner' /\ RowsWereDue' /\ LateWereDue' /\ LateBelong'
        /\ SameTenantOnly' /\ OwnerKeepsRow' /\ AffiliationsWereDue'
    <2>1. GroupsHaveOwners' /\ OneOwner' /\ RowsWereDue' /\ OwnerKeepsRow'
      BY DEF IInv, GroupsHaveOwners, OneOwner, RowsWereDue, OwnerKeepsRow
    <2>2. LateWereDue' /\ LateBelong'
      BY DEF IInv, LateWereDue, LateBelong
    <2>3. SameTenantOnly'
      BY DEF IInv, SameTenantOnly
    <2>4. AffiliationsWereDue'
      BY DEF IInv, AffiliationsWereDue
    <2>5. QED
      BY <2>1, <2>2, <2>3, <2>4
  <1>4. QED
    BY <1>1, <1>2, <1>3 DEF IInv

\* The same when nothing goes astray.
LEMMA HandlerStep ==
  ASSUME IInv, NEW r \in Reqs, NEW q \in Request,
         req' = [req EXCEPT ![r] = q],
         UNCHANGED <<db, muc, granted>>,
         CallKnows(q), CreationKnows(q), DeletesSpareOwner(q), PushesWereDue(q)
  PROVE  IInv'
  BY HandlerLoses DEF muc, IInv, TypeOK

\* What goes astray belongs to the call's group.
LEMMA LoseTyped ==
  ASSUME IInv, NEW q \in Request, NEW pairs \in SUBSET Pairs,
         q.op \in {"add", "remove"} /\ pairs # {} => q.group \in Groups, Lose(q, pairs)
  PROVE  lost' \in SUBSET (Groups \X Users)
  BY DEF Lose, Pairs, IInv, TypeOK

\* What every case below starts from.
LEMMA Known ==
  ASSUME IInv, NEW r \in Reqs
  PROVE  /\ req[r] \in Request
         /\ CallKnows(req[r]) /\ CreationKnows(req[r])
         /\ DeletesSpareOwner(req[r]) /\ PushesWereDue(req[r])
  BY DEF IInv, TypeOK, HandlersKnow

\* An idle handler makes no claim.
LEMMA AnsweredKnows ==
  /\ Answered \in Request
  /\ CallKnows(Answered) /\ CreationKnows(Answered)
  /\ DeletesSpareOwner(Answered) /\ PushesWereDue(Answered)
  BY DEF Answered, Request, CallKnows, CreationKnows, DeletesSpareOwner, PushesWereDue

\* A request that arrives has passed the tenant check of its route.
LEMMA ReceivesInv ==
  ASSUME IInv, NEW r \in Reqs, Receives(r) PROVE IInv'
  <1> PICK u \in Users :
        \/ \E ms \in SUBSET Users : ReceiveCreate(r, u, ms)
        \/ \E g \in Groups :
            \/ \E op \in {"sync", "join"} : ReceiveRead(r, u, g, op)
            \/ \E new \in {"active", "archived", "keep"} : ReceiveUpdate(r, u, g, new)
            \/ \E m \in Users, new \in {"member", "admin"} : ReceiveAdd(r, u, g, m, new)
            \/ \E m \in Users : ReceiveRemove(r, u, g, m)
    BY DEF Receives
  <1> USE DEF Answered, Request, Calls, Affiliations, Receive, ValidMember,
              CallKnows, CreationKnows, DeletesSpareOwner, PushesWereDue
  <1>1. ASSUME NEW ms \in SUBSET Users, ReceiveCreate(r, u, ms) PROVE IInv'
    <2> DEFINE todo == {<<u, "owner">>} \cup {<<m, "member">> : m \in ms \ {u}}
               q == [Answered EXCEPT !.op = "create", !.pc = "act", !.user = u,
                       !.todo = todo]
    <2>0. \A m \in ms : TenantOf[m] = TenantOf[u]
      BY <1>1 DEF ReceiveCreate
    <2>1. /\ todo \in SUBSET Pairs
          /\ <<u, "owner">> \in todo
          /\ \A p \in todo : /\ p[2] \in {"owner", "member"}
                             /\ p[2] = "owner" => p[1] = u
                             /\ TenantOf[p[1]] = TenantOf[u]
      <3>1. todo \in SUBSET Pairs
        BY DEF Pairs
      <3>2. <<u, "owner">> \in todo
        OBVIOUS
      <3>3. ASSUME NEW p \in todo
            PROVE  /\ p[2] \in {"owner", "member"}
                   /\ p[2] = "owner" => p[1] = u
                   /\ TenantOf[p[1]] = TenantOf[u]
        <4>1. CASE p = <<u, "owner">>
          BY <4>1
        <4>2. CASE \E m \in ms : p = <<m, "member">>
          BY <4>2, <2>0
        <4>3. QED
          BY <4>1, <4>2
      <3>4. QED
        BY <3>1, <3>2, <3>3
    <2>2. req' = [req EXCEPT ![r] = q] /\ UNCHANGED <<db, muc, granted>>
      BY <1>1 DEF ReceiveCreate
    <2> HIDE DEF todo
    <2>3. q \in Request /\ CallKnows(q) /\ DeletesSpareOwner(q) /\ PushesWereDue(q)
      BY <2>1
    <2>4. CreationKnows(q)
      BY <2>1
    <2>5. QED
      BY <2>2, <2>3, <2>4, HandlerStep
  <1>2. ASSUME NEW g \in Groups, NEW op \in {"sync", "join"}, ReceiveRead(r, u, g, op)
        PROVE  IInv'
    BY <1>2, HandlerStep DEF ReceiveRead
  <1>3. ASSUME NEW g \in Groups, NEW new \in {"active", "archived", "keep"},
               ReceiveUpdate(r, u, g, new)
        PROVE  IInv'
    BY <1>3, HandlerStep DEF ReceiveUpdate
  <1>4. ASSUME NEW g \in Groups, NEW m \in Users, NEW new \in {"member", "admin"},
               ReceiveAdd(r, u, g, m, new)
        PROVE  IInv'
    BY <1>4, HandlerStep DEF ReceiveAdd
  <1>5. ASSUME NEW g \in Groups, NEW m \in Users, ReceiveRemove(r, u, g, m)
        PROVE  IInv'
    BY <1>5, HandlerStep DEF ReceiveRemove
  <1>6. QED
    BY <1>1, <1>2, <1>3, <1>4, <1>5

\* The SELECTs and refusals only move the handler on.
LEMMA ChecksInv ==
  ASSUME IInv, NEW r \in Reqs, ReadGroup(r) \/ ReadMember(r) \/ Refuse(r) \/ Crash(r)
  PROVE  IInv'
  <1> USE Known
  <1>1. CASE ReadGroup(r)
    <2> DEFINE arg == IF req[r].arg = "keep" THEN status[req[r].group] ELSE req[r].arg
               q == [req[r] EXCEPT !.pc = "member", !.arg = arg]
    <2>1. arg \in {"none", "member", "admin", "active", "archived"}
          /\ (req[r].op = "update" => arg \in {"active", "archived"})
      BY <1>1 DEF ReadGroup, GroupFound, CallKnows, Request, IInv, TypeOK
    <2>2. q \in Request
      BY <2>1 DEF Request
    <2>3. CallKnows(q)
      BY <1>1, <2>1 DEF ReadGroup, GroupFound, CallKnows, Request
    <2>4. CreationKnows(q) /\ DeletesSpareOwner(q) /\ PushesWereDue(q)
      BY <1>1 DEF ReadGroup, CallKnows, CreationKnows, DeletesSpareOwner,
                  PushesWereDue, Request
    <2>5. req' = [req EXCEPT ![r] = q] /\ UNCHANGED <<db, muc, granted>>
      BY <1>1 DEF ReadGroup
    <2>6. QED
      BY <2>2, <2>3, <2>4, <2>5, HandlerStep
  <1>2. CASE ReadMember(r)
    <2> DEFINE q == [req[r] EXCEPT !.pc = IF req[r].op \in {"sync", "join"}
                                          THEN "list" ELSE "act"]
    <2>1. q \in Request
      BY DEF Request
    <2>2. CallKnows(q)
      BY <1>2 DEF ReadMember, Permitted, CallKnows, Request
    <2>3. CreationKnows(q) /\ DeletesSpareOwner(q) /\ PushesWereDue(q)
      BY <1>2 DEF ReadMember, Permitted, MayRemove, CallKnows, CreationKnows,
                  DeletesSpareOwner, PushesWereDue, Request
    <2>4. QED
      BY <1>2, <2>1, <2>2, <2>3, HandlerStep DEF ReadMember
  <1>3. CASE Refuse(r)
    BY <1>3, AnsweredKnows, HandlerStep DEF Refuse, Reply
  <1>4. CASE Crash(r)
    <2>1. lost' \in SUBSET (Groups \X Users)
      BY <1>4, LoseTyped DEF Crash, CallKnows, Request
    <2>2. QED
      BY <1>4, <2>1, AnsweredKnows, HandlerLoses DEF Crash, Reply
  <1>5. QED
    BY <1>1, <1>2, <1>3, <1>4

\* Groups never disappear nor change owners and justifications are never taken
\* back, so what a handler knows stays true while others write.
LEMMA OthersKeep ==
  ASSUME IInv,
         \A x \in Reqs : \/ req'[x] = req[x]
                         \/ /\ CallKnows(req[x])' /\ CreationKnows(req[x])'
                            /\ DeletesSpareOwner(req[x])' /\ PushesWereDue(req[x])',
         \A g \in Groups : status[g] # "absent" =>
                              status'[g] # "absent" /\ owner'[g] = owner[g],
         \A g \in Groups, u \in Users : due[g][u] \subseteq due'[g][u]
  PROVE  HandlersKnow'
  <1> SUFFICES ASSUME NEW x \in Reqs, req'[x] = req[x]
               PROVE  /\ CallKnows(req[x])' /\ CreationKnows(req[x])'
                      /\ DeletesSpareOwner(req[x])' /\ PushesWereDue(req[x])'
    BY DEF HandlersKnow
  <1> USE Known
  <1>1. CallKnows(req[x])'
    BY DEF CallKnows, Request, Pairs
  <1>2. CreationKnows(req[x])'
    BY DEF CreationKnows
  <1>3. DeletesSpareOwner(req[x])'
    BY DEF DeletesSpareOwner, CallKnows, Request
  <1>4. PushesWereDue(req[x])'
    BY DEF PushesWereDue, CallKnows, Request, Pairs
  <1>5. QED
    BY <1>1, <1>2, <1>3, <1>4

\* The handler whose call has just ended.
LEMMA ReplyKnows ==
  ASSUME IInv, NEW r \in Reqs, Reply(r)
  PROVE  /\ req' \in [Reqs -> Request]
         /\ \A x \in Reqs : \/ req'[x] = req[x]
                            \/ /\ CallKnows(req[x])' /\ CreationKnows(req[x])'
                               /\ DeletesSpareOwner(req[x])' /\ PushesWereDue(req[x])'
  <1>1. req' \in [Reqs -> Request]
    BY AnsweredKnows DEF Reply, IInv, TypeOK
  <1>2. \A x \in Reqs : req'[x] = IF x = r THEN Answered ELSE req[x]
    BY DEF Reply, IInv, TypeOK
  <1>3. QED
    BY <1>1, <1>2 DEF Answered, CallKnows, CreationKnows, DeletesSpareOwner, PushesWereDue

\* create_group writes a group with an owner row and members of one tenant.
LEMMA CreateGroupInv ==
  ASSUME IInv, NEW r \in Reqs, CreateGroup(r) PROVE IInv'
  <1> USE Known, ReplyKnows DEF muc
  <1> DEFINE rows == [u \in Users |->
                        IF <<u, "owner">> \in req[r].todo THEN "owner"
                        ELSE IF <<u, "member">> \in req[r].todo THEN "member"
                        ELSE "none"]
  <1>0. PICK g \in Groups :
          /\ status[g] = "absent"
          /\ owner' = [owner EXCEPT ![g] = req[r].user]
          /\ status' = [status EXCEPT ![g] = "active"]
          /\ role' = [role EXCEPT ![g] = rows]
          /\ due' = [due EXCEPT ![g] = [u \in Users |-> @[u] \cup {rows[u]}]]
          /\ granted' = granted \cup {<<g, req[r].user>>}
    BY DEF CreateGroup
  <1>1. req[r].op = "create" /\ Reply(r) /\ UNCHANGED muc
    BY DEF CreateGroup
  <1>2. req[r].user \in Users
    BY <1>1 DEF CreationKnows
  <1>3. /\ <<req[r].user, "owner">> \in req[r].todo
        /\ \A u \in Users : <<u, "owner">> \in req[r].todo => u = req[r].user
        /\ \A u \in Users, a \in Affiliations :
              <<u, a>> \in req[r].todo => TenantOf[u] = TenantOf[req[r].user]
    BY <1>1 DEF CreationKnows
  <1>4. rows \in [Users -> Affiliations]
    BY DEF Affiliations
  <1>5. /\ rows[req[r].user] = "owner"
        /\ \A u \in Users : rows[u] = "owner" => u = req[r].user
        /\ \A u \in Users : rows[u] # "none" => TenantOf[u] = TenantOf[req[r].user]
    BY <1>2, <1>3 DEF Affiliations
  <1> HIDE DEF rows
  <1>6. \A h \in Groups : /\ owner'[h] = IF h = g THEN req[r].user ELSE owner[h]
                          /\ status'[h] = IF h = g THEN "active" ELSE status[h]
                          /\ role'[h] = IF h = g THEN rows ELSE role[h]
    BY <1>0 DEF IInv, TypeOK
  <1>a. \A h \in Groups, u \in Users :
          due'[h][u] = IF h = g THEN due[h][u] \cup {rows[u]} ELSE due[h][u]
    BY <1>0 DEF IInv, TypeOK
  <1>7. TypeOK'
    <2>1. due' \in [Groups -> [Users -> SUBSET Affiliations]]
      BY <1>0, <1>4 DEF IInv, TypeOK
    <2>2. QED
      BY <1>0, <1>1, <1>2, <1>4, <2>1 DEF IInv, TypeOK
  <1>8. HandlersKnow'
    BY <1>0, <1>1, <1>6, <1>a, OthersKeep
  <1>9. GroupsHaveOwners' /\ OneOwner'
    <2>1. \A h \in Groups : status'[h] # "absent" => owner'[h] \in Users
      BY <1>2, <1>6 DEF IInv, GroupsHaveOwners
    <2>2. ASSUME NEW h \in Groups, status'[h] # "absent"
          PROVE  "owner" \in due'[h][owner'[h]]
      <3>1. CASE h = g
        BY <3>1, <1>2, <1>5, <1>6, <1>a
      <3>2. CASE h # g
        <4>1. owner'[h] = owner[h] /\ status[h] # "absent"
          BY <2>2, <3>2, <1>6
        <4>2. owner[h] \in Users /\ "owner" \in due[h][owner[h]]
          BY <4>1 DEF IInv, GroupsHaveOwners
        <4>3. QED
          BY <4>1, <4>2, <3>2, <1>a
      <3>3. QED
        BY <3>1, <3>2
    <2>3. OneOwner'
      BY <1>2, <1>5, <1>6 DEF IInv, OneOwner
    <2>4. QED
      BY <2>1, <2>2, <2>3 DEF GroupsHaveOwners
  <1>10. RowsWereDue'
    <2> SUFFICES ASSUME NEW h \in Groups, NEW u \in Users
                 PROVE  "none" \in due'[h][u] /\ role'[h][u] \in due'[h][u]
      BY DEF RowsWereDue
    <2>1. "none" \in due[h][u] /\ role[h][u] \in due[h][u]
      BY DEF IInv, RowsWereDue
    <2>2. QED
      BY <2>1, <1>6, <1>a
  <1>11. LateWereDue' /\ LateBelong'
    BY <1>0, <1>1, <1>6, <1>a DEF IInv, TypeOK, LateWereDue, LateBelong
  <1>12. SameTenantOnly'
    BY <1>0, <1>1, <1>2, <1>5, <1>6 DEF IInv, SameTenantOnly
  <1>13. OwnerKeepsRow'
    BY <1>2, <1>5, <1>6 DEF IInv, OwnerKeepsRow
  <1>14. AffiliationsWereDue'
    <2> SUFFICES ASSUME NEW h \in Groups, NEW u \in Users
                 PROVE  affil'[h][u] \in due'[h][u] \cup
                                          (IF u = creator'[h] THEN {"owner"} ELSE {})
      BY DEF AffiliationsWereDue
    <2>1. affil[h][u] \in due[h][u] \cup (IF u = creator[h] THEN {"owner"} ELSE {})
      BY DEF IInv, AffiliationsWereDue
    <2>2. QED
      BY <2>1, <1>1, <1>a
  <1>15. QED
    BY <1>7, <1>8, <1>9, <1>10, <1>11, <1>12, <1>13, <1>14 DEF IInv

\* A handler that goes on after a write of its own.
LEMMA GoesOn ==
  ASSUME IInv, NEW r \in Reqs, NEW q \in Request, req' = [req EXCEPT ![r] = q]
  PROVE  /\ req' \in [Reqs -> Request]
         /\ req'[r] = q
         /\ \A x \in Reqs \ {r} : req'[x] = req[x]
  BY DEF IInv, TypeOK

\* update_group changes the status only, of a group that exists.
LEMMA UpdateGroupInv ==
  ASSUME IInv, NEW r \in Reqs, UpdateGroup(r) PROVE IInv'
  <1> USE Known, ReplyKnows DEF muc
  <1>1. /\ status' = [status EXCEPT ![req[r].group] = req[r].arg]
        /\ Reply(r) /\ UNCHANGED <<owner, role, due, muc, granted>>
    BY DEF UpdateGroup
  <1>2. req[r].group \in Groups /\ req[r].arg \in {"active", "archived"}
    BY DEF UpdateGroup, CallKnows
  <1>3. status[req[r].group] # "absent"
    BY DEF UpdateGroup, CallKnows
  <1>4. \A g \in Groups : status'[g] = "absent" <=> status[g] = "absent"
    BY <1>1, <1>2, <1>3 DEF IInv, TypeOK
  <1>5. TypeOK'
    BY <1>1, <1>2 DEF IInv, TypeOK
  <1>6. HandlersKnow'
    BY <1>1, <1>4, OthersKeep
  <1>7. GroupsHaveOwners' /\ OneOwner' /\ RowsWereDue'
    BY <1>1, <1>4 DEF IInv, GroupsHaveOwners, OneOwner, RowsWereDue
  <1>8. LateWereDue' /\ LateBelong' /\ SameTenantOnly'
    BY <1>1, <1>4 DEF IInv, TypeOK, LateWereDue, LateBelong, SameTenantOnly
  <1>9. OwnerKeepsRow' /\ AffiliationsWereDue'
    BY <1>1, <1>4 DEF IInv, OwnerKeepsRow, AffiliationsWereDue
  <1>10. QED
    BY <1>5, <1>6, <1>7, <1>8, <1>9 DEF IInv

\* add_member writes a role of the request, for a user of the tenant.
LEMMA AddMemberInv ==
  ASSUME IInv, NEW r \in Reqs, AddMember(r) PROVE IInv'
  <1> USE Known DEF muc
  <1> DEFINE g == req[r].group
             m == req[r].target
             new == req[r].arg
             q == PushOnly(req[r], {<<m, new>>})
  <1>1. /\ role' = [role EXCEPT ![g][m] = new]
        /\ due' = [due EXCEPT ![g][m] = @ \cup {new}]
        /\ req' = [req EXCEPT ![r] = q]
        /\ UNCHANGED <<owner, status, muc, granted>>
    BY DEF AddMember, Upsert
  <1>2. /\ g \in Groups /\ m \in Users /\ new \in {"member", "admin"}
        /\ status[g] # "absent" /\ TenantOf[m] = TenantOf[owner[g]]
    BY DEF AddMember, CallKnows
  <1>3. q \in Request /\ q.op = "add"
    <2>1. {<<m, new>>} \in SUBSET Pairs
      BY <1>2 DEF Pairs, Affiliations
    <2>2. req[r].op = "add"
      BY DEF AddMember
    <2>3. QED
      BY <1>2, <2>1, <2>2 DEF PushOnly, Answered, Request, Calls
  <1>q. q.pc = "push" /\ q.group = g /\ q.todo = {<<m, new>>}
    BY DEF PushOnly, Answered
  <1> HIDE DEF g, m, new, q
  <1>4. \A h \in Groups, u \in Users :
          /\ role'[h][u] = IF h = g /\ u = m THEN new ELSE role[h][u]
          /\ due'[h][u] = IF h = g /\ u = m THEN due[h][u] \cup {new} ELSE due[h][u]
    BY <1>1, <1>2 DEF IInv, TypeOK
  <1>5. TypeOK'
    <2>1. role' \in [Groups -> [Users -> Affiliations]]
      BY <1>1, <1>2 DEF IInv, TypeOK, Affiliations
    <2>2. due' \in [Groups -> [Users -> SUBSET Affiliations]]
      BY <1>1, <1>2 DEF IInv, TypeOK, Affiliations
    <2>3. QED
      BY <1>1, <1>3, <2>1, <2>2, GoesOn DEF IInv, TypeOK
  <1>6. HandlersKnow'
    <2>1. req'[r] = q /\ \A x \in Reqs \ {r} : req'[x] = req[x]
      BY <1>1, <1>3, GoesOn
    <2>2. new \in due'[g][m]
      BY <1>2, <1>4
    <2>3. CallKnows(req[r])' /\ CreationKnows(req[r])' /\ DeletesSpareOwner(req[r])'
      BY <1>1, <1>2, <1>3, <1>q, <2>1 DEF CallKnows, CreationKnows, DeletesSpareOwner
    <2>4. PushesWereDue(req[r])'
      BY <1>1, <1>2, <1>q, <2>1, <2>2 DEF PushesWereDue
    <2>5. QED
      BY <1>1, <1>4, <2>1, <2>3, <2>4, OthersKeep
  <1>7. GroupsHaveOwners' /\ OneOwner' /\ OwnerKeepsRow'
    BY <1>1, <1>2, <1>4 DEF IInv, GroupsHaveOwners, OneOwner, OwnerKeepsRow
  <1>8. RowsWereDue'
    <2> SUFFICES ASSUME NEW h \in Groups, NEW u \in Users
                 PROVE  "none" \in due'[h][u] /\ role'[h][u] \in due'[h][u]
      BY DEF RowsWereDue
    <2>1. "none" \in due[h][u] /\ role[h][u] \in due[h][u]
      BY DEF IInv, RowsWereDue
    <2>2. QED
      BY <2>1, <1>4
  <1>9. LateWereDue' /\ LateBelong'
    BY <1>1, <1>4 DEF IInv, TypeOK, LateWereDue, LateBelong
  <1>10. SameTenantOnly'
    BY <1>1, <1>2, <1>4 DEF IInv, SameTenantOnly
  <1>11. AffiliationsWereDue'
    BY <1>1, <1>4 DEF IInv, AffiliationsWereDue
  <1>12. QED
    BY <1>5, <1>6, <1>7, <1>8, <1>9, <1>10, <1>11 DEF IInv

\* remove_member's second transaction deletes a row that is not the owner's.
LEMMA RemoveMemberInv ==
  ASSUME IInv, NEW r \in Reqs, RemoveMember(r) PROVE IInv'
  <1> USE Known DEF muc
  <1> DEFINE g == req[r].group
             m == req[r].target
             q == PushOnly(req[r], {<<m, "none">>})
  <1>1. /\ role' = [role EXCEPT ![g][m] = "none"]
        /\ req' = [req EXCEPT ![r] = q]
        /\ UNCHANGED <<owner, status, due, muc, granted>>
    BY DEF RemoveMember
  <1>2. /\ g \in Groups /\ m \in Users
        /\ status[g] # "absent" /\ TenantOf[m] = TenantOf[owner[g]]
        /\ m # owner[g]
    BY DEF RemoveMember, CallKnows, DeletesSpareOwner
  <1>3. q \in Request /\ q.op = "remove"
    <2>1. {<<m, "none">>} \in SUBSET Pairs
      BY <1>2 DEF Pairs, Affiliations
    <2>2. req[r].op = "remove"
      BY DEF RemoveMember
    <2>3. QED
      BY <1>2, <2>1, <2>2 DEF PushOnly, Answered, Request, Calls
  <1>q. q.pc = "push" /\ q.group = g /\ q.todo = {<<m, "none">>}
    BY DEF PushOnly, Answered
  <1> HIDE DEF g, m, q
  <1>4. \A h \in Groups, u \in Users :
          role'[h][u] = IF h = g /\ u = m THEN "none" ELSE role[h][u]
    BY <1>1, <1>2 DEF IInv, TypeOK
  <1>5. TypeOK'
    <2>1. role' \in [Groups -> [Users -> Affiliations]]
      BY <1>1, <1>2 DEF IInv, TypeOK, Affiliations
    <2>2. QED
      BY <1>1, <1>3, <2>1, GoesOn DEF IInv, TypeOK
  <1>6. HandlersKnow'
    <2>1. req'[r] = q /\ \A x \in Reqs \ {r} : req'[x] = req[x]
      BY <1>1, <1>3, GoesOn
    <2>2. "none" \in due'[g][m]
      BY <1>1, <1>2 DEF IInv, RowsWereDue
    <2>3. CallKnows(req[r])' /\ CreationKnows(req[r])' /\ DeletesSpareOwner(req[r])'
      BY <1>1, <1>2, <1>3, <1>q, <2>1 DEF CallKnows, CreationKnows, DeletesSpareOwner
    <2>4. PushesWereDue(req[r])'
      BY <1>1, <1>2, <1>q, <2>1, <2>2 DEF PushesWereDue
    <2>5. QED
      BY <1>1, <2>1, <2>3, <2>4, OthersKeep
  <1>7. GroupsHaveOwners' /\ OneOwner'
    BY <1>1, <1>4 DEF IInv, GroupsHaveOwners, OneOwner
  <1>8. OwnerKeepsRow'
    BY <1>1, <1>2, <1>4 DEF IInv, GroupsHaveOwners, OwnerKeepsRow
  <1>9. RowsWereDue'
    BY <1>1, <1>4 DEF IInv, RowsWereDue
  <1>10. LateWereDue' /\ LateBelong' /\ AffiliationsWereDue'
    BY <1>1 DEF IInv, LateWereDue, LateBelong, AffiliationsWereDue
  <1>11. SameTenantOnly'
    BY <1>1, <1>4 DEF IInv, SameTenantOnly
  <1>12. QED
    BY <1>5, <1>6, <1>7, <1>8, <1>9, <1>10, <1>11 DEF IInv

\* What is listed to be pushed was justified by the rows of that moment.
LEMMA ListMembersInv ==
  ASSUME IInv, NEW r \in Reqs, ListMembers(r) PROVE IInv'
  <1> USE Known
  <1> DEFINE g == req[r].group
             listed == {u \in Users : /\ role[g][u] # "none"
                                      /\ TenantOf[u] = TenantOf[req[r].user]}
             todo == {<<u, MemberAffiliation(g, u)>> : u \in listed}
             q == [req[r] EXCEPT !.pc = "push", !.todo = todo]
  <1>1. /\ req[r].pc = "list"
        /\ req' = [req EXCEPT ![r] = q]
        /\ UNCHANGED <<db, muc, granted>>
    BY DEF ListMembers
  <1>2. /\ g \in Groups /\ status[g] # "absent"
        /\ req[r].op \in {"sync", "join"}
        /\ TenantOf[req[r].user] = TenantOf[owner[g]]
    BY <1>1 DEF CallKnows
  <1>3. ASSUME NEW u \in listed
        PROVE  MemberAffiliation(g, u) \in Affiliations \cap due[g][u]
    BY <1>2 DEF MemberAffiliation, Affiliations, IInv, GroupsHaveOwners, RowsWereDue,
                OneOwner, TypeOK
  <1>4. /\ todo \in SUBSET Pairs
        /\ \A p \in todo : /\ p[2] \in due[g][p[1]]
                           /\ TenantOf[p[1]] = TenantOf[owner[g]]
    BY <1>2, <1>3 DEF Pairs
  <1> HIDE DEF todo
  <1>5. q \in Request
    <2>1. req[r] \in Request
      OBVIOUS
    <2>2. \A z \in Request, t \in SUBSET Pairs :
            [z EXCEPT !.pc = "push", !.todo = t] \in Request
      BY DEF Request
    <2>3. QED
      BY <1>4, <2>1, <2>2
  <1>6. CallKnows(q)
    BY <1>1, <1>2 DEF CallKnows, Request
  <1>7. CreationKnows(q) /\ DeletesSpareOwner(q)
    BY <1>1, <1>2 DEF CreationKnows, DeletesSpareOwner, Request
  <1>8. PushesWereDue(q)
    BY <1>4 DEF PushesWereDue, Request
  <1>9. QED
    BY <1>1, <1>5, <1>6, <1>7, <1>8, HandlerStep

\* A push leaves the rest of the list to do.
LEMMA PushedKnows ==
  ASSUME IInv, NEW r \in Reqs, req[r].pc = "push", NEW p \in req[r].todo,
         NEW ok \in BOOLEAN, Pushed(r, p, ok)
  PROVE  \E q \in Request :
           /\ req' = [req EXCEPT ![r] = q]
           /\ q.pc = "push" /\ q.group = req[r].group
           /\ q.todo = req[r].todo \ {p}
           /\ CallKnows(q) /\ CreationKnows(q)
           /\ DeletesSpareOwner(q) /\ PushesWereDue(q)
  <1> USE Known
  <1> DEFINE skipped == req[r].skipped \/ ~ok
             q == [req[r] EXCEPT !.todo = req[r].todo \ {p}, !.skipped = skipped]
  <1>1. req' = [req EXCEPT ![r] = q]
    BY DEF Pushed
  <1>2. skipped \in BOOLEAN
    OBVIOUS
  <1> HIDE DEF skipped
  <1>3. q \in Request
    BY <1>2 DEF Request
  <1>4. q.pc = "push" /\ q.group = req[r].group /\ q.todo = req[r].todo \ {p}
    BY DEF Request
  <1>5. CallKnows(q) /\ CreationKnows(q) /\ DeletesSpareOwner(q)
    BY DEF CallKnows, CreationKnows, DeletesSpareOwner, Request
  <1>6. PushesWereDue(q)
    BY <1>4 DEF PushesWereDue
  <1>7. QED
    BY <1>1, <1>3, <1>4, <1>5, <1>6

\* A room that takes an affiliation which was due to a user of its tenant.
LEMMA RoomTakes ==
  ASSUME IInv, NEW g \in Groups, NEW u \in Users, NEW a \in Affiliations,
         SetAffiliation(g, u, a), UNCHANGED db, granted' \subseteq granted,
         \A h \in Groups : creator'[h] \in {creator[h], IF h = g THEN u ELSE creator[h]},
         \A h \in Groups : creator[h] # None => creator'[h] = creator[h],
         creator' \in [Groups -> Users \cup {None}], lost' = lost,
         late' \in SUBSET (Groups \X Users \X Affiliations), late' \subseteq late,
         req' \in [Reqs -> Request],
         a \in due[g][u] \cup (IF u = creator'[g] THEN {"owner"} ELSE {}),
         status[g] # "absent", TenantOf[u] = TenantOf[owner[g]],
         HandlersKnow'
  PROVE  IInv'
  <1> USE NoneAssumption DEF db
  <1>1. \A h \in Groups, v \in Users :
          affil'[h][v] = IF h = g /\ v = u THEN a ELSE affil[h][v]
    BY DEF SetAffiliation, IInv, TypeOK
  <1>2. TypeOK'
    BY DEF SetAffiliation, IInv, TypeOK
  <1>3. GroupsHaveOwners' /\ OneOwner' /\ RowsWereDue' /\ OwnerKeepsRow'
    BY DEF IInv, GroupsHaveOwners, OneOwner, RowsWereDue, OwnerKeepsRow
  <1>4. LateWereDue' /\ LateBelong'
    BY DEF IInv, LateWereDue, LateBelong
  <1>5. SameTenantOnly'
    <2> SUFFICES ASSUME NEW h \in Groups, NEW v \in Users,
                        \/ role[h][v] # "none"
                        \/ affil'[h][v] # "none"
                        \/ <<h, v>> \in granted'
                        \/ \E b \in Affiliations : <<h, v, b>> \in late'
                 PROVE  status[h] # "absent" /\ TenantOf[v] = TenantOf[owner[h]]
      BY DEF SameTenantOnly
    <2>1. CASE h = g /\ v = u
      BY <2>1
    <2>2. CASE ~(h = g /\ v = u)
      BY <2>2, <1>1 DEF IInv, SameTenantOnly
    <2>3. QED
      BY <2>1, <2>2
  <1>6. AffiliationsWereDue'
    <2> SUFFICES ASSUME NEW h \in Groups, NEW v \in Users
                 PROVE  affil'[h][v] \in due[h][v] \cup
                                          (IF v = creator'[h] THEN {"owner"} ELSE {})
      BY DEF AffiliationsWereDue
    <2>1. affil[h][v] \in due[h][v] \cup (IF v = creator[h] THEN {"owner"} ELSE {})
      BY DEF IInv, AffiliationsWereDue
    <2>2. CASE h = g /\ v = u
      BY <2>2, <1>1
    <2>3. CASE ~(h = g /\ v = u)
      BY <2>1, <2>3, <1>1
    <2>4. QED
      BY <2>2, <2>3
  <1>7. QED
    BY <1>2, <1>3, <1>4, <1>5, <1>6 DEF IInv

\* A push brings to the room what the handler was justified to push.
LEMMA PushInv ==
  ASSUME IInv, NEW r \in Reqs, Push(r) PROVE IInv'
  <1> USE Known
  <1> DEFINE g == req[r].group
  <1>1. req[r].pc = "push"
    BY DEF Push
  <1>2. PICK p \in req[r].todo :
          PushApplied(r, p) \/ PushMissing(r, p) \/ PushFails(r, p) \/ PushTimesOut(r, p)
    BY DEF Push
  <1>3. /\ g \in Groups /\ status[g] # "absent"
        /\ p[1] \in Users /\ p[2] \in Affiliations
        /\ p[2] \in due[g][p[1]] /\ TenantOf[p[1]] = TenantOf[owner[g]]
    BY <1>1 DEF CallKnows, PushesWereDue, Request, Pairs
  <1>4. \E ok \in BOOLEAN : Pushed(r, p, ok)
    BY <1>2 DEF PushApplied, PushMissing, PushFails, PushTimesOut
  <1>5. PICK q \in Request :
           /\ req' = [req EXCEPT ![r] = q]
           /\ q.pc = "push" /\ q.group = req[r].group
           /\ q.todo = req[r].todo \ {p}
           /\ CallKnows(q) /\ CreationKnows(q)
           /\ DeletesSpareOwner(q) /\ PushesWereDue(q)
    BY <1>1, <1>4, PushedKnows
  <1>6. CASE PushMissing(r, p) \/ PushFails(r, p)
    <2>1. CASE PushMissing(r, p)
      BY <1>5, <2>1, HandlerStep DEF PushMissing
    <2>2. CASE PushFails(r, p)
      <3>1. lost' \in SUBSET (Groups \X Users)
        BY <1>1, <1>3, <2>2, LoseTyped DEF PushFails, Request
      <3>2. QED
        BY <1>5, <2>2, <3>1, HandlerLoses DEF PushFails
    <2>3. QED
      BY <1>6, <2>1, <2>2
  <1>7. ASSUME UNCHANGED <<db, creator>>
        PROVE  req' \in [Reqs -> Request] /\ HandlersKnow'
    <2>1. req' \in [Reqs -> Request]
      BY <1>5, GoesOn
    <2>2. req'[r] = q /\ \A x \in Reqs \ {r} : req'[x] = req[x]
      BY <1>5, GoesOn
    <2>3. CallKnows(req[r])' /\ CreationKnows(req[r])'
      BY <1>5, <1>7, <2>2 DEF CallKnows, CreationKnows, db
    <2>4. DeletesSpareOwner(req[r])' /\ PushesWereDue(req[r])'
      BY <1>5, <1>7, <2>2 DEF DeletesSpareOwner, PushesWereDue, db
    <2>5. QED
      BY <1>7, <2>1, <2>2, <2>3, <2>4, OthersKeep DEF db
  <1>8. CASE PushApplied(r, p)
    <2>1. /\ SetAffiliation(g, p[1], p[2])
          /\ UNCHANGED <<db, creator, late, lost, granted>>
      BY <1>8 DEF PushApplied
    <2>2. /\ creator' \in [Groups -> Users \cup {None}]
          /\ late' \in SUBSET (Groups \X Users \X Affiliations)
      BY <2>1 DEF IInv, TypeOK
    <2> HIDE DEF g
    <2>3. QED
      BY <1>3, <1>7, <2>1, <2>2, RoomTakes
  <1>9. CASE PushTimesOut(r, p)
    <2>1. /\ late' = late \cup {<<g, p[1], p[2]>>}
          /\ lost' = lost \cup {<<g, p[1]>>}
          /\ UNCHANGED <<db, creator, affil, granted>>
      BY <1>9 DEF PushTimesOut
    <2> HIDE DEF g
    <2> USE DEF db
    <2>2. req' \in [Reqs -> Request] /\ HandlersKnow'
      BY <1>7, <2>1
    <2>3. late' \in SUBSET (Groups \X Users \X Affiliations)
      BY <1>3, <2>1 DEF IInv, TypeOK
    <2>4. TypeOK'
      <3>1. lost' \in SUBSET (Groups \X Users)
        BY <1>3, <2>1 DEF IInv, TypeOK
      <3>2. QED
        BY <2>1, <2>2, <2>3, <3>1 DEF IInv, TypeOK
    <2>5. GroupsHaveOwners' /\ OneOwner' /\ RowsWereDue' /\ OwnerKeepsRow'
          /\ AffiliationsWereDue'
      BY <2>1 DEF IInv, GroupsHaveOwners, OneOwner, RowsWereDue, OwnerKeepsRow,
                  AffiliationsWereDue
    <2>6. LateWereDue' /\ LateBelong'
      BY <1>3, <2>1 DEF IInv, LateWereDue, LateBelong
    <2>7. SameTenantOnly'
      BY <1>3, <2>1 DEF IInv, SameTenantOnly
    <2>8. QED
      BY <2>2, <2>4, <2>5, <2>6, <2>7 DEF IInv
  <1>10. QED
    BY <1>2, <1>6, <1>8, <1>9

\* The answer to join permits a member of the tenant to open the room.
LEMMA RespondInv ==
  ASSUME IInv, NEW r \in Reqs, Respond(r) PROVE IInv'
  <1> USE Known, ReplyKnows DEF db, muc
  <1> DEFINE g == req[r].group
  <1>1. /\ req[r].pc = "push" /\ Reply(r)
        /\ UNCHANGED <<db, muc>>
        /\ \/ granted' = granted
           \/ req[r].op = "join" /\ granted' = granted \cup {<<g, req[r].user>>}
    BY DEF Respond
  <1>2. g \in Groups /\ status[g] # "absent"
    BY <1>1 DEF CallKnows
  <1>3. req[r].op = "join" => /\ req[r].user \in Users
                              /\ TenantOf[req[r].user] = TenantOf[owner[g]]
    BY <1>1 DEF CallKnows
  <1> HIDE DEF g
  <1>4. TypeOK'
    BY <1>1, <1>2, <1>3 DEF IInv, TypeOK
  <1>5. HandlersKnow'
    BY <1>1, OthersKeep
  <1>6. /\ GroupsHaveOwners' /\ OneOwner' /\ RowsWereDue' /\ LateWereDue' /\ LateBelong'
        /\ OwnerKeepsRow' /\ AffiliationsWereDue'
    BY <1>1 DEF IInv, GroupsHaveOwners, OneOwner, RowsWereDue, LateWereDue, LateBelong,
           OwnerKeepsRow, AffiliationsWereDue
  <1>7. SameTenantOnly'
    BY <1>1, <1>2, <1>3 DEF IInv, SameTenantOnly
  <1>8. QED
    BY <1>4, <1>5, <1>6, <1>7 DEF IInv

\* Clients and late calls keep what the handlers established.
LEMMA WorldInv ==
  ASSUME IInv, World PROVE IInv'
  <1>1. ASSUME UNCHANGED <<db, req>> PROVE HandlersKnow'
    BY <1>1, OthersKeep DEF db
  <1>2. ASSUME NEW g \in Groups, NEW u \in Users, OpenRoom(g, u) PROVE IInv'
    <2>1. /\ creator' = [creator EXCEPT ![g] = u] /\ creator[g] = None
          /\ SetAffiliation(g, u, "owner")
          /\ granted' \subseteq granted /\ <<g, u>> \in granted
          /\ UNCHANGED <<db, late, lost, req>>
      BY <1>2 DEF OpenRoom
    <2>2. status[g] # "absent" /\ TenantOf[u] = TenantOf[owner[g]]
      BY <2>1 DEF IInv, SameTenantOnly
    <2>3. /\ creator' \in [Groups -> Users \cup {None}]
          /\ \A h \in Groups : creator'[h] = IF h = g THEN u ELSE creator[h]
          /\ late' \in SUBSET (Groups \X Users \X Affiliations)
          /\ req' \in [Reqs -> Request]
      BY <2>1 DEF IInv, TypeOK
    <2>4. "owner" \in Affiliations
      BY DEF Affiliations
    <2>5. HandlersKnow'
      BY <1>1, <2>1
    <2>6. QED
      BY <2>1, <2>2, <2>3, <2>4, <2>5, RoomTakes
  <1>3. ASSUME NEW x \in late, LateApply(x) PROVE IInv'
    <2>1. /\ x[1] \in Groups /\ x[2] \in Users /\ x[3] \in Affiliations
          /\ late' = late \ {x}
          /\ UNCHANGED <<db, creator, lost, granted, req>>
      BY <1>3 DEF LateApply, IInv, TypeOK
    <2>2. /\ x[3] \in due[x[1]][x[2]] /\ status[x[1]] # "absent"
          /\ TenantOf[x[2]] = TenantOf[owner[x[1]]]
      BY DEF IInv, LateWereDue, LateBelong
    <2>3. /\ creator' \in [Groups -> Users \cup {None}]
          /\ late' \in SUBSET (Groups \X Users \X Affiliations)
          /\ req' \in [Reqs -> Request]
      BY <2>1 DEF IInv, TypeOK
    <2>4. HandlersKnow'
      BY <1>1, <2>1
    <2>5. CASE SetAffiliation(x[1], x[2], x[3])
      BY <2>1, <2>2, <2>3, <2>4, <2>5, RoomTakes
    <2>6. CASE UNCHANGED affil
      <3>1. TypeOK'
        BY <2>1, <2>3, <2>6 DEF db, IInv, TypeOK
      <3>2. LateWereDue' /\ LateBelong' /\ SameTenantOnly'
        BY <2>1, <2>6 DEF db, IInv, LateWereDue, LateBelong, SameTenantOnly
      <3>3. /\ GroupsHaveOwners' /\ OneOwner' /\ RowsWereDue'
            /\ OwnerKeepsRow' /\ AffiliationsWereDue'
        BY <2>1, <2>6 DEF db, IInv, GroupsHaveOwners, OneOwner, RowsWereDue,
                          OwnerKeepsRow, AffiliationsWereDue
      <3>4. QED
        BY <2>4, <3>1, <3>2, <3>3 DEF IInv
    <2>7. QED
      BY <1>3, <2>5, <2>6 DEF LateApply
  <1>4. QED
    BY <1>2, <1>3 DEF World

\* Every step of the service preserves the invariant.
LEMMA NextInv == IInv /\ [Next]_vars => IInv'
  <1> SUFFICES ASSUME IInv, [Next]_vars PROVE IInv'
    OBVIOUS
  <1>1. CASE World
    BY <1>1, WorldInv
  <1>2. ASSUME NEW r \in Reqs, Receives(r) \/ Handle(r) \/ Crash(r) PROVE IInv'
    <2>1. CASE Receives(r)
      BY <2>1, ReceivesInv
    <2>2. CASE ReadGroup(r) \/ ReadMember(r) \/ Refuse(r) \/ Crash(r)
      BY <2>2, ChecksInv
    <2>3. CASE CreateGroup(r)
      BY <2>3, CreateGroupInv
    <2>4. CASE UpdateGroup(r)
      BY <2>4, UpdateGroupInv
    <2>5. CASE AddMember(r)
      BY <2>5, AddMemberInv
    <2>6. CASE RemoveMember(r)
      BY <2>6, RemoveMemberInv
    <2>7. CASE ListMembers(r)
      BY <2>7, ListMembersInv
    <2>8. CASE Push(r)
      BY <2>8, PushInv
    <2>9. CASE Respond(r)
      BY <2>9, RespondInv
    <2>10. QED
      BY <1>2, <2>1, <2>2, <2>3, <2>4, <2>5, <2>6, <2>7, <2>8, <2>9 DEF Handle
  <1>3. CASE UNCHANGED vars
    <2>1. TypeOK'
      BY <1>3 DEF vars, db, muc, IInv, TypeOK
    <2>2. HandlersKnow'
      BY <1>3, OthersKeep DEF vars, db
    <2>3. /\ GroupsHaveOwners' /\ OneOwner' /\ RowsWereDue' /\ LateWereDue'
          /\ LateBelong' /\ SameTenantOnly' /\ OwnerKeepsRow' /\ AffiliationsWereDue'
      BY <1>3 DEF vars, db, muc, IInv, GroupsHaveOwners, OneOwner, RowsWereDue,
                  LateWereDue, LateBelong, SameTenantOnly, OwnerKeepsRow, AffiliationsWereDue
    <2>4. QED
      BY <2>1, <2>2, <2>3 DEF IInv
  <1>4. QED
    BY <1>1, <1>2, <1>3 DEF Next

\* The inductive invariant holds in every reachable state.
THEOREM Inductive == Spec => []IInv
  BY InitInv, NextInv, PTL DEF Spec

\* The tables, the room and the handlers keep their shapes.
THEOREM TypeCorrect == Spec => []TypeOK
  <1>1. IInv => TypeOK
    BY DEF IInv
  <1>2. QED
    BY <1>1, Inductive, PTL

\* No interleaving of adds, demotions, exits and removals, with any number of
\* handlers, takes the owner's row away (remove_member, two transactions).
THEOREM OwnerNeverLosesRow == Spec => []OwnerKeepsRow
  <1>1. IInv => OwnerKeepsRow
    BY DEF IInv
  <1>2. QED
    BY <1>1, Inductive, PTL

\* However late, lost or overtaken the pushes of _sync_members_to_muc are, a
\* user never holds an affiliation that no row of his ever justified, except
\* the first occupant of the room.
THEOREM NoUndueAffiliation == Spec => []AffiliationsWereDue
  <1>1. IInv => AffiliationsWereDue
    BY DEF IInv
  <1>2. QED
    BY <1>1, Inductive, PTL

\* The tenant check before the transaction is enough: rows, affiliations,
\* permissions and calls on their way never name another tenant's user.
THEOREM TenantsStayApart == Spec => []SameTenantOnly
  <1>1. IInv => SameTenantOnly
    BY DEF IInv
  <1>2. QED
    BY <1>1, Inductive, PTL

-----------------------------------------------------------------------------
(* Every step of the service is a step of the abstract memberships, or      *)
(* leaves them alone.                                                      *)

\* A step of the service is a step of GroupMembership or leaves it alone.
LEMMA RefinesStep ==
  ASSUME IInv, [Next]_vars PROVE [GM!Next]_<<owner, status, role>>
  <1> USE Known
  <1>1. ASSUME NEW r \in Reqs, CreateGroup(r) PROVE GM!Next
    <2> DEFINE u == req[r].user
               ms == {m \in Users : <<m, "member">> \in req[r].todo}
    <2>1. PICK g \in Groups :
            /\ status[g] = "absent"
            /\ owner' = [owner EXCEPT ![g] = u]
            /\ status' = [status EXCEPT ![g] = "active"]
            /\ role' = [role EXCEPT ![g] =
                  [v \in Users |->
                       IF <<v, "owner">> \in req[r].todo THEN "owner"
                       ELSE IF <<v, "member">> \in req[r].todo THEN "member"
                       ELSE "none"]]
      BY <1>1 DEF CreateGroup
    <2>2. /\ u \in Users
          /\ \A v \in Users : <<v, "owner">> \in req[r].todo <=> v = u
          /\ \A m \in ms : TenantOf[m] = TenantOf[u]
      BY <1>1 DEF CreateGroup, CreationKnows
    <2>3. role' = [role EXCEPT ![g] =
                     [m \in Users |-> IF m = u THEN "owner"
                                      ELSE IF m \in ms THEN "member" ELSE "none"]]
      <3>1. [v \in Users |->
               IF <<v, "owner">> \in req[r].todo THEN "owner"
               ELSE IF <<v, "member">> \in req[r].todo THEN "member" ELSE "none"]
            = [m \in Users |-> IF m = u THEN "owner"
                               ELSE IF m \in ms THEN "member" ELSE "none"]
        BY <2>2
      <3>2. QED
        BY <2>1, <3>1
    <2>4. GM!Create(g, u, ms)
      BY <2>1, <2>2, <2>3 DEF GM!Create
    <2>5. ms \in SUBSET Users
      OBVIOUS
    <2>6. QED
      BY <2>2, <2>4, <2>5 DEF GM!Next
  <1>2. ASSUME NEW r \in Reqs, UpdateGroup(r) PROVE GM!Next
    <2>1. /\ req[r].group \in Groups /\ req[r].arg \in {"active", "archived"}
          /\ status[req[r].group] # "absent"
      BY <1>2 DEF UpdateGroup, CallKnows
    <2>2. GM!SetStatus(req[r].group, req[r].arg)
      BY <1>2, <2>1 DEF UpdateGroup, GM!SetStatus
    <2>3. QED
      BY <2>1, <2>2 DEF GM!Next
  <1>3. ASSUME NEW r \in Reqs, AddMember(r) PROVE GM!Next
    <2>1. /\ req[r].group \in Groups /\ req[r].target \in Users
          /\ req[r].arg \in {"member", "admin"} /\ status[req[r].group] # "absent"
          /\ TenantOf[req[r].target] = TenantOf[owner[req[r].group]]
      BY <1>3 DEF AddMember, CallKnows
    <2>2. GM!SetRole(req[r].group, req[r].target, req[r].arg)
      BY <1>3, <2>1 DEF AddMember, Upsert, GM!SetRole
    <2>3. QED
      BY <2>1, <2>2 DEF GM!Next
  <1>4. ASSUME NEW r \in Reqs, RemoveMember(r) PROVE GM!Next
    <2>1. /\ req[r].group \in Groups /\ req[r].target \in Users
          /\ status[req[r].group] # "absent"
          /\ req[r].target # owner[req[r].group]
      BY <1>4 DEF RemoveMember, CallKnows, DeletesSpareOwner
    <2>2. GM!Remove(req[r].group, req[r].target)
      BY <1>4, <2>1 DEF RemoveMember, GM!Remove
    <2>3. QED
      BY <2>1, <2>2 DEF GM!Next
  <1>5. CASE World
    BY <1>5 DEF World, OpenRoom, LateApply, db
  <1>6. ASSUME NEW r \in Reqs, Receives(r) PROVE UNCHANGED <<owner, status, role>>
    BY <1>6 DEF Receives, ReceiveCreate, ReceiveRead, ReceiveUpdate, ReceiveAdd,
                ReceiveRemove, Receive, db
  <1>7. ASSUME NEW r \in Reqs,
               \/ ReadGroup(r) \/ ReadMember(r) \/ Refuse(r) \/ Crash(r)
               \/ ListMembers(r) \/ Push(r) \/ Respond(r)
        PROVE  UNCHANGED <<owner, status, role>>
    BY <1>7 DEF ReadGroup, ReadMember, Refuse, Crash, ListMembers, Push, PushApplied,
                PushMissing, PushFails, PushTimesOut, Respond, db
  <1>8. CASE UNCHANGED vars
    BY <1>8 DEF vars, db
  <1>9. QED
    BY <1>1, <1>2, <1>3, <1>4, <1>5, <1>6, <1>7, <1>8 DEF Next, Handle

\* The handlers, checks and writes in separate statements and transactions
\* included, implement memberships that change one API call at a time.
THEOREM ImplementsMembership == Spec => Membership
  <1>1. Init => GM!Init
    BY DEF Init, GM!Init
  <1>2. IInv /\ [Next]_vars => [GM!Next]_<<owner, status, role>>
    BY RefinesStep
  <1>3. QED
    BY <1>1, <1>2, Inductive, PTL DEF Spec, Membership, GM!Spec

-----------------------------------------------------------------------------
(* While calls do not overlap, a list that is pushed is the stored one, and a *)
(* row that is gone was told to the room or is still to be.                  *)

\* A removal that has committed and has yet to push.
Told(g, u) ==
    \E r \in Reqs : /\ req[r].pc = "push" /\ req[r].op = "remove" /\ req[r].group = g
                    /\ <<u, "none">> \in req[r].todo

LateAreLost == \A x \in late : <<x[1], x[2]>> \in lost

EmptyRooms == \A g \in Groups : creator[g] = None => \A u \in Users : affil[g][u] = "none"

RemovalsTold ==
    \A g \in Groups, u \in Users :
        creator[g] = owner[g] /\ role[g][u] = "none"
        => affil[g][u] = "none" \/ <<g, u>> \in lost \/ Told(g, u)

\* What is to be pushed is still what the tables say.
Fits(q) ==
    q.pc = "push" =>
        /\ \A p \in q.todo : /\ p[2] = "none" \/ role[q.group][p[1]] # "none"
                             /\ q.op \in {"sync", "join"} => p[2] = MemberAffiliation(q.group, p[1])
        /\ q.op \in {"sync", "join"} /\ ~q.skipped =>
             \A u \in Users : role[q.group][u] # "none" =>
                 \/ <<u, MemberAffiliation(q.group, u)>> \in q.todo
                 \/ affil[q.group][u] = MemberAffiliation(q.group, u)
                 \/ <<q.group, u>> \in lost

PushesFit == \A r \in Reqs : Fits(req[r])

IAlign == LateAreLost /\ EmptyRooms /\ RemovalsTold /\ PushesFit

\* Only r may be in progress.
Sole(r) == \A x \in Reqs \ {r} : req[x].pc = "idle"

\* No two calls are in progress at once.
NoOverlap == \A r, s \in Reqs : req[r].pc # "idle" /\ req[s].pc # "idle" => r = s

\* The handlers that do nothing push nothing.
LEMMA OthersFit ==
  ASSUME IInv, NEW r \in Reqs, Sole(r), NEW q, req' = [req EXCEPT ![r] = q], Fits(req[r])'
  PROVE  PushesFit'
  <1> SUFFICES ASSUME NEW x \in Reqs, x # r PROVE Fits(req[x])'
    BY DEF PushesFit
  <1>1. req'[x] = req[x] /\ req[x].pc = "idle"
    BY DEF IInv, TypeOK, Sole
  <1>2. QED
    BY <1>1 DEF Fits

\* A step of the only handler in progress that leaves it outside its pushes.
LEMMA AlignQuiet ==
  ASSUME IInv, IAlign, NEW r \in Reqs, Sole(r), NEW q \in Request, req' = [req EXCEPT ![r] = q],
         q.pc # "push", UNCHANGED <<owner, role, creator, affil, late>>, lost \subseteq lost',
         \A g \in Groups, u \in Users : Told(g, u) => <<g, u>> \in lost'
  PROVE  IAlign'
  <1>1. Fits(req[r])'
    BY DEF Fits, IInv, TypeOK
  <1>2. LateAreLost' /\ EmptyRooms'
    BY DEF IAlign, LateAreLost, EmptyRooms
  <1>3. RemovalsTold'
    BY DEF IAlign, RemovalsTold
  <1>4. PushesFit'
    BY <1>1, OthersFit
  <1>5. QED
    BY <1>2, <1>3, <1>4 DEF IAlign

LEMMA AlignReceives ==
  ASSUME IInv, IAlign, NEW r \in Reqs, Sole(r), Receives(r)
  PROVE  IAlign'
  <1>1. \A g, u : ~Told(g, u)
    BY DEF Sole, Told, Receives, ReceiveCreate, ReceiveRead, ReceiveUpdate, ReceiveAdd, ReceiveRemove, Receive
  <1>2. ASSUME NEW q, Receive(r, q), q.pc # "push" PROVE IAlign'
    <2>1. /\ req' = [req EXCEPT ![r] = q] /\ req'[r] = q
          /\ UNCHANGED <<owner, role, creator, affil, late, lost>>
      BY <1>2 DEF Receive, IInv, TypeOK, db, muc
    <2>2. LateAreLost' /\ EmptyRooms'
      BY <2>1 DEF IAlign, LateAreLost, EmptyRooms
    <2>3. RemovalsTold'
      BY <1>1, <2>1 DEF IAlign, RemovalsTold
    <2>4. Fits(req[r])'
      BY <1>2, <2>1 DEF Fits
    <2>5. PushesFit'
      BY <2>1, <2>4, OthersFit
    <2>6. QED
      BY <2>2, <2>3, <2>5 DEF IAlign
  <1> PICK u \in Users :
        \/ \E ms \in SUBSET Users : ReceiveCreate(r, u, ms)
        \/ \E g \in Groups :
            \/ \E op \in {"sync", "join"} : ReceiveRead(r, u, g, op)
            \/ \E new \in {"active", "archived", "keep"} : ReceiveUpdate(r, u, g, new)
            \/ \E m \in Users, new \in {"member", "admin"} : ReceiveAdd(r, u, g, m, new)
            \/ \E m \in Users : ReceiveRemove(r, u, g, m)
    BY DEF Receives
  <1>3. ASSUME NEW ms \in SUBSET Users, ReceiveCreate(r, u, ms) PROVE IAlign'
    BY <1>2, <1>3 DEF ReceiveCreate, Answered
  <1>4. ASSUME NEW g \in Groups, NEW op, ReceiveRead(r, u, g, op) PROVE IAlign'
    BY <1>2, <1>4 DEF ReceiveRead, Answered
  <1>5. ASSUME NEW g \in Groups, NEW new, ReceiveUpdate(r, u, g, new) PROVE IAlign'
    BY <1>2, <1>5 DEF ReceiveUpdate, Answered
  <1>6. ASSUME NEW g \in Groups, NEW m \in Users, NEW new, ReceiveAdd(r, u, g, m, new) PROVE IAlign'
    BY <1>2, <1>6 DEF ReceiveAdd, Answered
  <1>7. ASSUME NEW g \in Groups, NEW m \in Users, ReceiveRemove(r, u, g, m) PROVE IAlign'
    BY <1>2, <1>7 DEF ReceiveRemove, Answered
  <1>8. QED
    BY <1>3, <1>4, <1>5, <1>6, <1>7

LEMMA AlignChecks ==
  ASSUME IInv, IAlign, NEW r \in Reqs, Sole(r), ReadGroup(r) \/ ReadMember(r) \/ Refuse(r) \/ UpdateGroup(r) \/ Respond(r)
  PROVE  IAlign'
  <1>1. \A g, u : ~Told(g, u)
    BY DEF Sole, Told, ReadGroup, ReadMember, Refuse, UpdateGroup, Respond
  <1>2. UNCHANGED <<owner, role, creator, affil, late, lost>>
    BY DEF ReadGroup, ReadMember, Refuse, UpdateGroup, Respond, db, muc
  <1>3. req'[r].pc # "push"
    <2>1. req \in [Reqs -> Request]
      BY DEF IInv, TypeOK
    <2>2. CASE Reply(r)
      BY <2>1, <2>2 DEF Reply, Answered
    <2>3. CASE ReadGroup(r)
      BY <2>1, <2>3 DEF ReadGroup, Request
    <2>4. CASE ReadMember(r)
      BY <2>1, <2>4 DEF ReadMember, Request
    <2>5. QED
      BY <2>2, <2>3, <2>4 DEF Refuse, UpdateGroup, Respond
  <1>4. \A x \in Reqs \ {r} : req'[x] = req[x] /\ req[x].pc = "idle"
    BY DEF Sole, IInv, TypeOK, ReadGroup, ReadMember, Refuse, UpdateGroup, Respond, Reply
  <1>5. LateAreLost' /\ EmptyRooms' /\ RemovalsTold'
    BY <1>1, <1>2 DEF IAlign, LateAreLost, EmptyRooms, RemovalsTold
  <1>6. PushesFit'
    BY <1>3, <1>4 DEF PushesFit, Fits
  <1>7. QED
    BY <1>5, <1>6 DEF IAlign

\* What a handler that stops had still to tell is lost.
LEMMA AlignCrash ==
  ASSUME IInv, IAlign, NEW r \in Reqs, Sole(r), Crash(r)
  PROVE  IAlign'
  <1>1. /\ Lose(req[r], IF req[r].pc = "push" THEN req[r].todo ELSE {})
        /\ UNCHANGED <<owner, role, creator, affil, late>> /\ req' = [req EXCEPT ![r] = Answered]
    BY DEF Crash, Reply, db
  <1>2. Answered \in Request /\ Answered.pc # "push"
    BY AnsweredKnows DEF Answered
  <1>3. ASSUME NEW g \in Groups, NEW u \in Users, Told(g, u) PROVE <<g, u>> \in lost'
    <2>1. /\ req[r].pc = "push" /\ req[r].op = "remove" /\ req[r].group = g
          /\ <<u, "none">> \in req[r].todo
      BY <1>3 DEF Told, Sole
    <2>2. lost' = lost \cup {<<g, p[1]>> : p \in req[r].todo}
      BY <1>1, <2>1 DEF Lose
    <2>3. QED
      BY <2>1, <2>2
  <1>4. lost \subseteq lost'
    BY <1>1 DEF Lose
  <1>5. QED
    BY <1>1, <1>2, <1>3, <1>4, AlignQuiet

LEMMA AlignCreateGroup ==
  ASSUME IInv, IAlign, NEW r \in Reqs, Sole(r), CreateGroup(r)
  PROVE  IAlign'
  <1> DEFINE rows == [u \in Users |->
                        IF <<u, "owner">> \in req[r].todo THEN "owner"
                        ELSE IF <<u, "member">> \in req[r].todo THEN "member"
                        ELSE "none"]
  <1>1. PICK g \in Groups :
          /\ status[g] = "absent"
          /\ owner' = [owner EXCEPT ![g] = req[r].user]
          /\ role' = [role EXCEPT ![g] = rows]
    BY DEF CreateGroup
  <1>2. req[r].pc = "act" /\ Reply(r) /\ UNCHANGED <<creator, affil, late, lost>>
    BY DEF CreateGroup, muc
  <1> HIDE DEF rows
  <1>3. \A h, u : ~Told(h, u)
    BY <1>2 DEF Sole, Told
  <1>4. \A x \in Reqs : req'[x].pc # "push"
    BY <1>2 DEF Reply, Answered, Sole, IInv, TypeOK
  <1>5. LateAreLost' /\ EmptyRooms' /\ PushesFit'
    BY <1>2, <1>4 DEF IAlign, LateAreLost, EmptyRooms, PushesFit, Fits
  <1>6. RemovalsTold'
    <2>1. \A u \in Users : affil[g][u] = "none"
      BY <1>1 DEF IInv, SameTenantOnly
    <2>2. \A h \in Groups \ {g} : owner'[h] = owner[h] /\ role'[h] = role[h]
      BY <1>1 DEF IInv, TypeOK
    <2>3. QED
      BY <1>2, <1>3, <2>1, <2>2 DEF IAlign, RemovalsTold
  <1>7. QED
    BY <1>5, <1>6 DEF IAlign

\* What an upsert or a deletion leaves to push is what it has just written.
LEMMA AlignWrites ==
  ASSUME IInv, IAlign, NEW r \in Reqs, Sole(r), AddMember(r) \/ RemoveMember(r)
  PROVE  IAlign'
  <1> DEFINE g == req[r].group
             m == req[r].target
             new == IF req[r].op = "add" THEN req[r].arg ELSE "none"
             q == PushOnly(req[r], {<<m, new>>})
  <1>1. /\ req[r].pc = "act" /\ req[r].op \in {"add", "remove"}
        /\ role' = [role EXCEPT ![g][m] = new] /\ req' = [req EXCEPT ![r] = q]
        /\ UNCHANGED <<owner, creator, affil, late, lost>>
    BY DEF AddMember, RemoveMember, Upsert, muc
  <1>2. /\ g \in Groups /\ m \in Users
        /\ req[r].op = "add" => new # "none"
        /\ req[r].op = "remove" => new = "none"
    BY <1>1, Known DEF CallKnows
  <1>3. /\ q.pc = "push" /\ q.op = req[r].op /\ q.group = g /\ q.todo = {<<m, new>>}
    BY DEF PushOnly, Answered
  <1> HIDE DEF q, g, m, new
  <1>4. /\ req'[r].pc = "push" /\ req'[r].op = req[r].op /\ req'[r].group = g
        /\ req'[r].todo = {<<m, new>>}
    BY <1>1, <1>3 DEF IInv, TypeOK
  <1>5. \A h, u : ~Told(h, u)
    BY <1>1 DEF Sole, Told
  <1>6. /\ role'[g][m] = new
        /\ \A h \in Groups, u \in Users : h # g \/ u # m => role'[h][u] = role[h][u]
    <2>1. role \in [Groups -> [Users -> Affiliations]]
      BY DEF IInv, TypeOK
    <2>2. role'[g] = [role[g] EXCEPT ![m] = new] /\ \A h \in Groups : h # g => role'[h] = role[h]
      BY <1>1, <1>2, <2>1
    <2>3. role[g] \in [Users -> Affiliations]
      BY <1>2, <2>1
    <2>4. role'[g][m] = new /\ \A u \in Users : u # m => role'[g][u] = role[g][u]
      BY <1>2, <2>2, <2>3
    <2>5. QED
      BY <2>2, <2>4
  <1>7. LateAreLost' /\ EmptyRooms'
    BY <1>1 DEF IAlign, LateAreLost, EmptyRooms
  <1>8. PushesFit'
    <2>1. Fits(req[r])'
      BY <1>1, <1>2, <1>4, <1>6 DEF Fits
    <2>2. QED
      BY <1>1, <2>1, OthersFit
  <1>9. RemovalsTold'
    <2> SUFFICES ASSUME NEW h \in Groups, NEW u \in Users, creator[h] = owner[h], role'[h][u] = "none"
                 PROVE  affil[h][u] = "none" \/ <<h, u>> \in lost \/ Told(h, u)'
      BY <1>1 DEF RemovalsTold
    <2>1. CASE h = g /\ u = m
      <3>1. req[r].op = "remove" /\ new = "none"
        BY <1>1, <1>2, <1>6, <2>1
      <3>2. QED
        BY <1>4, <2>1, <3>1 DEF Told
    <2>2. CASE h # g \/ u # m
      BY <1>5, <1>6, <2>2 DEF IAlign, RemovalsTold
    <2>3. QED
      BY <2>1, <2>2
  <1>10. QED
    BY <1>7, <1>8, <1>9 DEF IAlign

\* The list is of all rows: they are of the tenant of whoever asks.
LEMMA AlignListMembers ==
  ASSUME IInv, IAlign, NEW r \in Reqs, Sole(r), ListMembers(r)
  PROVE  IAlign'
  <1> DEFINE g == req[r].group
             listed == {u \in Users : /\ role[g][u] # "none"
                                      /\ TenantOf[u] = TenantOf[req[r].user]}
             todo == {<<u, MemberAffiliation(g, u)>> : u \in listed}
             q == [req[r] EXCEPT !.pc = "push", !.todo = todo]
  <1>1. /\ req[r].pc = "list" /\ req' = [req EXCEPT ![r] = q]
        /\ UNCHANGED <<owner, role, creator, affil, late, lost>>
    BY DEF ListMembers, db, muc
  <1>2. /\ req[r].op \in {"sync", "join"} /\ g \in Groups /\ status[g] # "absent"
        /\ TenantOf[req[r].user] = TenantOf[owner[g]]
    BY <1>1, Known DEF CallKnows
  <1>3. \A u \in Users : role[g][u] # "none" => u \in listed
    BY <1>2 DEF IInv, SameTenantOnly
  <1>4. /\ \A p \in todo : role[g][p[1]] # "none" /\ p[2] = MemberAffiliation(g, p[1])
        /\ \A u \in Users : role[g][u] # "none" => <<u, MemberAffiliation(g, u)>> \in todo
    BY <1>3
  <1> HIDE DEF todo
  <1>5. q.pc = "push" /\ q.group = g /\ q.todo = todo /\ q.op = req[r].op
    BY Known DEF Request
  <1> HIDE DEF q, g
  <1>6. req'[r].pc = "push" /\ req'[r].group = g /\ req'[r].todo = todo /\ req'[r].op = req[r].op
    BY <1>1, <1>5 DEF IInv, TypeOK
  <1>7. \A h, u : ~Told(h, u)
    BY <1>1 DEF Sole, Told
  <1>8. \A h, u : MemberAffiliation(h, u)' = MemberAffiliation(h, u)
    BY <1>1 DEF MemberAffiliation
  <1>9. Fits(req[r])'
    BY <1>1, <1>4, <1>6, <1>8 DEF Fits
  <1>10. PushesFit'
    BY <1>1, <1>9, OthersFit
  <1>11. LateAreLost' /\ EmptyRooms' /\ RemovalsTold'
    BY <1>1, <1>7 DEF IAlign, LateAreLost, EmptyRooms, RemovalsTold
  <1>12. QED
    BY <1>10, <1>11 DEF IAlign

\* A push leaves the rest of the list, and what is true of the room but for the one
\* whose affiliation was sent.
LEMMA AlignPush ==
  ASSUME IInv, IAlign, NEW r \in Reqs, Sole(r), Push(r)
  PROVE  IAlign'
  <1>1. req[r].pc = "push"
    BY DEF Push
  <1>2. PICK p \in req[r].todo :
          PushApplied(r, p) \/ PushMissing(r, p) \/ PushFails(r, p) \/ PushTimesOut(r, p)
    BY DEF Push
  <1>3. PICK g \in Groups : g = req[r].group
    BY <1>1, Known DEF CallKnows
  <1>4. /\ p = <<p[1], p[2]>> /\ p[1] \in Users /\ status[g] # "absent" /\ owner[g] # None
    <2>1. p \in Users \X Affiliations
      BY Known DEF Request, Pairs
    <2>2. status[g] # "absent"
      BY <1>1, <1>3, Known DEF CallKnows
    <2>3. owner[g] \in Users
      BY <2>2 DEF IInv, GroupsHaveOwners
    <2>4. QED
      BY <2>1, <2>2, <2>3, NoneAssumption
  <1>5. /\ p[2] = "none" \/ role[g][p[1]] # "none"
        /\ req[r].op \in {"sync", "join"} => p[2] = MemberAffiliation(g, p[1])
        /\ \A s \in req[r].todo : /\ s[2] = "none" \/ role[g][s[1]] # "none"
                                  /\ req[r].op \in {"sync", "join"} => s[2] = MemberAffiliation(g, s[1])
        /\ req[r].op \in {"sync", "join"} /\ ~req[r].skipped =>
             \A u \in Users : role[g][u] # "none" =>
                 \/ <<u, MemberAffiliation(g, u)>> \in req[r].todo
                 \/ affil[g][u] = MemberAffiliation(g, u)
                 \/ <<g, u>> \in lost
    BY <1>1, <1>3 DEF IAlign, PushesFit, Fits
  <1>6. owner' = owner /\ role' = role /\ creator' = creator
    BY <1>2 DEF PushApplied, PushMissing, PushFails, PushTimesOut, db, muc
  <1>7. \A h, u : MemberAffiliation(h, u)' = MemberAffiliation(h, u)
    BY <1>6 DEF MemberAffiliation
  <1>8. \A h, u : Told(h, u) => h = g /\ req[r].op = "remove" /\ <<u, "none">> \in req[r].todo
    BY <1>3 DEF Told, Sole
  <1>9. ASSUME NEW ok \in BOOLEAN, Pushed(r, p, ok)
        PROVE  /\ req'[r].pc = "push" /\ req'[r].op = req[r].op /\ req'[r].group = g
               /\ req'[r].todo = req[r].todo \ {p} /\ req'[r].skipped = (req[r].skipped \/ ~ok)
    <2>1. req[r] \in Request
      BY Known
    <2>2. req'[r] = [req[r] EXCEPT !.todo = req[r].todo \ {p}, !.skipped = req[r].skipped \/ ~ok]
      BY <1>9 DEF Pushed, IInv, TypeOK
    <2>3. QED
      BY <1>1, <1>3, <2>1, <2>2 DEF Request
  <1>10. CASE PushApplied(r, p)
    <2>1. /\ creator[g] # None /\ affil' = [affil EXCEPT ![g][p[1]] = p[2]] /\ late' = late /\ lost' = lost
          /\ Pushed(r, p, TRUE)
      BY <1>3, <1>10 DEF PushApplied, SetAffiliation
    <2>2. /\ affil'[g][p[1]] = p[2]
          /\ \A h \in Groups, u \in Users : h # g \/ u # p[1] => affil'[h][u] = affil[h][u]
      <3>1. affil \in [Groups -> [Users -> Affiliations]]
        BY DEF IInv, TypeOK
      <3>2. affil'[g] = [affil[g] EXCEPT ![p[1]] = p[2]] /\ \A h \in Groups : h # g => affil'[h] = affil[h]
        BY <2>1, <3>1
      <3>3. affil[g] \in [Users -> Affiliations]
        BY <3>1
      <3>4. affil'[g][p[1]] = p[2] /\ \A u \in Users : u # p[1] => affil'[g][u] = affil[g][u]
        BY <1>4, <3>2, <3>3
      <3>5. QED
        BY <3>2, <3>4
    <2>3. /\ req'[r].pc = "push" /\ req'[r].op = req[r].op /\ req'[r].group = g
          /\ req'[r].todo = req[r].todo \ {p} /\ req'[r].skipped = req[r].skipped
      <3>1. /\ req'[r].pc = "push" /\ req'[r].op = req[r].op /\ req'[r].group = g
            /\ req'[r].todo = req[r].todo \ {p} /\ req'[r].skipped = (req[r].skipped \/ ~TRUE)
        BY <1>9, <2>1
      <3>2. req[r].skipped \in BOOLEAN
        BY Known DEF Request
      <3>3. QED
        BY <3>1, <3>2
    <2>4. LateAreLost' /\ EmptyRooms'
      BY <1>6, <2>1, <2>2 DEF IAlign, LateAreLost, EmptyRooms
    <2>5. RemovalsTold'
      <3> SUFFICES ASSUME NEW h \in Groups, NEW u \in Users, creator[h] = owner[h], role[h][u] = "none"
                   PROVE  affil'[h][u] = "none" \/ <<h, u>> \in lost \/ Told(h, u)'
        BY <1>6, <2>1 DEF RemovalsTold
      <3>1. CASE h = g /\ u = p[1]
        BY <1>5, <2>2, <3>1
      <3>2. ASSUME h # g \/ u # p[1], Told(h, u) PROVE Told(h, u)'
        <4>1. h = g /\ req[r].op = "remove" /\ <<u, "none">> \in req[r].todo
          BY <1>8, <3>2
        <4>2. <<u, "none">> # p
          BY <1>4, <3>2, <4>1
        <4>3. QED
          BY <2>3, <4>1, <4>2 DEF Told
      <3>3. CASE h # g \/ u # p[1]
        BY <2>2, <3>2, <3>3 DEF IAlign, RemovalsTold
      <3>4. QED
        BY <3>1, <3>3
    <2>6. Fits(req[r])'
      <3>1. ASSUME NEW u \in Users, role[g][u] # "none", req[r].op \in {"sync", "join"}, ~req[r].skipped
            PROVE  \/ <<u, MemberAffiliation(g, u)>> \in req[r].todo \ {p}
                   \/ affil'[g][u] = MemberAffiliation(g, u)
                   \/ <<g, u>> \in lost
        <4>1. CASE u = p[1]
          BY <1>5, <2>2, <3>1, <4>1
        <4>2. CASE u # p[1]
          <5>1. <<u, MemberAffiliation(g, u)>> # p
            BY <1>4, <4>2
          <5>2. QED
            BY <1>5, <2>2, <3>1, <4>2, <5>1
        <4>3. QED
          BY <4>1, <4>2
      <3>2. QED
        BY <1>5, <1>6, <1>7, <2>1, <2>3, <3>1 DEF Fits
    <2>7. PushesFit'
      BY <2>1, <2>6, OthersFit DEF Pushed
    <2>8. QED
      BY <2>4, <2>5, <2>7 DEF IAlign
  <1>11. ASSUME Pushed(r, p, FALSE), affil' = affil, lost \subseteq lost',
                \A x \in late' : x \in late \/ <<x[1], x[2]>> \in lost',
                \/ creator[g] = None
                \/ req[r].op \in {"add", "remove"} => <<g, p[1]>> \in lost'
         PROVE  IAlign'
    <2>1. /\ req'[r].pc = "push" /\ req'[r].op = req[r].op /\ req'[r].group = g
          /\ req'[r].todo = req[r].todo \ {p} /\ req'[r].skipped = (req[r].skipped \/ ~FALSE)
      BY <1>9, <1>11
    <2>2. LateAreLost' /\ EmptyRooms'
      BY <1>6, <1>11 DEF IAlign, LateAreLost, EmptyRooms
    <2>3. RemovalsTold'
      <3> SUFFICES ASSUME NEW h \in Groups, NEW u \in Users, creator[h] = owner[h], role[h][u] = "none"
                   PROVE  affil[h][u] = "none" \/ <<h, u>> \in lost' \/ Told(h, u)'
        BY <1>6, <1>11 DEF RemovalsTold
      <3>1. ASSUME Told(h, u) PROVE <<h, u>> \in lost' \/ Told(h, u)'
        <4>1. h = g /\ req[r].op = "remove" /\ <<u, "none">> \in req[r].todo
          BY <1>8, <3>1
        <4>2. creator[g] # None
          BY <1>4, <4>1
        <4>3. CASE <<u, "none">> = p
          BY <1>11, <4>1, <4>2, <4>3
        <4>4. CASE <<u, "none">> # p
          BY <2>1, <4>1, <4>4 DEF Told
        <4>5. QED
          BY <4>3, <4>4
      <3>2. QED
        BY <1>11, <3>1 DEF IAlign, RemovalsTold
    <2>4. Fits(req[r])'
      BY <1>5, <1>6, <1>7, <2>1 DEF Fits
    <2>5. PushesFit'
      BY <1>11, <2>4, OthersFit DEF Pushed
    <2>6. QED
      BY <2>2, <2>3, <2>5 DEF IAlign
  <1>12. CASE PushMissing(r, p)
    BY <1>3, <1>11, <1>12 DEF PushMissing, muc
  <1>13. CASE PushFails(r, p)
    <2>1. req[r].op \in {"add", "remove"} => <<g, p[1]>> \in lost'
      BY <1>3, <1>13 DEF PushFails, Lose
    <2>2. lost \subseteq lost'
      BY <1>13 DEF PushFails, Lose
    <2>3. QED
      BY <1>11, <1>13, <2>1, <2>2 DEF PushFails
  <1>14. CASE PushTimesOut(r, p)
    <2>1. /\ Pushed(r, p, FALSE) /\ affil' = affil /\ late' = late \cup {<<g, p[1], p[2]>>}
          /\ lost' = lost \cup {<<g, p[1]>>}
      BY <1>3, <1>14 DEF PushTimesOut
    <2>2. \A x \in late' : x \in late \/ <<x[1], x[2]>> \in lost'
      BY <2>1
    <2>3. QED
      BY <1>11, <2>1, <2>2
  <1>15. QED
    BY <1>2, <1>10, <1>12, <1>13, <1>14

\* The room that a client opens was empty, and a late call only sets who is counted as lost.
LEMMA AlignWorld ==
  ASSUME IInv, IAlign, World
  PROVE  IAlign'
  <1>1. UNCHANGED <<owner, status, role, req, lost>>
    BY DEF World, OpenRoom, LateApply, db
  <1>2. \A h, v : Told(h, v)' = Told(h, v) /\ MemberAffiliation(h, v)' = MemberAffiliation(h, v)
    BY <1>1 DEF Told, MemberAffiliation
  <1>3. ASSUME NEW g \in Groups, NEW u \in Users, OpenRoom(g, u) PROVE IAlign'
    <2>1. /\ creator[g] = None /\ creator' = [creator EXCEPT ![g] = u] /\ late' = late
          /\ <<g, u>> \in granted /\ affil' = [affil EXCEPT ![g][u] = "owner"]
      BY <1>3 DEF OpenRoom, SetAffiliation
    <2>2. /\ affil'[g][u] = "owner" /\ creator'[g] = u
          /\ \A h \in Groups, v \in Users : h # g \/ v # u => affil'[h][v] = affil[h][v]
          /\ \A h \in Groups : h # g => creator'[h] = creator[h]
      BY <2>1 DEF IInv, TypeOK
    <2>3. \A v \in Users : affil[g][v] = "none"
      BY <2>1 DEF IAlign, EmptyRooms
    <2>4. u # None
      BY NoneAssumption
    <2>5. status[g] # "absent" /\ role[g][owner[g]] # "none"
      BY <2>1 DEF IInv, SameTenantOnly, OwnerKeepsRow
    <2>6. LateAreLost' /\ EmptyRooms'
      BY <1>1, <2>1, <2>2, <2>4 DEF IAlign, LateAreLost, EmptyRooms
    <2>7. RemovalsTold'
      <3> SUFFICES ASSUME NEW h \in Groups, NEW v \in Users, creator'[h] = owner[h], role[h][v] = "none"
                   PROVE  affil'[h][v] = "none" \/ <<h, v>> \in lost \/ Told(h, v)
        BY <1>1, <1>2 DEF RemovalsTold
      <3>1. CASE h = g
        BY <2>2, <2>3, <2>5, <3>1
      <3>2. CASE h # g
        BY <2>2, <3>2 DEF IAlign, RemovalsTold
      <3>3. QED
        BY <3>1, <3>2
    <2>8. PushesFit'
      <3> SUFFICES ASSUME NEW r \in Reqs PROVE Fits(req[r])'
        BY DEF PushesFit
      <3>1. Fits(req[r])
        BY DEF IAlign, PushesFit
      <3>2. req[r].pc = "push" /\ req[r].op \in {"sync", "join"} => req[r].group \in Groups
        BY Known DEF CallKnows
      <3>3. \A h \in Groups, v \in Users :
              affil[h][v] = MemberAffiliation(h, v) => affil'[h][v] = MemberAffiliation(h, v)
        BY <2>2, <2>3 DEF MemberAffiliation
      <3>4. QED
        BY <1>1, <1>2, <3>1, <3>2, <3>3 DEF Fits
    <2>9. QED
      BY <2>6, <2>7, <2>8 DEF IAlign
  <1>4. ASSUME NEW x \in late, LateApply(x) PROVE IAlign'
    <2>1. /\ x[1] \in Groups /\ x[2] \in Users /\ x[3] \in Affiliations
          /\ <<x[1], x[2]>> \in lost
      BY DEF IInv, TypeOK, IAlign, LateAreLost
    <2>2. /\ late' \subseteq late /\ creator' = creator
          /\ \A h \in Groups, v \in Users :
               affil'[h][v] = affil[h][v] \/ (creator[h] # None /\ <<h, v>> \in lost)
      <3>1. /\ late' = late \ {x} /\ creator' = creator
            /\ IF creator[x[1]] = None THEN affil' = affil
               ELSE affil' = [affil EXCEPT ![x[1]][x[2]] = x[3]]
        BY <1>4 DEF LateApply, SetAffiliation
      <3>2. PICK a \in Groups, b \in Users, c \in Affiliations : a = x[1] /\ b = x[2] /\ c = x[3]
        BY <2>1
      <3>3. CASE creator[a] = None
        BY <3>1, <3>2, <3>3
      <3>4. CASE creator[a] # None
        <4>1. affil' = [affil EXCEPT ![a] = [affil[a] EXCEPT ![b] = c]] /\ affil \in [Groups -> [Users -> Affiliations]]
          BY <3>1, <3>2, <3>4 DEF IInv, TypeOK
        <4>2. affil'[a] = [affil[a] EXCEPT ![b] = c] /\ \A h \in Groups : h # a => affil'[h] = affil[h]
          BY <4>1
        <4>3. affil[a] \in [Users -> Affiliations]
          BY <4>1
        <4>4. \A v \in Users : v # b => affil'[a][v] = affil[a][v]
          BY <4>2, <4>3
        <4>5. \A h \in Groups, v \in Users : affil'[h][v] = affil[h][v] \/ (h = a /\ v = b)
          BY <4>2, <4>4
        <4>6. QED
          BY <2>1, <3>1, <3>2, <3>4, <4>5
      <3>5. QED
        BY <3>3, <3>4
    <2>3. LateAreLost' /\ EmptyRooms' /\ RemovalsTold'
      BY <1>1, <1>2, <2>2 DEF IAlign, LateAreLost, EmptyRooms, RemovalsTold
    <2>4. PushesFit'
      <3> SUFFICES ASSUME NEW r \in Reqs PROVE Fits(req[r])'
        BY DEF PushesFit
      <3>1. Fits(req[r])
        BY DEF IAlign, PushesFit
      <3>2. req[r].pc = "push" /\ req[r].op \in {"sync", "join"} => req[r].group \in Groups
        BY Known DEF CallKnows
      <3>3. QED
        BY <1>1, <1>2, <2>2, <3>1, <3>2 DEF Fits
    <2>5. QED
      BY <2>3, <2>4 DEF IAlign
  <1>5. QED
    BY <1>3, <1>4 DEF World

LEMMA AlignInit == Init => IAlign
  BY DEF Init, IAlign, LateAreLost, EmptyRooms, RemovalsTold, PushesFit, Fits, Answered

\* A step of a handler is of a call in progress, or one that begins, and of no other.
LEMMA Acts ==
  ASSUME IInv, NEW r \in Reqs, Receives(r) \/ Handle(r) \/ Crash(r)
  PROVE  /\ req[r].pc # "idle" \/ req'[r].pc # "idle"
         /\ \A x \in Reqs \ {r} : req'[x] = req[x]
  <1> DEFINE Begins == req'[r].pc # "idle" /\ \A x \in Reqs \ {r} : req'[x] = req[x]
  <1>1. ASSUME NEW q, Receive(r, q), q.pc # "idle"
        PROVE  Begins
    BY <1>1 DEF Receive, IInv, TypeOK
  <1> HIDE DEF Begins
  <1>2. CASE Receives(r)
    <2>1. ASSUME NEW u, NEW ms, ReceiveCreate(r, u, ms) PROVE Begins
      BY <1>1, <2>1 DEF ReceiveCreate, Answered
    <2>2. ASSUME NEW u, NEW g, NEW op, ReceiveRead(r, u, g, op) PROVE Begins
      BY <1>1, <2>2 DEF ReceiveRead, Answered
    <2>3. ASSUME NEW u, NEW g, NEW new, ReceiveUpdate(r, u, g, new) PROVE Begins
      BY <1>1, <2>3 DEF ReceiveUpdate, Answered
    <2>4. ASSUME NEW u, NEW g, NEW m, NEW new, ReceiveAdd(r, u, g, m, new)
          PROVE  Begins
      BY <1>1, <2>4 DEF ReceiveAdd, Answered
    <2>5. ASSUME NEW u, NEW g, NEW m, ReceiveRemove(r, u, g, m) PROVE Begins
      BY <1>1, <2>5 DEF ReceiveRemove, Answered
    <2>6. QED
      BY <1>2, <2>1, <2>2, <2>3, <2>4, <2>5 DEF Receives, Begins
  <1>3. ASSUME req[r].pc # "idle", \E q : req' = [req EXCEPT ![r] = q]
        PROVE  \A x \in Reqs \ {r} : req'[x] = req[x]
    BY <1>3 DEF IInv, TypeOK
  <1>4. CASE ReadGroup(r) \/ ReadMember(r) \/ Refuse(r) \/ Crash(r)
    BY <1>3, <1>4 DEF ReadGroup, ReadMember, Refuse, Crash, Reply
  <1>5. CASE CreateGroup(r) \/ UpdateGroup(r) \/ AddMember(r) \/ RemoveMember(r)
    BY <1>3, <1>5 DEF CreateGroup, UpdateGroup, AddMember, RemoveMember, Reply
  <1>6. CASE ListMembers(r) \/ Respond(r)
    BY <1>3, <1>6 DEF ListMembers, Respond, Reply
  <1>7. CASE Push(r)
    <2>1. req[r].pc = "push" /\ \E p : PushApplied(r, p) \/ PushMissing(r, p) \/ PushFails(r, p) \/ PushTimesOut(r, p)
      BY <1>7 DEF Push
    <2>2. \E p, ok : Pushed(r, p, ok)
      BY <2>1 DEF PushApplied, PushMissing, PushFails, PushTimesOut
    <2>3. QED
      BY <1>3, <2>1, <2>2 DEF Pushed
  <1>8. QED
    BY <1>2, <1>4, <1>5, <1>6, <1>7 DEF Handle

LEMMA AlignNext ==
  ASSUME NoOverlap, NoOverlap', IInv, IAlign, [Next]_vars
  PROVE  IAlign'
  <1>1. CASE World
    BY <1>1, AlignWorld
  <1>2. ASSUME NEW r \in Reqs, Receives(r) \/ Handle(r) \/ Crash(r) PROVE IAlign'
    <2>0. Sole(r)
      <3>1. /\ req[r].pc # "idle" \/ req'[r].pc # "idle"
            /\ \A x \in Reqs \ {r} : req'[x] = req[x]
        BY <1>2, Acts
      <3>2. QED
        BY <3>1 DEF Sole, NoOverlap
    <2>1. CASE Receives(r)
      BY <2>0, <2>1, AlignReceives
    <2>2. CASE Crash(r)
      BY <2>0, <2>2, AlignCrash
    <2>3. CASE ReadGroup(r) \/ ReadMember(r) \/ Refuse(r) \/ UpdateGroup(r) \/ Respond(r)
      BY <2>0, <2>3, AlignChecks
    <2>4. CASE CreateGroup(r)
      BY <2>0, <2>4, AlignCreateGroup
    <2>5. CASE AddMember(r) \/ RemoveMember(r)
      BY <2>0, <2>5, AlignWrites
    <2>6. CASE ListMembers(r)
      BY <2>0, <2>6, AlignListMembers
    <2>7. CASE Push(r)
      BY <2>0, <2>7, AlignPush
    <2>8. QED
      BY <1>2, <2>1, <2>2, <2>3, <2>4, <2>5, <2>6, <2>7 DEF Handle
  <1>3. CASE UNCHANGED vars
    BY <1>3 DEF vars, db, muc, IAlign, LateAreLost, EmptyRooms, RemovalsTold, Told,
                PushesFit, Fits, MemberAffiliation
  <1>4. QED
    BY <1>1, <1>2, <1>3 DEF Next

\* The answer to sync, get or join finds the room as the tables have it.
LEMMA AlignedAnswer ==
  ASSUME IInv, IAlign, NEW r \in Reqs, Sole(r), Respond(r), req[r].op \in {"sync", "join"},
         ~req[r].skipped, creator[req[r].group] = owner[req[r].group]
  PROVE  \A u \in Users : \/ affil[req[r].group][u] = Expected(req[r].group, u)
                          \/ <<req[r].group, u>> \in lost
  <1> SUFFICES ASSUME NEW u \in Users
               PROVE  \/ affil[req[r].group][u] = Expected(req[r].group, u)
                      \/ <<req[r].group, u>> \in lost
    OBVIOUS
  <1>1. req[r].pc = "push" /\ req[r].todo = {}
    BY DEF Respond
  <1>2. PICK g \in Groups : g = req[r].group
    BY <1>1, Known DEF CallKnows
  <1>3. CASE role[g][u] = "none"
    <2>1. ~Told(g, u)
      BY <1>1 DEF Sole, Told
    <2>2. QED
      BY <1>2, <1>3, <2>1 DEF IAlign, RemovalsTold, Expected
  <1>4. CASE role[g][u] # "none"
    <2>1. affil[g][u] = MemberAffiliation(g, u) \/ <<g, u>> \in lost
      BY <1>1, <1>2, <1>4 DEF IAlign, PushesFit, Fits
    <2>2. role[g][u] \in {"member", "admin", "owner"} /\ (role[g][u] = "owner" => u = owner[g])
      BY <1>4 DEF IInv, TypeOK, OneOwner, Affiliations
    <2>3. QED
      BY <1>2, <1>4, <2>1, <2>2 DEF Expected, MemberAffiliation
  <1>5. QED
    BY <1>3, <1>4

\* As long as no two calls overlap, an answer of sync, get or join that skipped
\* nobody leaves the room with exactly the stored membership, whatever earlier
\* calls did, crashed at or lost on the way, but for those whose own change was lost
\* (_sync_members_to_muc; with two handlers, as in groups_stale_push, it is false).
THEOREM AnswersAlign == Spec /\ []NoOverlap => SyncAligns
  <1>1. Init => IAlign
    BY AlignInit
  <1>2. NoOverlap /\ NoOverlap' /\ IInv /\ IAlign /\ [Next]_vars => IAlign'
    BY AlignNext
  <1>3. NoOverlap /\ IInv /\ IAlign =>
          [\A r \in Reqs :
             /\ Respond(r)
             /\ req[r].op \in {"sync", "join"}
             /\ ~req[r].skipped
             /\ creator[req[r].group] = owner[req[r].group]
             => \A u \in Users :
                  \/ affil[req[r].group][u] = Expected(req[r].group, u)
                  \/ <<req[r].group, u>> \in lost]_vars
    <2>1. ASSUME NoOverlap, NEW r \in Reqs, Respond(r) PROVE Sole(r)
      BY <2>1 DEF NoOverlap, Sole, Respond
    <2>2. QED
      BY <2>1, AlignedAnswer
  <1>4. QED
    BY <1>1, <1>2, <1>3, Inductive, PTL DEF Spec, SyncAligns
=============================================================================
