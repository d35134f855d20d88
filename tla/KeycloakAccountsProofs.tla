----------------------- MODULE KeycloakAccountsProofs -----------------------
(* Theorems about KeycloakAccounts for every set of names, passwords and     *)
(* requests served at once, every number of users and every set of faults.   *)
EXTENDS KeycloakAccounts, TLAPS

USE AccountsAssumption

Looking  == {"exists", "find", "post", "locate", "readback"}
Changing == {"get", "get again", "put", "setpass", "remove"}

RequestSet ==
    [pc : {"free"} \cup Looking \cup Changing \cup Codes, op : Ops \cup {None},
     name : Names \cup {None}, id : 0..MaxId, pass : Passwords \cup {None},
     status : Statuses, read : UserSet, blind : BOOLEAN]

WishSet == [enabled : BOOLEAN, by : SUBSET Passwords]

QuestionSet ==
    [pc : {"none", "asked", "found", "accepted", "refused"}, kind : {"auth", "isuser", None},
     name : Names \cup {None}, pass : Passwords \cup {None},
     found : 0..MaxId, seen : BOOLEAN, failed : BOOLEAN]

\* What a request brings to the step it is at, when n users have been created.
InOrder(r, n) ==
    /\ r.pc \in Looking => r.op = "create" /\ r.name \in Names /\ r.pass \in Passwords
    /\ r.pc \in Changing \cup {"locate"} => r.id \in 1..n
    /\ r.pc \in {"get", "get again"} =>
         r.op \in {"update", "delete"} \/ (r.op = "password" /\ r.pass \in Passwords)
    /\ r.pc = "setpass" =>
         r.pass \in Passwords /\ (r.op = "password" \/ (r.op = "create" /\ r.name \in Names))
    /\ r.pc = "put" => r.op = "update" /\ r.read.name \in Names
    /\ r.pc = "remove" => r.op = "delete"

IType ==
    /\ TypeOK
    /\ worker \in [Workers -> RequestSet]
    /\ \A w \in Workers : InOrder(worker[w], ids)
    /\ wanted \in [Ids -> WishSet]
    /\ ext \in QuestionSet

-----------------------------------------------------------------------------
LEMMA FreeType == Free \in RequestSet /\ InOrder(Free, 0)
  BY DEF Free, RequestSet, UserSet, NoUser, Statuses, InOrder, Looking, Changing

LEMMA TypeInit == Init => IType
  <1> SUFFICES ASSUME Init PROVE IType
    OBVIOUS
  <1>2. NoWish \in WishSet /\ NoQuestion \in QuestionSet /\ NoUser \in UserSet
    BY DEF NoWish, WishSet, NoQuestion, QuestionSet, NoUser, UserSet
  <1>3. worker \in [Workers -> RequestSet] /\ \A w \in Workers : InOrder(worker[w], ids)
    BY FreeType DEF Init
  <1>4. users \in [Ids -> UserSet] /\ wanted \in [Ids -> WishSet] /\ ext \in QuestionSet
    BY <1>2 DEF Init
  <1>5. ext.pc = "none"
    BY DEF Init, NoQuestion
  <1>6. \A i \in Ids : ~Exists(i)
    BY DEF Init, Exists
  <1>7. ids \in 0..MaxId /\ stale \subseteq Ids /\ mistaken \subseteq Ids
    BY DEF Init
  <1>8. QED
    BY <1>3, <1>4, <1>5, <1>6, <1>7 DEF IType, TypeOK

\* Creating users puts no request out of order.
LEMMA OrderLasts ==
  ASSUME NEW r, NEW m \in Nat, NEW n \in Nat, m <= n, InOrder(r, m)
  PROVE  InOrder(r, n)
  <1>1. 1..m \subseteq 1..n
    OBVIOUS
  <1>2. QED
    BY <1>1 DEF InOrder

\* A step of one request leaves the requests in order if its own is.
LEMMA OneRequestType ==
  ASSUME IType, NEW w \in Workers, NEW r \in RequestSet, ids' \in Nat, ids <= ids',
         worker' = [worker EXCEPT ![w] = r], InOrder(r, ids')
  PROVE  worker' \in [Workers -> RequestSet] /\ \A v \in Workers : InOrder(worker'[v], ids')
  <1>1. worker' \in [Workers -> RequestSet] /\ ids \in Nat
    BY DEF IType, TypeOK
  <1>2. ASSUME NEW v \in Workers PROVE InOrder(worker'[v], ids')
    <2>1. CASE v = w
      BY <2>1 DEF IType
    <2>2. CASE v # w
      <3>1. worker'[v] = worker[v] /\ InOrder(worker[v], ids)
        BY <2>2 DEF IType
      <3>2. QED
        BY <1>1, <3>1, OrderLasts
    <2>3. QED
      BY <2>1, <2>2
  <1>3. QED
    BY <1>1, <1>2

\* Answering a request keeps the types of the requests.
LEMMA ReplyType ==
  ASSUME IType, NEW w \in Workers, NEW code \in Codes, ids' \in Nat, ids <= ids', Reply(w, code)
  PROVE  worker' \in [Workers -> RequestSet] /\ \A v \in Workers : InOrder(worker'[v], ids')
  <1> DEFINE r == [Free EXCEPT !.pc = code, !.op = worker[w].op]
  <1>1. worker[w].op \in Ops \cup {None} /\ worker' = [worker EXCEPT ![w] = r]
    BY DEF IType, RequestSet, Reply
  <1>2. r \in RequestSet
    BY <1>1, FreeType DEF RequestSet
  <1>3. InOrder(r, ids')
    BY DEF Free, InOrder, Looking, Changing, Codes
  <1> HIDE DEF r
  <1>4. QED
    BY <1>1, <1>2, <1>3, OneRequestType

\* Likewise moving on with what a request has.
LEMMA GotoType ==
  ASSUME IType, NEW w \in Workers, NEW pc \in Looking \cup Changing \cup Codes,
         ids' \in Nat, ids <= ids', Goto(w, pc),
         InOrder([worker[w] EXCEPT !.pc = pc], ids')
  PROVE  worker' \in [Workers -> RequestSet] /\ \A v \in Workers : InOrder(worker'[v], ids')
  <1> DEFINE r == [worker[w] EXCEPT !.pc = pc]
  <1>1. worker[w] \in RequestSet
    BY DEF IType
  <1>2. r \in RequestSet
    BY <1>1 DEF RequestSet
  <1>3. worker' = [worker EXCEPT ![w] = r]
    BY DEF Goto
  <1>4. InOrder(r, ids')
    OBVIOUS
  <1> HIDE DEF r
  <1>5. QED
    BY <1>2, <1>3, <1>4, OneRequestType

LEMMA Unchanged ==
  ASSUME IType, UNCHANGED <<Keycloak, ext>>,
         worker' \in [Workers -> RequestSet], \A v \in Workers : InOrder(worker'[v], ids')
  PROVE  IType'
  BY DEF Keycloak, IType, TypeOK, Exists

\* The administrators' requests come well formed.
LEMMA TypeRequests ==
  ASSUME IType, NEW w \in Workers, Requests(w)
  PROVE  IType'
  <1>1. ASSUME NEW r \in RequestSet, worker' = [worker EXCEPT ![w] = r], InOrder(r, ids),
               UNCHANGED <<Keycloak, ext>>
        PROVE  IType'
    <2>1. ids' \in Nat /\ ids <= ids' /\ InOrder(r, ids')
      BY <1>1 DEF Keycloak, IType, TypeOK
    <2>2. QED
      BY <1>1, <2>1, OneRequestType, Unchanged
  <1>2. Free \in RequestSet
    BY FreeType
  <1>3. ASSUME NEW n \in Names, NEW p \in Passwords, PostUsers(w, n, p) PROVE IType'
    BY <1>1, <1>2, <1>3 DEF PostUsers, RequestSet, InOrder, Looking, Changing, Ops, Free
  <1>4. ASSUME NEW i \in 1..ids, NEW status \in Statuses, PatchUser(w, i, status) PROVE IType'
    <2>1. i \in 0..MaxId
      BY DEF IType, TypeOK
    <2>2. QED
      BY <1>1, <1>2, <1>4, <2>1 DEF PatchUser, RequestSet, InOrder, Looking, Changing, Ops, Free
  <1>5. ASSUME NEW i \in 1..ids, NEW p \in Passwords, PatchPassword(w, i, p) PROVE IType'
    <2>1. i \in 0..MaxId
      BY DEF IType, TypeOK
    <2>2. QED
      BY <1>1, <1>2, <1>5, <2>1 DEF PatchPassword, RequestSet, InOrder, Looking, Changing, Ops, Free
  <1>6. ASSUME NEW i \in 1..ids, DeleteUser(w, i) PROVE IType'
    <2>1. i \in 0..MaxId
      BY DEF IType, TypeOK
    <2>2. QED
      BY <1>1, <1>2, <1>6, <2>1 DEF DeleteUser, RequestSet, InOrder, Looking, Changing, Ops, Free
  <1>7. QED
    BY <1>3, <1>4, <1>5, <1>6 DEF Requests

LEMMA IdType == ASSUME IType, NEW w \in Workers, worker[w].id \in 1..ids PROVE worker[w].id \in Ids
  <1>1. ids \in 0..MaxId
    BY DEF IType, TypeOK
  <1>2. QED
    BY <1>1 DEF Ids

\* The look-ups keep the types.
LEMMA TypeLookups ==
  ASSUME IType, NEW w \in Workers,
         \/ CheckName(w) \/ FindName(w) \/ ReadBack(w) \/ Lookup(w) \/ LookupAgain(w) \/ Done(w)
  PROVE  IType'
  <1> DEFINE Step(pc) == [worker[w] EXCEPT !.pc = pc]
  <1>1. ids \in Nat /\ worker[w] \in RequestSet /\ InOrder(worker[w], ids)
    BY DEF IType, TypeOK
  <1>2. ASSUME UNCHANGED <<Keycloak, ext>>, NEW code \in Codes, Reply(w, code) PROVE IType'
    BY <1>1, <1>2, ReplyType, Unchanged DEF Keycloak
  <1>3. ASSUME UNCHANGED <<Keycloak, ext>>, NEW pc \in Looking \cup Changing \cup Codes,
               Goto(w, pc), InOrder(Step(pc), ids)
        PROVE  IType'
    BY <1>1, <1>3, GotoType, Unchanged DEF Keycloak
  <1>4. ASSUME UNCHANGED <<Keycloak, ext>>, NEW r \in RequestSet,
               worker' = [worker EXCEPT ![w] = r], InOrder(r, ids)
        PROVE  IType'
    <2>1. ids' \in Nat /\ ids <= ids' /\ InOrder(r, ids')
      BY <1>1, <1>4 DEF Keycloak
    <2>2. QED
      BY <1>4, <2>1, OneRequestType, Unchanged
  <1>5. CASE CheckName(w)
    <2>1. InOrder(Step("find"), ids)
      BY <1>1, <1>5 DEF CheckName, At, InOrder, Looking, Changing, RequestSet
    <2>2. QED
      BY <1>2, <1>3, <1>5, <2>1 DEF CheckName, Codes, Looking
  <1>6. CASE FindName(w)
    <2>1. InOrder(Step("post"), ids)
      BY <1>1, <1>6 DEF FindName, At, InOrder, Looking, Changing, RequestSet
    <2>2. QED
      BY <1>2, <1>3, <1>6, <2>1 DEF FindName, Codes, Looking
  <1>7. CASE ReadBack(w)
    BY <1>2, <1>7 DEF ReadBack, Codes
  <1>8. CASE Lookup(w)
    <2>1. InOrder(Step("get again"), ids)
      BY <1>1, <1>8 DEF Lookup, NotFound, At, InOrder, Looking, Changing, RequestSet
    <2>2. QED
      BY <1>2, <1>3, <1>8, <2>1 DEF Lookup, NotFound, Codes, Changing
  <1>9. CASE LookupAgain(w)
    <2>1. worker[w].pc = "get again" /\ worker[w].op \in {"update", "password", "delete"}
          /\ worker[w].id \in 1..ids /\ (worker[w].op = "password" => worker[w].pass \in Passwords)
      BY <1>1, <1>9 DEF LookupAgain, At, InOrder, Changing
    <2>2. CASE Reply(w, Unfound(w))
      BY <1>2, <1>9, <2>2 DEF LookupAgain, Unfound, Codes
    <2>3. CASE worker' = [worker EXCEPT ![w] = [Free EXCEPT !.pc = Unfound(w), !.op = worker[w].op,
                                                            !.blind = TRUE]]
      <3> DEFINE r == [Free EXCEPT !.pc = Unfound(w), !.op = worker[w].op, !.blind = TRUE]
      <3>1. Unfound(w) \in Codes
        BY DEF Unfound, Codes
      <3>2. worker[w].op \in Ops
        BY <2>1 DEF Ops
      <3>3. r \in RequestSet
        BY <3>1, <3>2, FreeType DEF RequestSet
      <3>4. InOrder(r, ids)
        BY <3>1 DEF InOrder, Looking, Changing, Codes, Free
      <3> HIDE DEF r
      <3>5. QED
        BY <1>4, <1>9, <2>3, <3>3, <3>4 DEF LookupAgain, r
    <2>4. CASE /\ Exists(worker[w].id)
               /\ worker' = [worker EXCEPT
                     ![w].read = IF worker[w].op = "update" THEN users[worker[w].id] ELSE @,
                     ![w].pc = CASE worker[w].op = "update" -> "put"
                                 [] worker[w].op = "password" -> "setpass"
                                 [] worker[w].op = "delete" -> "remove"]
      <3>1. worker[w].id \in Ids /\ users[worker[w].id] \in UserSet
            /\ users[worker[w].id].name \in Names
        <4>1. worker[w].id \in Ids
          BY <2>1, IdType
        <4>2. QED
          BY <2>4, <4>1 DEF IType, TypeOK
      <3>2. CASE worker[w].op = "update"
        <4> DEFINE r == [worker[w] EXCEPT !.read = users[worker[w].id], !.pc = "put"]
        <4>1. worker' = [worker EXCEPT ![w] = r]
          BY <1>1, <2>4, <3>2 DEF IType, RequestSet
        <4>2. r \in RequestSet
          BY <1>1, <3>1 DEF RequestSet, Changing
        <4>3. InOrder(r, ids)
          BY <1>1, <2>1, <3>1, <3>2 DEF InOrder, Looking, Changing, RequestSet
        <4> HIDE DEF r
        <4>4. QED
          BY <1>4, <1>9, <4>1, <4>2, <4>3 DEF LookupAgain
      <3>3. CASE worker[w].op = "password"
        <4> DEFINE r == [worker[w] EXCEPT !.pc = "setpass"]
        <4>1. worker' = [worker EXCEPT ![w] = r]
          BY <1>1, <2>4, <3>3 DEF IType, RequestSet
        <4>2. r \in RequestSet
          BY <1>1 DEF RequestSet, Changing
        <4>3. InOrder(r, ids)
          BY <1>1, <2>1, <3>1, <3>3 DEF InOrder, Looking, Changing, RequestSet
        <4> HIDE DEF r
        <4>4. QED
          BY <1>4, <1>9, <4>1, <4>2, <4>3 DEF LookupAgain
      <3>4. CASE worker[w].op = "delete"
        <4> DEFINE r == [worker[w] EXCEPT !.pc = "remove"]
        <4>1. worker' = [worker EXCEPT ![w] = r]
          BY <1>1, <2>4, <3>4 DEF IType, RequestSet
        <4>2. r \in RequestSet
          BY <1>1 DEF RequestSet, Changing
        <4>3. InOrder(r, ids)
          BY <1>1, <2>1, <3>1, <3>4 DEF InOrder, Looking, Changing, RequestSet
        <4> HIDE DEF r
        <4>4. QED
          BY <1>4, <1>9, <4>1, <4>2, <4>3 DEF LookupAgain
      <3>5. QED
        BY <2>1, <3>2, <3>3, <3>4
    <2>5. QED
      BY <1>9, <2>2, <2>3, <2>4 DEF LookupAgain
  <1>10. CASE Done(w)
    <2>1. InOrder(Free, ids)
      BY FreeType DEF InOrder, Free, Looking, Changing
    <2>2. QED
      BY <1>4, <1>10, <2>1, FreeType DEF Done
  <1>11. QED
    BY <1>5, <1>6, <1>7, <1>8, <1>9, <1>10

\* A user that is written stays well formed, and so do the others.
LEMMA TypeWritten ==
  ASSUME IType, NEW i \in Ids, NEW u \in UserSet, NEW b \in WishSet,
         u = NoUser \/ (i <= ids' /\ u.name \in Names),
         ids' \in 0..MaxId, ids <= ids', stale' \subseteq Ids,
         users' = [users EXCEPT ![i] = u], wanted' = [wanted EXCEPT ![i] = b],
         UNCHANGED <<ext, mistaken>>,
         worker' \in [Workers -> RequestSet], \A v \in Workers : InOrder(worker'[v], ids')
  PROVE  IType'
  <1>1. users' \in [Ids -> UserSet] /\ wanted' \in [Ids -> WishSet]
    BY DEF IType, TypeOK
  <1>2. ASSUME NEW j \in Ids, users'[j] # NoUser PROVE j <= ids' /\ users'[j].name \in Names
    <2>1. CASE j = i
      BY <1>2, <2>1 DEF IType, TypeOK
    <2>2. CASE j # i
      <3>1. users'[j] = users[j]
        BY <2>2 DEF IType, TypeOK
      <3>2. j <= ids /\ users[j].name \in Names
        BY <1>2, <3>1 DEF IType, TypeOK, Exists
      <3>3. QED
        BY <3>1, <3>2 DEF IType, TypeOK, Ids
    <2>3. QED
      BY <2>1, <2>2
  <1>3. QED
    BY <1>1, <1>2 DEF IType, TypeOK, Exists

LEMMA TypeCreate == ASSUME IType, NEW w \in Workers, CreateUser(w) PROVE IType'
  <1>1. ids \in Nat /\ worker[w] \in RequestSet /\ InOrder(worker[w], ids)
    BY DEF IType, TypeOK
  <1>2. worker[w].op = "create" /\ worker[w].name \in Names /\ worker[w].pass \in Passwords
    BY <1>1 DEF CreateUser, At, InOrder, Looking
  <1>3. ASSUME UNCHANGED Keycloak PROVE IType'
    <2>1. Reply(w, "502") /\ ids' = ids
      BY <1>1, <1>3 DEF CreateUser, Keycloak
    <2>2. QED
      BY <1>1, <1>3, <2>1, ReplyType, Unchanged DEF CreateUser, Codes
  <1>4. CASE ids < MaxId /\ ids' = ids + 1
    <2> DEFINE u == [name |-> worker[w].name, enabled |-> TRUE, pass |-> None]
               b == [enabled |-> TRUE, by |-> {worker[w].pass}]
    <2>1. /\ users' = [users EXCEPT ![ids + 1] = u]
          /\ wanted' = [wanted EXCEPT ![ids + 1] = b]
          /\ UNCHANGED <<stale, mistaken, ext>>
          /\ \/ \E pc \in {"setpass", "locate"} :
                  worker' = [worker EXCEPT ![w].pc = pc, ![w].id = ids + 1]
             \/ Reply(w, "502")
      BY <1>1, <1>4 DEF CreateUser, Keycloak
    <2>2. ids + 1 \in Ids /\ ids' \in 0..MaxId /\ ids' \in Nat /\ ids <= ids' /\ ids + 1 <= ids'
      BY <1>1, <1>4 DEF Ids
    <2>3. u \in UserSet /\ u.name \in Names /\ b \in WishSet
      BY <1>2 DEF UserSet, WishSet
    <2>4. worker' \in [Workers -> RequestSet] /\ \A v \in Workers : InOrder(worker'[v], ids')
      <3>1. CASE Reply(w, "502")
        BY <2>2, <3>1, ReplyType DEF Codes
      <3>2. ASSUME NEW pc \in {"setpass", "locate"},
                   worker' = [worker EXCEPT ![w].pc = pc, ![w].id = ids + 1]
            PROVE  worker' \in [Workers -> RequestSet] /\ \A v \in Workers : InOrder(worker'[v], ids')
        <4> DEFINE r == [worker[w] EXCEPT !.pc = pc, !.id = ids + 1]
        <4>1. worker' = [worker EXCEPT ![w] = r]
          BY <3>2 DEF IType
        <4>2. r \in RequestSet
          <5>1. ids + 1 \in 0..MaxId
            BY <1>1, <1>4
          <5>2. QED
            BY <1>1, <5>1 DEF RequestSet, Changing, Looking
        <4>3. InOrder(r, ids')
          <5>1. ids + 1 \in 1..ids'
            BY <1>1, <1>4
          <5>2. /\ r.pc = pc /\ r.id = ids + 1 /\ r.op = worker[w].op
                /\ r.name = worker[w].name /\ r.pass = worker[w].pass
            BY <1>1 DEF RequestSet
          <5> HIDE DEF r
          <5>3. QED
            BY <1>2, <5>1, <5>2 DEF InOrder, Looking, Changing
        <4> HIDE DEF r
        <4>4. QED
          BY <2>2, <4>1, <4>2, <4>3, OneRequestType
      <3>3. QED
        BY <2>1, <3>1, <3>2
    <2>5. stale' \subseteq Ids
      BY <2>1 DEF IType, TypeOK
    <2> HIDE DEF u, b
    <2>6. QED
      BY <2>1, <2>2, <2>3, <2>4, <2>5, TypeWritten
  <1>5. QED
    BY <1>3, <1>4 DEF CreateUser, Keycloak

LEMMA TypeLocate == ASSUME IType, NEW w \in Workers, Locate(w) PROVE IType'
  <1>1. worker[w] \in RequestSet /\ InOrder(worker[w], ids) /\ ids \in Nat /\ ids' = ids
    BY DEF Locate, IType, TypeOK
  <1>2. worker[w].op = "create" /\ worker[w].name \in Names /\ worker[w].pass \in Passwords
    BY <1>1 DEF Locate, At, InOrder, Looking
  <1>3. worker' \in [Workers -> RequestSet] /\ \A v \in Workers : InOrder(worker'[v], ids')
    <2>1. CASE Reply(w, "502")
      BY <1>1, <2>1, ReplyType DEF Codes
    <2>2. ASSUME NEW i \in Named(worker[w].name),
                 worker' = [worker EXCEPT ![w].pc = "setpass", ![w].id = i]
          PROVE  worker' \in [Workers -> RequestSet] /\ \A v \in Workers : InOrder(worker'[v], ids')
      <3> DEFINE r == [worker[w] EXCEPT !.pc = "setpass", !.id = i]
      <3>1. i \in Ids /\ i <= ids
        BY DEF Named, IType, TypeOK
      <3>2. i \in 1..ids /\ i \in 0..MaxId
        BY <1>1, <3>1 DEF Ids
      <3>3. r \in RequestSet
        BY <1>1, <3>2 DEF RequestSet, Changing
      <3>4. /\ r.pc = "setpass" /\ r.id = i /\ r.op = worker[w].op
            /\ r.name = worker[w].name /\ r.pass = worker[w].pass
        BY <1>1 DEF RequestSet
      <3>5. worker' = [worker EXCEPT ![w] = r]
        BY <2>2 DEF IType
      <3> HIDE DEF r
      <3>6. InOrder(r, ids')
        BY <1>1, <1>2, <3>2, <3>4 DEF InOrder, Looking, Changing
      <3>7. ids' \in Nat /\ ids <= ids'
        BY <1>1
      <3>8. QED
        BY <3>3, <3>5, <3>6, <3>7, OneRequestType
    <2>3. QED
      BY <2>1, <2>2 DEF Locate
  <1>4. mistaken' \subseteq Ids
    BY DEF Locate, Named, IType, TypeOK
  <1>5. QED
    BY <1>3, <1>4 DEF Locate, IType, TypeOK, Exists

\* A failed write changes nothing but the request.
LEMMA TypeRefused ==
  ASSUME IType, NEW w \in Workers, NEW code \in Codes, Reply(w, code), UNCHANGED <<Keycloak, ext>>
  PROVE  IType'
  <1>1. ids' \in Nat /\ ids <= ids'
    BY DEF Keycloak, IType, TypeOK
  <1>2. QED
    BY <1>1, ReplyType, Unchanged

LEMMA TypeSetPassword == ASSUME IType, NEW w \in Workers, SetPassword(w) PROVE IType'
  <1> DEFINE i == worker[w].id
             u == [users[i] EXCEPT !.pass = worker[w].pass]
             b == [wanted[i] EXCEPT !.by =
                     IF worker[w].op = "password" THEN @ \cup {worker[w].pass} ELSE @]
             done == IF worker[w].op = "create" THEN "readback" ELSE "200"
  <1>1. ids \in Nat /\ worker[w] \in RequestSet /\ InOrder(worker[w], ids) /\ ids \in 0..MaxId
    BY DEF IType, TypeOK
  <1>2. /\ worker[w].pc = "setpass" /\ worker[w].pass \in Passwords /\ i \in 1..ids
        /\ worker[w].op = "password" \/ (worker[w].op = "create" /\ worker[w].name \in Names)
    BY <1>1 DEF SetPassword, At, InOrder, Changing
  <1>3. i \in Ids
    BY <1>2, IdType
  <1>4. CASE Reply(w, "502") /\ UNCHANGED <<users, wanted>>
    BY <1>4, TypeRefused DEF SetPassword, Keycloak, Codes
  <1>5. CASE /\ Exists(i)
             /\ users' = [users EXCEPT ![i].pass = worker[w].pass]
             /\ wanted' = [wanted EXCEPT ![i].by =
                              IF worker[w].op = "password" THEN @ \cup {worker[w].pass} ELSE @]
             /\ Goto(w, done) \/ Reply(w, "502")
    <2>1. users[i] \in UserSet /\ wanted[i] \in WishSet /\ i <= ids /\ users[i].name \in Names
      BY <1>3, <1>5 DEF IType, TypeOK
    <2>2. users' = [users EXCEPT ![i] = u] /\ wanted' = [wanted EXCEPT ![i] = b]
      BY <1>5
    <2>3. u \in UserSet /\ u.name \in Names
      BY <1>2, <2>1 DEF UserSet
    <2>4. b \in WishSet
      BY <1>2, <2>1 DEF WishSet
    <2>5. /\ ids' = ids /\ ids' \in 0..MaxId /\ ids' \in Nat /\ ids <= ids'
          /\ UNCHANGED <<ext, mistaken>> /\ stale' \subseteq Ids
      BY <1>1 DEF SetPassword, IType, TypeOK
    <2>6. worker' \in [Workers -> RequestSet] /\ \A v \in Workers : InOrder(worker'[v], ids')
      <3>1. CASE Reply(w, "502")
        BY <2>5, <3>1, ReplyType DEF Codes
      <3>2. CASE Goto(w, done)
        <4>1. InOrder([worker[w] EXCEPT !.pc = done], ids')
          BY <1>1, <1>2, <2>5 DEF InOrder, Looking, Changing, RequestSet
        <4>2. done \in Looking \cup Changing \cup Codes
          BY DEF Looking, Codes
        <4> HIDE DEF done
        <4>3. QED
          BY <2>5, <3>2, <4>1, <4>2, GotoType
      <3>3. QED
        BY <1>5, <3>1, <3>2
    <2>7. i <= ids'
      BY <2>1, <2>5
    <2> HIDE DEF u, b, i
    <2>8. QED
      BY <1>3, <2>2, <2>3, <2>4, <2>5, <2>6, <2>7, TypeWritten
  <1>6. QED
    BY <1>4, <1>5 DEF SetPassword, Target

LEMMA MergedType ==
  ASSUME NEW r \in RequestSet
  PROVE  Merged(r) \in UserSet /\ Merged(r).name = r.read.name /\ Merged(r).pass = r.read.pass
  BY DEF Merged, RequestSet, UserSet

LEMMA TypePut == ASSUME IType, NEW w \in Workers, PutUser(w) PROVE IType'
  <1> DEFINE i == worker[w].id
             r == worker[w]
             u == [Merged(r) EXCEPT !.pass = users[i].pass]
             b == [wanted[i] EXCEPT !.enabled = IF r.status = None THEN @ ELSE r.status = "ACTIVE"]
  <1>1. ids \in Nat /\ worker[w] \in RequestSet /\ InOrder(worker[w], ids) /\ ids \in 0..MaxId
    BY DEF IType, TypeOK
  <1>2. worker[w].pc = "put" /\ r.read.name \in Names /\ i \in 1..ids
    BY <1>1 DEF PutUser, At, InOrder, Changing
  <1>3. i \in Ids
    BY <1>2, IdType
  <1>4. CASE Reply(w, "502") /\ UNCHANGED <<users, wanted, stale>>
    BY <1>4, TypeRefused DEF PutUser, Keycloak, Codes
  <1>5. CASE /\ Exists(i)
             /\ users' = [users EXCEPT ![i] = u]
             /\ wanted' = [wanted EXCEPT ![i].enabled = IF r.status = None THEN @ ELSE r.status = "ACTIVE"]
             /\ stale' \in {stale, stale \cup {i}}
             /\ Reply(w, "200") \/ Reply(w, "502")
    <2>1. users[i] \in UserSet /\ wanted[i] \in WishSet /\ i <= ids
      BY <1>3, <1>5 DEF IType, TypeOK
    <2>2. wanted' = [wanted EXCEPT ![i] = b]
      BY <1>5
    <2>3. u \in UserSet /\ u.name \in Names
      <3> HIDE DEF r
      <3>1. Merged(r) \in UserSet /\ Merged(r).name \in Names
        BY <1>1, <1>2, MergedType DEF r
      <3>2. QED
        BY <2>1, <3>1 DEF UserSet
    <2>4. b \in WishSet
      BY <2>1 DEF WishSet
    <2>5. /\ ids' = ids /\ ids' \in 0..MaxId /\ ids' \in Nat /\ ids <= ids' /\ i <= ids'
          /\ UNCHANGED <<ext, mistaken>> /\ stale' \subseteq Ids
      BY <1>1, <1>3, <1>5, <2>1 DEF PutUser, IType, TypeOK
    <2>6. worker' \in [Workers -> RequestSet] /\ \A v \in Workers : InOrder(worker'[v], ids')
      BY <1>5, <2>5, ReplyType DEF Codes
    <2> HIDE DEF u, b, i
    <2>7. QED
      BY <1>3, <1>5, <2>2, <2>3, <2>4, <2>5, <2>6, TypeWritten
  <1>6. QED
    BY <1>4, <1>5 DEF PutUser

LEMMA TypeRemove == ASSUME IType, NEW w \in Workers, RemoveUser(w) PROVE IType'
  <1> DEFINE i == worker[w].id
  <1>1. ids \in Nat /\ worker[w] \in RequestSet /\ InOrder(worker[w], ids) /\ ids \in 0..MaxId
    BY DEF IType, TypeOK
  <1>2. i \in Ids
    BY <1>1, IdType DEF RemoveUser, At, InOrder, Changing
  <1>3. CASE Reply(w, "502") /\ UNCHANGED <<users, wanted, stale>>
    BY <1>3, TypeRefused DEF RemoveUser, Keycloak, Codes
  <1>4. CASE /\ users' = [users EXCEPT ![i] = NoUser]
             /\ wanted' = [wanted EXCEPT ![i] = NoWish]
             /\ stale' = stale \ {i}
             /\ Reply(w, "200") \/ Reply(w, "502")
    <2>1. NoUser \in UserSet /\ NoWish \in WishSet
      BY DEF NoUser, UserSet, NoWish, WishSet
    <2>2. /\ ids' = ids /\ ids' \in 0..MaxId /\ ids' \in Nat /\ ids <= ids'
          /\ UNCHANGED <<ext, mistaken>> /\ stale' \subseteq Ids
      BY <1>1, <1>4 DEF RemoveUser, IType, TypeOK
    <2>3. worker' \in [Workers -> RequestSet] /\ \A v \in Workers : InOrder(worker'[v], ids')
      BY <1>4, <2>2, ReplyType DEF Codes
    <2> HIDE DEF i
    <2>4. QED
      BY <1>2, <1>4, <2>1, <2>2, <2>3, TypeWritten
  <1>5. QED
    BY <1>3, <1>4 DEF RemoveUser

LEMMA TypeExtAuth == ASSUME IType, ExtAuth PROVE IType'
  <1>1. SUFFICES UNCHANGED <<Keycloak, worker>> /\ ext' \in QuestionSet
    BY <1>1 DEF Keycloak, IType, TypeOK, Exists, QuestionSet
  <1>2. UNCHANGED <<Keycloak, worker>>
    BY DEF ExtAuth, Question, Authenticate, FindUser, ReadUser, GiveUp, NextQuestion
  <1>3. ext \in QuestionSet /\ NoQuestion \in QuestionSet
    BY DEF IType, NoQuestion, QuestionSet
  <1>4. ext' \in QuestionSet
    <2>1. ASSUME NEW n \in Names, NEW kind \in {"auth", "isuser"}, NEW p \in Passwords \cup {None},
                 Question(kind, n, p)
          PROVE  ext' \in QuestionSet
      BY <1>3, <2>1 DEF Question, QuestionSet
    <2>2. ASSUME NEW yes, Tell(yes) PROVE ext' \in QuestionSet
      BY <1>3, <2>2 DEF Tell, QuestionSet
    <2>3. CASE Fail
      BY <1>3, <2>3 DEF Fail, QuestionSet
    <2>4. ASSUME NEW i \in Ids, ext' = [ext EXCEPT !.pc = "found", !.found = i, !.seen = users[i].enabled]
          PROVE  ext' \in QuestionSet
      <3>1. users[i].enabled \in BOOLEAN /\ i \in 0..MaxId
        BY DEF IType, TypeOK, UserSet, Ids
      <3>2. QED
        BY <1>3, <2>4, <3>1 DEF QuestionSet
    <2>5. QED
      BY <1>3, <2>1, <2>2, <2>3, <2>4
      DEF ExtAuth, Authenticate, FindUser, Named, ReadUser, GiveUp, NextQuestion
  <1>5. QED
    BY <1>1, <1>2, <1>4

LEMMA TypeStep == IType /\ [Next]_vars => IType'
  <1> SUFFICES ASSUME IType, [Next]_vars PROVE IType'
    OBVIOUS
  <1>1. ASSUME NEW w \in Workers, Requests(w) \/ Serve(w) PROVE IType'
    BY <1>1, TypeRequests, TypeLookups, TypeCreate, TypeLocate, TypeSetPassword, TypePut, TypeRemove DEF Serve
  <1>2. CASE ExtAuth
    BY <1>2, TypeExtAuth
  <1>3. CASE UNCHANGED vars
    BY <1>3 DEF vars, IType, TypeOK, Exists
  <1>4. QED
    BY <1>1, <1>2, <1>3 DEF Next

LEMMA TypeAlways == Spec => []IType
  BY TypeInit, TypeStep, PTL DEF Spec

\* Users have ids that were given and names, whatever fails
\* (sync_user_created, sync_user_update_by_id, sync_user_delete_by_id).
THEOREM TypeCorrect == Spec => []TypeOK
  <1>1. IType => TypeOK
    BY DEF IType
  <1>2. QED
    BY <1>1, TypeAlways, PTL

-----------------------------------------------------------------------------
(* Passwords.  A creation between its POST and its reset-password carries  *)
(* the password its user was created with, or its user is mistaken.        *)

CreatorsPass ==
    \A w \in Workers :
        /\ worker[w].pc \in {"setpass", "locate"} /\ worker[w].op = "create"
        /\ Exists(worker[w].id) /\ worker[w].id \notin mistaken
        => worker[w].pass \in wanted[worker[w].id].by

IPass == PasswordWasGiven /\ CreatorsPass

LEMMA PassInit == Init => IPass
  BY DEF Init, IPass, PasswordWasGiven, CreatorsPass, NoUser, Free

\* Steps that write no user and bring no request to its reset-password.
LEMMA PassOther ==
  ASSUME IType, IPass, UNCHANGED Keycloak, NEW w \in Workers,
         \A v \in Workers : v # w => worker'[v] = worker[v],
         worker'[w].pc \notin {"setpass", "locate"} \/ worker'[w].op # "create"
  PROVE  IPass'
  BY DEF Keycloak, IPass, PasswordWasGiven, CreatorsPass, Exists

\* Answers, and the requests of others, leave each creation its password.
LEMMA RepliedPc ==
  ASSUME IType, NEW w \in Workers, NEW code \in Codes, Reply(w, code)
  PROVE  worker'[w].pc \notin {"setpass", "locate"} /\ \A v \in Workers : v # w => worker'[v] = worker[v]
  BY DEF IType, Reply, Free, Codes

LEMMA PassCreate == ASSUME IType, IPass, NEW w \in Workers, CreateUser(w) PROVE IPass'
  <1> DEFINE k == ids + 1
  <1>1. ids \in Nat /\ worker[w] \in RequestSet
    BY DEF IType, TypeOK
  <1>2. \A v \in Workers : v # w => worker'[v] = worker[v]
    BY DEF CreateUser, Reply, IType
  <1>3. CASE UNCHANGED Keycloak
    <2>1. Reply(w, "502")
      BY <1>1, <1>3 DEF CreateUser, Keycloak
    <2>2. QED
      BY <1>3, <2>1, RepliedPc, PassOther DEF Codes
  <1>4. CASE /\ k \in Ids /\ UNCHANGED mistaken
             /\ users' = [users EXCEPT ![k] = [name |-> worker[w].name, enabled |-> TRUE, pass |-> None]]
             /\ wanted' = [wanted EXCEPT ![k] = [enabled |-> TRUE, by |-> {worker[w].pass}]]
             /\ \/ \E pc \in {"setpass", "locate"} :
                     worker' = [worker EXCEPT ![w].pc = pc, ![w].id = k]
                \/ Reply(w, "502")
    <2>1. /\ users'[k].pass = None /\ wanted'[k].by = {worker[w].pass}
          /\ \A i \in Ids : i # k => users'[i] = users[i] /\ wanted'[i] = wanted[i]
      BY <1>4 DEF IType, TypeOK
    <2>2. PasswordWasGiven'
      BY <1>4, <2>1 DEF IPass, PasswordWasGiven
    <2>3. ASSUME NEW v \in Workers, worker'[v].pc \in {"setpass", "locate"}, worker'[v].op = "create",
                 users'[worker'[v].id] # NoUser, worker'[v].id \notin mistaken
          PROVE  worker'[v].pass \in wanted'[worker'[v].id].by
      <3>1. CASE v = w
        <4>1. PICK pc \in {"setpass", "locate"} :
                worker' = [worker EXCEPT ![w].pc = pc, ![w].id = k]
          BY <1>4, <2>3, <3>1, RepliedPc DEF Codes
        <4>2. worker'[w].id = k /\ worker'[w].pass = worker[w].pass
          BY <1>1, <4>1 DEF IType, RequestSet
        <4>3. QED
          BY <2>1, <3>1, <4>2
      <3>2. CASE v # w
        <4>1. worker'[v] = worker[v]
          BY <1>2, <3>2
        <4>2. worker[v].id \in 1..ids
          BY <2>3, <4>1 DEF IType, InOrder, Changing
        <4>3. worker[v].id \in Ids /\ worker[v].id # k
          BY <1>1, <4>2, IdType
        <4>4. QED
          BY <2>1, <2>3, <4>1, <4>3 DEF IPass, CreatorsPass, Exists
      <3>3. QED
        BY <3>1, <3>2
    <2>4. QED
      BY <1>4, <2>2, <2>3 DEF IPass, CreatorsPass, Exists
  <1>5. ids < MaxId => k \in Ids
    BY <1>1 DEF Ids
  <1>6. QED
    BY <1>3, <1>4, <1>5 DEF CreateUser, Keycloak

\* A creation that looks its user up by name finds its own, or another that is
\* mistaken for it.
LEMMA PassLocate == ASSUME IType, IPass, NEW w \in Workers, Locate(w) PROVE IPass'
  <1>1. worker[w] \in RequestSet /\ InOrder(worker[w], ids)
    BY DEF IType
  <1>2. worker[w].pc = "locate" /\ worker[w].op = "create" /\ mistaken \subseteq mistaken'
    BY <1>1 DEF Locate, At, InOrder, Looking
  <1>3. PasswordWasGiven'
    BY <1>2 DEF Locate, IPass, PasswordWasGiven
  <1>4. \A v \in Workers : v # w => worker'[v] = worker[v]
    BY DEF Locate, Reply, IType
  <1>5. ASSUME NEW v \in Workers, worker'[v].pc \in {"setpass", "locate"}, worker'[v].op = "create",
               users[worker'[v].id] # NoUser, worker'[v].id \notin mistaken'
        PROVE  worker'[v].pass \in wanted[worker'[v].id].by
    <2>1. CASE v # w
      BY <1>2, <1>4, <1>5, <2>1 DEF IPass, CreatorsPass, Exists
    <2>2. CASE v = w /\ Reply(w, "502")
      BY <1>5, <2>2, RepliedPc DEF Codes
    <2>3. ASSUME v = w, NEW i \in Named(worker[w].name),
                 worker' = [worker EXCEPT ![w].pc = "setpass", ![w].id = i],
                 mistaken' = IF i = worker[w].id THEN mistaken ELSE mistaken \cup {i}
          PROVE  worker'[v].pass \in wanted[worker'[v].id].by
      <3>1. worker'[w].id = i /\ worker'[w].pass = worker[w].pass
        BY <1>1, <2>3 DEF IType, RequestSet
      <3>2. i = worker[w].id /\ i \notin mistaken
        BY <1>5, <2>3, <3>1
      <3>3. QED
        BY <1>2, <1>5, <2>3, <3>1, <3>2 DEF IPass, CreatorsPass, Exists
    <2>4. QED
      BY <2>1, <2>2, <2>3 DEF Locate
  <1>6. QED
    BY <1>3, <1>5 DEF Locate, IPass, CreatorsPass, Exists

\* A write to one user keeps the passwords in order if it keeps that user's.
LEMMA PassWritten ==
  ASSUME IType, IPass, NEW w \in Workers, worker[w].id \in Ids, UNCHANGED mistaken,
         worker'[w].pc \notin {"setpass", "locate"},
         \A v \in Workers : v # w => worker'[v] = worker[v],
         \A i \in Ids : i # worker[w].id => users'[i] = users[i] /\ wanted'[i] = wanted[i],
         LET i == worker[w].id
         IN  /\ users'[i].pass # None /\ i \notin mistaken => users'[i].pass \in wanted'[i].by
             /\ users'[i] # NoUser => wanted[i].by \subseteq wanted'[i].by
             /\ users'[i] # NoUser => Exists(i)
  PROVE  IPass'
  <1>1. PasswordWasGiven'
    BY DEF IPass, PasswordWasGiven
  <1>2. ASSUME NEW v \in Workers, worker'[v].pc \in {"setpass", "locate"}, worker'[v].op = "create",
               users'[worker'[v].id] # NoUser, worker'[v].id \notin mistaken
        PROVE  worker'[v].pass \in wanted'[worker'[v].id].by
    <2>1. v # w /\ worker'[v] = worker[v]
      BY <1>2
    <2>2. worker[v].id \in 1..ids
      BY <1>2, <2>1 DEF IType, InOrder, Changing
    <2>3. worker[v].id \in Ids
      BY <2>2, IdType
    <2>4. Exists(worker[v].id) /\ wanted[worker[v].id].by \subseteq wanted'[worker[v].id].by
      BY <1>2, <2>1, <2>3 DEF Exists
    <2>5. QED
      BY <1>2, <2>1, <2>4 DEF IPass, CreatorsPass
  <1>3. QED
    BY <1>1, <1>2 DEF IPass, CreatorsPass, Exists

LEMMA PassSetPassword == ASSUME IType, IPass, NEW w \in Workers, SetPassword(w) PROVE IPass'
  <1> DEFINE i == worker[w].id
             done == IF worker[w].op = "create" THEN "readback" ELSE "200"
  <1>1. worker[w] \in RequestSet /\ InOrder(worker[w], ids)
    BY DEF IType
  <1>2. worker[w].pc = "setpass" /\ worker[w].pass \in Passwords /\ i \in Ids
        /\ worker[w].op \in {"password", "create"}
    BY <1>1, IdType DEF SetPassword, At, InOrder, Changing
  <1>3. worker'[w].pc \notin {"setpass", "locate"} /\ \A v \in Workers : v # w => worker'[v] = worker[v]
    <2>1. CASE Reply(w, "502")
      BY <2>1, RepliedPc DEF Codes
    <2>2. CASE Goto(w, done)
      <3>1. worker'[w].pc = done /\ \A v \in Workers : v # w => worker'[v] = worker[v]
        BY <1>1, <2>2 DEF Goto, IType, RequestSet
      <3>2. QED
        BY <3>1
    <2>3. QED
      BY <2>1, <2>2 DEF SetPassword
  <1>4. CASE UNCHANGED <<users, wanted>>
    BY <1>3, <1>4, PassOther DEF SetPassword, Keycloak
  <1>5. CASE /\ Exists(i)
             /\ users' = [users EXCEPT ![i].pass = worker[w].pass]
             /\ wanted' = [wanted EXCEPT ![i].by =
                              IF worker[w].op = "password" THEN @ \cup {worker[w].pass} ELSE @]
    <2>1. users[i] \in UserSet /\ wanted[i] \in WishSet
      BY <1>2 DEF IType, TypeOK
    <2>2. \A j \in Ids : j # i => users'[j] = users[j] /\ wanted'[j] = wanted[j]
      BY <1>2, <1>5 DEF IType, TypeOK
    <2>3. users'[i].pass = worker[w].pass
      BY <1>2, <1>5, <2>1 DEF IType, TypeOK, UserSet
    <2>4. wanted'[i].by = IF worker[w].op = "password" THEN wanted[i].by \cup {worker[w].pass}
                                                      ELSE wanted[i].by
      BY <1>2, <1>5, <2>1 DEF IType, WishSet
    <2>5. worker[w].op = "create" /\ i \notin mistaken => worker[w].pass \in wanted[i].by
      BY <1>2, <1>5 DEF IPass, CreatorsPass
    <2>6. wanted[i].by \subseteq wanted'[i].by /\ (i \notin mistaken => users'[i].pass \in wanted'[i].by)
      BY <1>2, <2>3, <2>4, <2>5
    <2>7. QED
      BY <1>2, <1>3, <1>5, <2>2, <2>6, PassWritten DEF SetPassword
  <1>6. QED
    BY <1>4, <1>5 DEF SetPassword, Target

LEMMA PassPut == ASSUME IType, IPass, NEW w \in Workers, PutUser(w) PROVE IPass'
  <1> DEFINE i == worker[w].id
  <1>1. worker[w] \in RequestSet /\ InOrder(worker[w], ids)
    BY DEF IType
  <1>2. i \in Ids
    BY <1>1, IdType DEF PutUser, At, InOrder, Changing
  <1>3. worker'[w].pc \notin {"setpass", "locate"} /\ \A v \in Workers : v # w => worker'[v] = worker[v]
    BY RepliedPc DEF PutUser, Codes
  <1>4. CASE UNCHANGED <<users, wanted, stale>>
    BY <1>3, <1>4, PassOther DEF PutUser, Keycloak
  <1>5. CASE /\ Exists(i)
             /\ users' = [users EXCEPT ![i] = [Merged(worker[w]) EXCEPT !.pass = users[i].pass]]
             /\ wanted' = [wanted EXCEPT ![i].enabled =
                              IF worker[w].status = None THEN @ ELSE worker[w].status = "ACTIVE"]
    <2>1. users[i] \in UserSet /\ wanted[i] \in WishSet /\ Merged(worker[w]) \in UserSet
      BY <1>1, <1>2, MergedType DEF IType, TypeOK
    <2>2. \A j \in Ids : j # i => users'[j] = users[j] /\ wanted'[j] = wanted[j]
      BY <1>2, <1>5 DEF IType, TypeOK
    <2>3. users'[i].pass = users[i].pass
      BY <1>2, <1>5, <2>1 DEF IType, TypeOK, UserSet
    <2>4. wanted'[i].by = wanted[i].by
      BY <1>2, <1>5, <2>1 DEF IType, WishSet
    <2>5. users'[i].pass # None /\ i \notin mistaken => users'[i].pass \in wanted'[i].by
      BY <1>2, <2>3, <2>4 DEF IPass, PasswordWasGiven
    <2>6. QED
      BY <1>2, <1>3, <1>5, <2>2, <2>4, <2>5, PassWritten DEF PutUser
  <1>6. QED
    BY <1>4, <1>5 DEF PutUser

LEMMA PassRemove == ASSUME IType, IPass, NEW w \in Workers, RemoveUser(w) PROVE IPass'
  <1> DEFINE i == worker[w].id
  <1>1. worker[w] \in RequestSet /\ InOrder(worker[w], ids)
    BY DEF IType
  <1>2. i \in Ids
    BY <1>1, IdType DEF RemoveUser, At, InOrder, Changing
  <1>3. worker'[w].pc \notin {"setpass", "locate"} /\ \A v \in Workers : v # w => worker'[v] = worker[v]
    BY RepliedPc DEF RemoveUser, Codes
  <1>4. CASE UNCHANGED <<users, wanted, stale>>
    BY <1>3, <1>4, PassOther DEF RemoveUser, Keycloak
  <1>5. CASE /\ users' = [users EXCEPT ![i] = NoUser]
             /\ wanted' = [wanted EXCEPT ![i] = NoWish]
    <2>1. \A j \in Ids : j # i => users'[j] = users[j] /\ wanted'[j] = wanted[j]
      BY <1>2, <1>5 DEF IType, TypeOK
    <2>2. users'[i] = NoUser
      BY <1>2, <1>5 DEF IType, TypeOK
    <2>3. NoUser.pass = None
      BY DEF NoUser
    <2>4. QED
      BY <1>2, <1>3, <2>1, <2>2, <2>3, PassWritten DEF RemoveUser
  <1>6. QED
    BY <1>4, <1>5 DEF RemoveUser

LEMMA PassReads ==
  ASSUME IType, IPass, NEW w \in Workers,
         \/ Requests(w)
         \/ CheckName(w) \/ FindName(w) \/ ReadBack(w) \/ Lookup(w) \/ LookupAgain(w) \/ Done(w)
  PROVE  IPass'
  <1>1. worker[w] \in RequestSet /\ InOrder(worker[w], ids)
    BY DEF IType
  <1>2. ASSUME NEW pc, pc \notin {"setpass", "locate"}, Goto(w, pc)
        PROVE  worker'[w].pc \notin {"setpass", "locate"} /\ \A v \in Workers : v # w => worker'[v] = worker[v]
    BY <1>1, <1>2 DEF Goto, IType, RequestSet
  <1>3. CASE Requests(w)
    <2>1. UNCHANGED Keycloak
      BY <1>3 DEF Requests, PostUsers, PatchUser, PatchPassword, DeleteUser
    <2>2. \A v \in Workers : v # w => worker'[v] = worker[v]
      BY <1>3 DEF Requests, PostUsers, PatchUser, PatchPassword, DeleteUser, IType
    <2>3. worker'[w].pc \notin {"setpass", "locate"}
      <3>1. ASSUME NEW n, NEW q, PostUsers(w, n, q) PROVE worker'[w].pc \notin {"setpass", "locate"}
        BY <3>1 DEF PostUsers, IType, Free
      <3>2. ASSUME NEW i, NEW t, PatchUser(w, i, t) \/ PatchPassword(w, i, t) PROVE worker'[w].pc \notin {"setpass", "locate"}
        BY <3>2 DEF PatchUser, PatchPassword, IType, Free
      <3>3. ASSUME NEW i, DeleteUser(w, i) PROVE worker'[w].pc \notin {"setpass", "locate"}
        BY <3>3 DEF DeleteUser, IType, Free
      <3>4. QED
        BY <1>3, <3>1, <3>2, <3>3 DEF Requests
    <2>4. QED
      BY <2>1, <2>2, <2>3, PassOther
  <1>4. CASE CheckName(w) \/ FindName(w) \/ ReadBack(w) \/ Lookup(w)
    <2>1. /\ worker'[w].pc \notin {"setpass", "locate"} /\ \A v \in Workers : v # w => worker'[v] = worker[v]
      BY <1>2, <1>4, RepliedPc DEF CheckName, FindName, ReadBack, Lookup, NotFound, Codes
    <2>2. UNCHANGED Keycloak
      BY <1>4 DEF CheckName, FindName, ReadBack, Lookup, NotFound
    <2>3. QED
      BY <2>1, <2>2, PassOther
  <1>5. CASE LookupAgain(w)
    <2>1. worker[w].op \in {"update", "password", "delete"}
      BY <1>1, <1>5 DEF LookupAgain, At, InOrder
    <2>2. Unfound(w) \in Codes
      BY DEF Unfound, Codes
    <2>3. \A v \in Workers : v # w => worker'[v] = worker[v]
      BY <1>5 DEF LookupAgain, Reply, IType
    <2>4. worker'[w].pc \notin {"setpass", "locate"} \/ worker'[w].op # "create"
      <3>1. CASE Reply(w, Unfound(w))
        BY <2>2, <3>1, RepliedPc
      <3>2. CASE worker' = [worker EXCEPT ![w] = [Free EXCEPT !.pc = Unfound(w), !.op = worker[w].op,
                                                              !.blind = TRUE]]
        BY <2>2, <3>2 DEF IType, Free, Codes
      <3>3. ASSUME NEW rd, NEW pc, worker' = [worker EXCEPT ![w].read = rd, ![w].pc = pc]
            PROVE  worker'[w].op # "create"
        BY <1>1, <2>1, <3>3 DEF IType, RequestSet
      <3> DEFINE rd == IF worker[w].op = "update" THEN users[worker[w].id] ELSE worker[w].read
                 pc == CASE worker[w].op = "update" -> "put"
                         [] worker[w].op = "password" -> "setpass"
                         [] worker[w].op = "delete" -> "remove"
      <3>4. \/ Reply(w, Unfound(w))
            \/ worker' = [worker EXCEPT ![w] = [Free EXCEPT !.pc = Unfound(w), !.op = worker[w].op,
                                                            !.blind = TRUE]]
            \/ worker' = [worker EXCEPT ![w].read = rd, ![w].pc = pc]
        BY <1>1, <1>5 DEF LookupAgain, IType
      <3> HIDE DEF rd, pc
      <3>5. QED
        BY <3>1, <3>2, <3>3, <3>4
    <2>5. QED
      BY <1>5, <2>3, <2>4, PassOther DEF LookupAgain
  <1>6. CASE Done(w)
    <2>1. worker'[w].pc \notin {"setpass", "locate"} /\ \A v \in Workers : v # w => worker'[v] = worker[v]
      BY <1>6 DEF Done, IType, Free
    <2>2. QED
      BY <1>6, <2>1, PassOther DEF Done
  <1>7. QED
    BY <1>3, <1>4, <1>5, <1>6

LEMMA PassStep == IType /\ IPass /\ [Next]_vars => IPass'
  <1> SUFFICES ASSUME IType, IPass, [Next]_vars PROVE IPass'
    OBVIOUS
  <1>1. ASSUME NEW w \in Workers, Requests(w) \/ Serve(w) PROVE IPass'
    BY <1>1, PassReads, PassCreate, PassLocate, PassSetPassword, PassPut, PassRemove DEF Serve
  <1>2. CASE ExtAuth \/ UNCHANGED vars
    <2>1. UNCHANGED <<users, ids, wanted, stale, mistaken, worker>>
      BY <1>2 DEF ExtAuth, Question, Authenticate, FindUser, ReadUser, GiveUp, NextQuestion, Keycloak, vars
    <2>2. QED
      BY <2>1 DEF IPass, PasswordWasGiven, CreatorsPass, Exists
  <1>3. QED
    BY <1>1, <1>2 DEF Next

\* A user's password is its creator's or a reset's for this very user, though
\* the name be deleted and created again between two calls (sync_user_created).
THEOREM PasswordsGiven == Spec => []PasswordWasGiven
  <1>1. IPass => PasswordWasGiven
    BY DEF IPass
  <1>2. QED
    BY <1>1, PassInit, PassStep, TypeAlways, PTL DEF Spec

-----------------------------------------------------------------------------
(* The status.                                                             *)

LEMMA StatusStep == IType /\ AsAskedLast /\ [Next]_vars => AsAskedLast'
  <1> SUFFICES ASSUME IType, AsAskedLast, [Next]_vars PROVE AsAskedLast'
    OBVIOUS
  <1>1. CASE UNCHANGED Keycloak
    BY <1>1 DEF Keycloak, AsAskedLast, Exists
  <1>2. ASSUME NEW w \in Workers, SetPassword(w) PROVE AsAskedLast'
    <2> DEFINE i == worker[w].id
    <2>1. i \in Ids
      <3>1. InOrder(worker[w], ids)
        BY DEF IType
      <3>2. QED
        BY <1>2, <3>1, IdType DEF SetPassword, At, InOrder, Changing
    <2>2. CASE UNCHANGED <<users, wanted>>
      BY <1>2, <2>2 DEF SetPassword, AsAskedLast, Exists
    <2>3. CASE /\ Exists(i)
               /\ users' = [users EXCEPT ![i].pass = worker[w].pass]
               /\ wanted' = [wanted EXCEPT ![i].by =
                                IF worker[w].op = "password" THEN @ \cup {worker[w].pass} ELSE @]
      <3>1. users[i] \in UserSet /\ wanted[i] \in WishSet
        BY <2>1 DEF IType, TypeOK
      <3>2. \A j \in Ids : users'[j].enabled = users[j].enabled /\ wanted'[j].enabled = wanted[j].enabled
        BY <2>1, <2>3, <3>1 DEF IType, TypeOK, UserSet, WishSet
      <3>3. \A j \in Ids : Exists(j)' => Exists(j)
        BY <2>1, <2>3 DEF IType, TypeOK, Exists
      <3>4. QED
        BY <1>2, <3>2, <3>3 DEF SetPassword, AsAskedLast
    <2>4. QED
      BY <1>2, <2>2, <2>3 DEF SetPassword, Target
  <1>3. ASSUME NEW w \in Workers, PutUser(w) PROVE AsAskedLast'
    <2> DEFINE i == worker[w].id
               r == worker[w]
    <2>1. i \in Ids /\ r \in RequestSet
      <3>1. InOrder(worker[w], ids)
        BY DEF IType
      <3>2. QED
        BY <1>3, <3>1, IdType DEF PutUser, At, InOrder, Changing, IType
    <2>2. CASE UNCHANGED <<users, wanted, stale>>
      BY <2>2 DEF AsAskedLast, Exists
    <2>3. CASE /\ Exists(i)
               /\ users' = [users EXCEPT ![i] = [Merged(r) EXCEPT !.pass = users[i].pass]]
               /\ wanted' = [wanted EXCEPT ![i].enabled = IF r.status = None THEN @ ELSE r.status = "ACTIVE"]
               /\ stale' = IF [r.read EXCEPT !.pass = users[i].pass] # users[i]
                           THEN stale \cup {i} ELSE stale
      <3>1. users[i] \in UserSet /\ wanted[i] \in WishSet /\ r.read \in UserSet
        BY <2>1 DEF IType, TypeOK, RequestSet
      <3>2. \A j \in Ids : j # i => users'[j] = users[j] /\ wanted'[j] = wanted[j]
        BY <2>1, <2>3 DEF IType, TypeOK
      <3>3. users'[i].enabled = Merged(r).enabled
        <4>1. Merged(r) \in UserSet
          BY <2>1, MergedType
        <4>2. QED
          BY <2>1, <2>3, <4>1 DEF IType, TypeOK, UserSet
      <3>4. Merged(r).enabled = IF r.status = None THEN r.read.enabled ELSE r.status = "ACTIVE"
        BY <3>1 DEF Merged, UserSet
      <3>5. wanted'[i].enabled = IF r.status = None THEN wanted[i].enabled ELSE r.status = "ACTIVE"
        BY <2>1, <2>3, <3>1 DEF IType, WishSet
      <3>6. i \notin stale' => i \notin stale /\ r.read.enabled = users[i].enabled
        <4>1. i \notin stale' => i \notin stale /\ [r.read EXCEPT !.pass = users[i].pass] = users[i]
          BY <2>3
        <4>2. [r.read EXCEPT !.pass = users[i].pass].enabled = r.read.enabled
          BY <3>1 DEF UserSet
        <4>3. QED
          BY <4>1, <4>2
      <3>7. i \notin stale' => users'[i].enabled = wanted'[i].enabled
        BY <2>1, <2>3, <3>3, <3>4, <3>5, <3>6 DEF AsAskedLast
      <3>8. \A j \in Ids : j # i /\ j \notin stale' => j \notin stale
        BY <2>3
      <3>9. QED
        BY <3>2, <3>7, <3>8 DEF AsAskedLast, Exists
    <2>4. QED
      BY <1>3, <2>2, <2>3 DEF PutUser
  <1>4. ASSUME NEW w \in Workers, RemoveUser(w) PROVE AsAskedLast'
    <2> DEFINE i == worker[w].id
    <2>1. i \in Ids
      <3>1. InOrder(worker[w], ids)
        BY DEF IType
      <3>2. QED
        BY <1>4, <3>1, IdType DEF RemoveUser, At, InOrder, Changing
    <2>2. CASE UNCHANGED <<users, wanted, stale>>
      BY <2>2 DEF AsAskedLast, Exists
    <2>3. CASE /\ users' = [users EXCEPT ![i] = NoUser]
               /\ wanted' = [wanted EXCEPT ![i] = NoWish]
               /\ stale' = stale \ {i}
      BY <2>1, <2>3 DEF AsAskedLast, Exists, IType, TypeOK
    <2>4. QED
      BY <1>4, <2>2, <2>3 DEF RemoveUser
  <1>5. ASSUME NEW w \in Workers, CreateUser(w) PROVE AsAskedLast'
    <2> DEFINE k == ids + 1
    <2>1. CASE UNCHANGED Keycloak
      BY <2>1 DEF Keycloak, AsAskedLast, Exists
    <2>2. CASE /\ ids < MaxId
               /\ users' = [users EXCEPT ![k] = [name |-> worker[w].name, enabled |-> TRUE, pass |-> None]]
               /\ wanted' = [wanted EXCEPT ![k] = [enabled |-> TRUE, by |-> {worker[w].pass}]]
               /\ UNCHANGED stale
      <3>1. k \in Ids
        BY <2>2 DEF IType, TypeOK, Ids
      <3>2. QED
        BY <2>2, <3>1 DEF AsAskedLast, Exists, IType, TypeOK
    <2>3. QED
      BY <1>5, <2>1, <2>2 DEF CreateUser
  <1>6. CASE ExtAuth \/ UNCHANGED vars
    <2>1. UNCHANGED Keycloak
      BY <1>6 DEF ExtAuth, Question, Authenticate, FindUser, ReadUser, GiveUp, NextQuestion, Keycloak, vars
    <2>2. QED
      BY <1>1, <2>1
  <1>7. ASSUME NEW w \in Workers,
               \/ Requests(w)
               \/ CheckName(w) \/ FindName(w) \/ ReadBack(w) \/ Lookup(w) \/ LookupAgain(w) \/ Done(w)
        PROVE  AsAskedLast'
    <2>1. UNCHANGED Keycloak
      BY <1>7 DEF Requests, PostUsers, PatchUser, PatchPassword, DeleteUser, CheckName, FindName,
                  ReadBack, Lookup, NotFound, LookupAgain, Done
    <2>2. QED
      BY <1>1, <2>1
  <1>8. ASSUME NEW w \in Workers, Locate(w) PROVE AsAskedLast'
    BY <1>8 DEF Locate, AsAskedLast, Exists
  <1>9. QED
    BY <1>2, <1>3, <1>4, <1>5, <1>6, <1>7, <1>8 DEF Next, Serve

\* However reads and writes of updates interleave and fail, the status is the
\* one asked for last, unless a record was written back that another request had
\* changed since it was read (sync_user_update_by_id).
THEOREM StatusAsAsked == Spec => []AsAskedLast
  <1>1. Init => AsAskedLast
    BY DEF Init, AsAskedLast, Exists
  <1>2. QED
    BY <1>1, StatusStep, TypeAlways, PTL DEF Spec

-----------------------------------------------------------------------------
(* Deletions.                                                              *)

LEMMA Replied ==
  ASSUME IType, NEW w \in Workers, NEW code, Reply(w, code)
  PROVE  worker'[w].pc = code /\ worker'[w].op = worker[w].op
  BY DEF IType, Reply, Free

LEMMA Went ==
  ASSUME IType, NEW w \in Workers, NEW pc, Goto(w, pc)
  PROVE  worker'[w].pc = pc /\ worker'[w].op = worker[w].op
  <1>1. worker[w] \in RequestSet
    BY DEF IType
  <1>2. QED
    BY <1>1 DEF IType, Goto, RequestSet

LEMMA GoneStep == IType /\ DeletedWasGone /\ [Next]_vars => DeletedWasGone'
  <1> SUFFICES ASSUME IType, DeletedWasGone, Next,
                      NEW v \in Workers, worker'[v].op = "delete", worker'[v].pc = "200"
               PROVE  held'.gone[v] \/ worker'[v].blind
    BY DEF vars, DeletedWasGone
  <1>1. held'.gone[v] <=>
          \/ held.gone[v]
          \/ \E i \in Ids \cap {worker[v].id, worker'[v].id} : users'[i] = NoUser
    BY DEF Next, Watch
  <1>2. CASE worker'[v] = worker[v]
    BY <1>1, <1>2 DEF DeletedWasGone
  <1>3. worker[v] \in RequestSet /\ InOrder(worker[v], ids)
    BY DEF IType
  <1>4. CASE LookupAgain(v)
    <2>1. worker[v].id \in Ids
      BY <1>3, <1>4, IdType DEF LookupAgain, At, InOrder, Changing
    <2>2. CASE ~Exists(worker[v].id)
      BY <1>1, <1>4, <2>1, <2>2 DEF LookupAgain, Exists, Keycloak
    <2>3. CASE worker' = [worker EXCEPT ![v] = [Free EXCEPT !.pc = Unfound(v), !.op = worker[v].op,
                                                            !.blind = TRUE]]
      BY <2>3 DEF IType, Free
    <2>4. CASE worker' = [worker EXCEPT
                     ![v].read = IF worker[v].op = "update" THEN users[worker[v].id] ELSE @,
                     ![v].pc = CASE worker[v].op = "update" -> "put"
                                 [] worker[v].op = "password" -> "setpass"
                                 [] worker[v].op = "delete" -> "remove"]
      <3>1. worker'[v].op = worker[v].op
        BY <1>3, <2>4 DEF IType, RequestSet
      <3>2. worker'[v].pc = "remove"
        BY <1>3, <2>4, <3>1 DEF IType, RequestSet
      <3>3. QED
        BY <3>2
    <2>5. QED
      BY <1>4, <2>2, <2>3, <2>4 DEF LookupAgain
  <1>5. CASE RemoveUser(v)
    <2>1. worker[v].id \in Ids
      BY <1>3, <1>5, IdType DEF RemoveUser, At, InOrder, Changing
    <2>2. CASE Reply(v, "502")
      BY <2>2 DEF Reply, IType, Free
    <2>3. CASE users' = [users EXCEPT ![worker[v].id] = NoUser]
      BY <1>1, <2>1, <2>3 DEF IType, TypeOK
    <2>4. QED
      BY <1>5, <2>2, <2>3 DEF RemoveUser
  <1>6. CASE SetPassword(v)
    <2>1. worker[v].op \in {"password", "create"}
      BY <1>3, <1>6 DEF SetPassword, At, InOrder
    <2>2. worker'[v].op = worker[v].op
      BY <1>6, Went, Replied DEF SetPassword
    <2>3. QED
      BY <2>1, <2>2
  <1>7. CASE PutUser(v)
    <2>1. worker[v].op = "update"
      BY <1>3, <1>7 DEF PutUser, At, InOrder
    <2>2. worker'[v].op = worker[v].op
      BY <1>7, Replied DEF PutUser
    <2>3. QED
      BY <2>1, <2>2
  <1>8. ASSUME Requests(v) \/ Done(v) PROVE FALSE
    <2>1. ASSUME NEW n \in Names, NEW p \in Passwords, PostUsers(v, n, p) PROVE FALSE
      BY <2>1 DEF PostUsers, IType, Free
    <2>2. ASSUME NEW i, NEW status, PatchUser(v, i, status) PROVE FALSE
      BY <2>2 DEF PatchUser, IType, Free
    <2>3. ASSUME NEW i, NEW p, PatchPassword(v, i, p) PROVE FALSE
      BY <2>3 DEF PatchPassword, IType, Free
    <2>4. ASSUME NEW i, DeleteUser(v, i) PROVE FALSE
      BY <2>4 DEF DeleteUser, IType, Free
    <2>5. CASE Done(v)
      BY <2>5 DEF Done, IType, Free
    <2>6. QED
      BY <1>8, <2>1, <2>2, <2>3, <2>4, <2>5 DEF Requests
  <1>9. ASSUME CheckName(v) \/ FindName(v) \/ ReadBack(v) \/ Lookup(v) PROVE FALSE
    <2>1. worker'[v].pc \in {"find", "400", "post", "502", "201", "get again", "404"}
      BY <1>9, Went, Replied DEF CheckName, FindName, ReadBack, Lookup, NotFound
    <2>2. QED
      BY <2>1
  <1>10. ASSUME CreateUser(v) \/ Locate(v) PROVE FALSE
    <2>1. ASSUME NEW pc \in {"setpass", "locate"}, NEW i,
                 worker' = [worker EXCEPT ![v].pc = pc, ![v].id = i]
          PROVE  FALSE
      <3>1. worker'[v].pc = pc
        BY <1>3, <2>1 DEF IType, RequestSet
      <3>2. QED
        BY <3>1
    <2>2. CASE Reply(v, "502")
      <3>1. worker'[v].pc = "502"
        BY <2>2, Replied
      <3>2. QED
        BY <3>1
    <2>3. QED
      BY <1>10, <2>1, <2>2 DEF CreateUser, Locate
  <1>11. ASSUME NEW w \in Workers, w # v, Requests(w) \/ Serve(w) PROVE worker'[v] = worker[v]
    <2>1. ASSUME NEW r, worker' = [worker EXCEPT ![w] = r] PROVE worker'[v] = worker[v]
      BY <1>11, <2>1 DEF IType
    <2>2. CASE Requests(w) \/ Done(w)
      BY <1>11, <2>2 DEF Requests, PostUsers, PatchUser, PatchPassword, DeleteUser, Done, IType
    <2>3. CASE CheckName(w) \/ FindName(w) \/ ReadBack(w) \/ Lookup(w) \/ LookupAgain(w)
      BY <1>11, <2>3 DEF CheckName, FindName, ReadBack, Lookup, NotFound, LookupAgain, Goto, Reply, IType
    <2>4. CASE CreateUser(w) \/ Locate(w) \/ SetPassword(w) \/ PutUser(w) \/ RemoveUser(w)
      BY <1>11, <2>4 DEF CreateUser, Locate, SetPassword, PutUser, RemoveUser, Goto, Reply, IType
    <2>5. QED
      BY <1>11, <2>2, <2>3, <2>4 DEF Serve
  <1>12. CASE ExtAuth
    BY <1>2, <1>12 DEF ExtAuth, Question, Authenticate, FindUser, ReadUser, GiveUp, NextQuestion
  <1>13. QED
    BY <1>2, <1>4, <1>5, <1>6, <1>7, <1>8, <1>9, <1>10, <1>11, <1>12 DEF Next, Serve

\* A deletion that reports success was one, whoever else deletes, unless its
\* second look-up failed (sync_user_delete_by_id).
THEOREM DeletionsTrue == Spec => []DeletedWasGone
  <1>1. Init => DeletedWasGone
    BY DEF Init, DeletedWasGone, Free
  <1>2. QED
    BY <1>1, GoneStep, TypeAlways, PTL DEF Spec

-----------------------------------------------------------------------------
(* Answers to ejabberd.  A name is one user's, and a user keeps its name,   *)
(* so what the look-up by name saw of a user was so of the name.            *)

INames ==
    /\ \A i, j \in Ids : Exists(i) /\ Exists(j) /\ users[i].name = users[j].name => i = j
    /\ \A w \in Workers : worker[w].pc = "put" /\ Exists(worker[w].id) =>
                            worker[w].read.name = users[worker[w].id].name

Open == ext.pc \in {"asked", "found"}
Yes  == Valid(users, ext.kind, ext.name, ext.pass)

IAnswer ==
    /\ AnswerWasTrue
    /\ Open => ext.name \in Names /\ IF Yes THEN held.valid ELSE held.invalid
    /\ ext.pc = "found" =>
         /\ ext.kind = "isuser" /\ ext.found \in 1..ids
         /\ IF ext.seen THEN held.valid ELSE held.invalid
         /\ Exists(ext.found) => users[ext.found].name = ext.name

\* Whoever is a user after a step was one of that name before, or is created by
\* it with a name that was free.
LEMMA NamesKept ==
  ASSUME IType, INames, [Next]_vars, NEW i \in Ids, users'[i] # NoUser
  PROVE  \/ Exists(i) /\ users'[i].name = users[i].name
         \/ /\ i = ids + 1
            /\ Named(users'[i].name) = {}
            /\ \A j \in Ids : j # i => users'[j] = users[j]
  <1>1. CASE UNCHANGED users
    BY <1>1 DEF Exists
  <1>2. ASSUME NEW w \in Workers, SetPassword(w), ~ UNCHANGED users
        PROVE  Exists(i) /\ users'[i].name = users[i].name
    <2>1. /\ Exists(worker[w].id)
          /\ users' = [users EXCEPT ![worker[w].id].pass = worker[w].pass]
      BY <1>2 DEF SetPassword, Target
    <2>2. users[i] \in UserSet
      BY DEF IType, TypeOK
    <2>3. QED
      BY <2>1, <2>2 DEF Exists, UserSet, IType, TypeOK
  <1>3. ASSUME NEW w \in Workers, PutUser(w), ~ UNCHANGED users
        PROVE  Exists(i) /\ users'[i].name = users[i].name
    <2>1. /\ worker[w].pc = "put" /\ Exists(worker[w].id)
          /\ users' = [users EXCEPT ![worker[w].id] =
                          [Merged(worker[w]) EXCEPT !.pass = users[worker[w].id].pass]]
      BY <1>3 DEF PutUser, At
    <2>2. worker[w] \in RequestSet /\ users \in [Ids -> UserSet]
      BY DEF IType, TypeOK
    <2>3. Merged(worker[w]) \in UserSet /\ Merged(worker[w]).name = users[worker[w].id].name
      BY <2>1, <2>2, MergedType DEF INames
    <2>4. [Merged(worker[w]) EXCEPT !.pass = users[worker[w].id].pass].name = users[worker[w].id].name
      BY <2>3 DEF UserSet
    <2>5. QED
      BY <2>1, <2>2, <2>4 DEF Exists
  <1>4. ASSUME NEW w \in Workers, RemoveUser(w), ~ UNCHANGED users
        PROVE  Exists(i) /\ users'[i].name = users[i].name
    <2>1. users' = [users EXCEPT ![worker[w].id] = NoUser]
      BY <1>4 DEF RemoveUser
    <2>2. QED
      BY <2>1 DEF Exists, IType, TypeOK
  <1>5. ASSUME NEW w \in Workers, CreateUser(w), ~ UNCHANGED users
        PROVE  \/ Exists(i) /\ users'[i].name = users[i].name
               \/ /\ i = ids + 1
                  /\ Named(users'[i].name) = {}
                  /\ \A j \in Ids : j # i => users'[j] = users[j]
    <2>1. /\ Named(worker[w].name) = {}
          /\ users' = [users EXCEPT ![ids + 1] =
                         [name |-> worker[w].name, enabled |-> TRUE, pass |-> None]]
      BY <1>5 DEF CreateUser, Keycloak
    <2>2. CASE i = ids + 1
      <3>1. users'[i].name = worker[w].name
        BY <2>1, <2>2 DEF IType, TypeOK
      <3>2. QED
        BY <2>1, <2>2, <3>1 DEF IType, TypeOK
    <2>3. CASE i # ids + 1
      BY <2>1, <2>3 DEF IType, TypeOK, Exists
    <2>4. QED
      BY <2>2, <2>3
  <1>6. ASSUME NEW w \in Workers,
               \/ Requests(w) \/ Locate(w)
               \/ CheckName(w) \/ FindName(w) \/ ReadBack(w) \/ Lookup(w) \/ LookupAgain(w) \/ Done(w)
        PROVE  UNCHANGED users
    BY <1>6 DEF Requests, PostUsers, PatchUser, PatchPassword, DeleteUser, CheckName, FindName,
                ReadBack, Lookup, NotFound, LookupAgain, Locate, Done, Keycloak
  <1>7. CASE ExtAuth \/ UNCHANGED vars
    BY <1>1, <1>7 DEF ExtAuth, Question, Authenticate, FindUser, ReadUser, GiveUp, NextQuestion, Keycloak, vars
  <1>8. QED
    BY <1>1, <1>2, <1>3, <1>4, <1>5, <1>6, <1>7 DEF Next, Serve

\* An id that was given is not given again.
LEMMA OldIds ==
  ASSUME IType, INames, [Next]_vars, NEW i \in 1..ids, users'[i] # NoUser
  PROVE  i \in Ids /\ Exists(i) /\ users'[i].name = users[i].name
  <1>1. ids \in 0..MaxId
    BY DEF IType, TypeOK
  <1>2. i \in Ids /\ i # ids + 1
    BY <1>1 DEF Ids
  <1>3. QED
    BY <1>2, NamesKept

LEMMA NamesStep == IType /\ INames /\ [Next]_vars => INames'
  <1> SUFFICES ASSUME IType, INames, [Next]_vars PROVE INames'
    OBVIOUS
  <1>1. ASSUME NEW i \in Ids, NEW j \in Ids, users'[i] # NoUser, users'[j] # NoUser, users'[i].name = users'[j].name
        PROVE  i = j
    <2>1. CASE Exists(i) /\ users'[i].name = users[i].name /\ Exists(j) /\ users'[j].name = users[j].name
      BY <1>1, <2>1 DEF INames
    <2>2. ASSUME NEW a \in Ids, NEW b \in Ids, users'[b] # NoUser, users'[a].name = users'[b].name, a = ids + 1, a # b,
                 Named(users'[a].name) = {}, \A c \in Ids : c # a => users'[c] = users[c]
          PROVE  FALSE
      <3>1. b \in Named(users'[a].name)
        BY <2>2 DEF Named, Exists
      <3>2. QED
        BY <2>2, <3>1
    <2>3. QED
      BY <1>1, <2>1, <2>2, NamesKept
  <1>2. ASSUME NEW w \in Workers, worker'[w].pc = "put", users'[worker'[w].id] # NoUser
        PROVE  worker'[w].read.name = users'[worker'[w].id].name
    <2>1. worker[w] \in RequestSet /\ InOrder(worker[w], ids) /\ users \in [Ids -> UserSet]
      BY DEF IType, TypeOK
    <2>2. CASE worker'[w] = worker[w]
      <3>1. worker[w].id \in 1..ids
        BY <1>2, <2>1, <2>2 DEF InOrder, Changing
      <3>2. Exists(worker[w].id) /\ users'[worker[w].id].name = users[worker[w].id].name
        BY <1>2, <2>2, <3>1, OldIds
      <3>3. QED
        BY <1>2, <2>2, <3>2 DEF INames
    <2>3. CASE LookupAgain(w)
      <3>1. UNCHANGED users /\ worker[w].op \in {"update", "password", "delete"}
        BY <2>1, <2>3 DEF LookupAgain, Keycloak, At, InOrder
      <3>2. Unfound(w) # "put"
        BY DEF Unfound
      <3>3. worker' = [worker EXCEPT
                         ![w].read = IF worker[w].op = "update" THEN users[worker[w].id] ELSE @,
                         ![w].pc = CASE worker[w].op = "update" -> "put"
                                     [] worker[w].op = "password" -> "setpass"
                                     [] worker[w].op = "delete" -> "remove"]
        <4>1. CASE Reply(w, Unfound(w))
          BY <1>2, <3>2, <4>1 DEF Reply, Free, IType
        <4>2. CASE worker' = [worker EXCEPT ![w] = [Free EXCEPT !.pc = Unfound(w), !.op = worker[w].op,
                                                                !.blind = TRUE]]
          BY <1>2, <3>2, <4>2 DEF Free, IType
        <4>3. QED
          BY <2>3, <4>1, <4>2 DEF LookupAgain
      <3>4. worker[w].op = "update"
        <4>1. worker'[w].pc = CASE worker[w].op = "update" -> "put"
                                [] worker[w].op = "password" -> "setpass"
                                [] worker[w].op = "delete" -> "remove"
          BY <2>1, <3>3 DEF IType, RequestSet
        <4>2. QED
          BY <1>2, <3>1, <4>1
      <3>5. worker'[w].read = users[worker[w].id] /\ worker'[w].id = worker[w].id
        BY <2>1, <3>3, <3>4 DEF IType, RequestSet
      <3>6. QED
        BY <3>1, <3>5
    <2>4. ASSUME NEW v \in Workers, v # w, Requests(v) \/ Serve(v) PROVE worker'[w] = worker[w]
      <3>1. CASE Requests(v) \/ Done(v)
        BY <2>4, <3>1 DEF Requests, PostUsers, PatchUser, PatchPassword, DeleteUser, Done, IType
      <3>2. CASE CheckName(v) \/ FindName(v) \/ ReadBack(v) \/ Lookup(v) \/ LookupAgain(v)
        BY <2>4, <3>2 DEF CheckName, FindName, ReadBack, Lookup, NotFound, LookupAgain, Goto, Reply, IType
      <3>3. CASE CreateUser(v) \/ Locate(v) \/ SetPassword(v) \/ PutUser(v) \/ RemoveUser(v)
        BY <2>4, <3>3 DEF CreateUser, Locate, SetPassword, PutUser, RemoveUser, Goto, Reply, IType
      <3>4. QED
        BY <2>4, <3>1, <3>2, <3>3 DEF Serve
    <2>5. ASSUME Requests(w) \/ Done(w) PROVE FALSE
      <3>1. ASSUME NEW n, NEW p, PostUsers(w, n, p) PROVE FALSE
        BY <1>2, <3>1 DEF PostUsers, Free, IType
      <3>2. ASSUME NEW i, NEW t, PatchUser(w, i, t) PROVE FALSE
        BY <1>2, <3>2 DEF PatchUser, Free, IType
      <3>3. ASSUME NEW i, NEW p, PatchPassword(w, i, p) PROVE FALSE
        BY <1>2, <3>3 DEF PatchPassword, Free, IType
      <3>4. ASSUME NEW i, DeleteUser(w, i) PROVE FALSE
        BY <1>2, <3>4 DEF DeleteUser, Free, IType
      <3>5. CASE Done(w)
        BY <1>2, <3>5 DEF Done, Free, IType
      <3>6. QED
        BY <2>5, <3>1, <3>2, <3>3, <3>4, <3>5 DEF Requests
    <2>6. ASSUME NEW pc, pc # "put", Goto(w, pc) PROVE FALSE
      BY <1>2, <2>1, <2>6 DEF Goto, IType, RequestSet
    <2>7. ASSUME NEW code, code # "put", Reply(w, code) PROVE FALSE
      BY <1>2, <2>7 DEF Reply, Free, IType
    <2>8. ASSUME CheckName(w) \/ FindName(w) \/ ReadBack(w) \/ Lookup(w) PROVE FALSE
      BY <2>6, <2>7, <2>8 DEF CheckName, FindName, ReadBack, Lookup, NotFound
    <2>9. ASSUME SetPassword(w) \/ PutUser(w) \/ RemoveUser(w) PROVE FALSE
      <3>1. CASE SetPassword(w)
        <4> DEFINE done == IF worker[w].op = "create" THEN "readback" ELSE "200"
        <4>1. done # "put"
          OBVIOUS
        <4>2. Goto(w, done) \/ Reply(w, "502")
          BY <3>1 DEF SetPassword
        <4> HIDE DEF done
        <4>3. QED
          BY <2>6, <2>7, <4>1, <4>2
      <3>2. CASE PutUser(w) \/ RemoveUser(w)
        BY <2>7, <3>2 DEF PutUser, RemoveUser
      <3>3. QED
        BY <2>9, <3>1, <3>2
    <2>10. ASSUME CreateUser(w) \/ Locate(w) PROVE FALSE
      <3>1. ASSUME NEW pc \in {"setpass", "locate"}, NEW i,
                   worker' = [worker EXCEPT ![w].pc = pc, ![w].id = i]
            PROVE  FALSE
        <4>1. worker'[w].pc = pc
          BY <2>1, <3>1 DEF IType, RequestSet
        <4>2. QED
          BY <1>2, <4>1
      <3>2. QED
        BY <2>7, <2>10, <3>1 DEF CreateUser, Locate
    <2>11. CASE ExtAuth \/ UNCHANGED vars
      BY <2>2, <2>11 DEF ExtAuth, Question, Authenticate, FindUser, ReadUser, GiveUp, NextQuestion, vars
    <2>12. QED
      BY <2>2, <2>3, <2>4, <2>5, <2>8, <2>9, <2>10, <2>11 DEF Next, Serve
  <1>3. QED
    BY <1>1, <1>2 DEF INames, Exists

\* Who has a name that is looked up, tells whether the name is valid.
LEMMA OneIsAll ==
  ASSUME IType, INames, NEW i \in Ids, Exists(i), NEW p
  PROVE  Valid(users, "isuser", users[i].name, p) <=> users[i].enabled
  <1>1. ASSUME NEW j \in Ids, users[j].name = users[i].name PROVE j = i
    <2>1. users[i].name \in Names
      BY DEF IType, TypeOK
    <2>2. Exists(j)
      BY <1>1, <2>1 DEF Exists, NoUser
    <2>3. QED
      BY <1>1, <2>2 DEF INames
  <1>2. users[i].enabled \in BOOLEAN
    BY DEF IType, TypeOK, UserSet
  <1>3. QED
    BY <1>1, <1>2 DEF Valid

\* What the history keeps of a question that goes on, and of its answer.
LEMMA Watched ==
  ASSUME IType, Next, ext'.pc # "none"
  PROVE  /\ held.valid => held'.valid
         /\ held.invalid => held'.invalid
         /\ Open' => IF Yes' THEN held'.valid ELSE held'.invalid
  <1> DEFINE now == Valid(users', ext'.kind, ext'.name, ext'.pass)
  <1>1. /\ held'.valid = (ext'.pc # "none" /\ (held.valid \/ (ext'.pc \in {"asked", "found"} /\ now)))
        /\ held'.invalid = (ext'.pc # "none" /\ (held.invalid \/ (ext'.pc \in {"asked", "found"} /\ ~now)))
    BY DEF Next, Watch
  <1>2. Yes' <=> now
    BY DEF Yes, Valid
  <1> HIDE DEF now
  <1>3. QED
    BY <1>1, <1>2 DEF Open

\* An answer is told, and is what was so if it was so before.
LEMMA Told ==
  ASSUME IType, Next, NEW yes \in BOOLEAN, Tell(yes), IF yes THEN held.valid ELSE held.invalid
  PROVE  IAnswer'
  <1>1. ext'.pc = IF yes THEN "accepted" ELSE "refused"
    BY DEF Tell, NoQuestion
  <1>2. QED
    BY <1>1, Watched DEF IAnswer, AnswerWasTrue, Open

LEMMA AnswerStep == IType /\ INames /\ IAnswer /\ [Next]_vars => IAnswer'
  <1> SUFFICES ASSUME IType, INames, IAnswer, Next PROVE IAnswer'
    BY DEF vars, IAnswer, AnswerWasTrue, Exists, Open, Yes, Valid
  <1> USE DEF IAnswer, AnswerWasTrue
  <1>1. ext \in QuestionSet /\ ids' \in Nat /\ ids \in Nat
    BY TypeStep DEF IType, TypeOK
  <1>2. ids <= ids'
    <2>1. ASSUME NEW w \in Workers, CreateUser(w) PROVE ids <= ids'
      BY <1>1, <2>1 DEF CreateUser, Keycloak
    <2>2. ASSUME NEW w \in Workers, Serve(w), ~CreateUser(w) PROVE ids' = ids
      BY <2>2 DEF Serve, CheckName, FindName, ReadBack, Lookup, NotFound, LookupAgain, Done, Locate,
                  SetPassword, PutUser, RemoveUser, Keycloak
    <2>3. ASSUME NEW w \in Workers, Requests(w) PROVE ids' = ids
      BY <2>3 DEF Requests, PostUsers, PatchUser, PatchPassword, DeleteUser, Keycloak
    <2>4. CASE ExtAuth
      <3>1. UNCHANGED Keycloak
        BY <2>4 DEF ExtAuth, Question, Authenticate, FindUser, ReadUser, GiveUp, NextQuestion
      <3>2. QED
        BY <1>1, <3>1 DEF Keycloak
    <2>5. QED
      BY <1>1, <2>1, <2>2, <2>3, <2>4 DEF Next
  <1>same. CASE UNCHANGED ext
    <2>1. ASSUME ext.pc = "found", users'[ext.found] # NoUser PROVE users'[ext.found].name = ext.name
      BY <2>1, OldIds
    <2>2. ext.pc = "found" => ext.found \in 1..ids'
      BY <1>1, <1>2
    <2>3. QED
      BY <1>same, <2>1, <2>2, Watched DEF Exists, Open
  <1>3. ASSUME NEW kind, NEW n \in Names, NEW p, Question(kind, n, p) PROVE IAnswer'
    <2>1. ext'.pc = "asked" /\ ext'.name = n
      BY <1>3 DEF Question, NoQuestion
    <2>2. QED
      BY <2>1, Watched DEF Open
  <1>4. CASE Authenticate
    <2>1. ext.kind = "auth" /\ Open /\ (Yes <=> Valid(users, "auth", ext.name, ext.pass))
      BY <1>4 DEF Authenticate, Open, Yes
    <2>2. Valid(users, "auth", ext.name, ext.pass) \in BOOLEAN
      BY DEF Valid
    <2>3. QED
      BY <1>4, <2>1, <2>2, Told DEF Authenticate
  <1>5. CASE FindUser
    <2>1. ext.kind = "isuser" /\ Open /\ ext.name \in Names /\ users' = users /\ ids' = ids
      BY <1>5 DEF FindUser, Keycloak, Open
    <2>2. CASE Fail
      BY <2>2 DEF Fail, NoQuestion, Open
    <2>3. CASE Named(ext.name) = {} /\ Tell(FALSE)
      <3>1. ~Yes
        BY <2>1, <2>3 DEF Yes, Valid, Named, Exists, NoUser
      <3>2. QED
        BY <2>1, <2>3, <3>1, Told
    <2>4. ASSUME NEW i \in Named(ext.name),
                 ext' = [ext EXCEPT !.pc = "found", !.found = i, !.seen = users[i].enabled]
          PROVE  IAnswer'
      <3>1. i \in Ids /\ Exists(i) /\ users[i].name = ext.name /\ i \in 1..ids
        BY <1>1 DEF Named, IType, TypeOK, Ids
      <3>2. /\ ext'.pc = "found" /\ ext'.kind = "isuser" /\ ext'.found = i
            /\ ext'.seen = users[i].enabled /\ ext'.name = ext.name
        BY <1>1, <2>1, <2>4 DEF QuestionSet
      <3>3. Yes' <=> users[i].enabled
        BY <2>1, <3>1, <3>2, OneIsAll DEF Yes
      <3>4. Open' /\ IF Yes' THEN held'.valid ELSE held'.invalid
        BY <3>2, Watched DEF Open
      <3>5. QED
        BY <2>1, <3>1, <3>2, <3>3, <3>4 DEF Exists
    <2>5. QED
      BY <1>5, <2>2, <2>3, <2>4 DEF FindUser
  <1>6. CASE ReadUser
    <2>1. ext.pc = "found" /\ Open /\ ext.kind = "isuser" /\ ext.seen \in BOOLEAN
      BY <1>1, <1>6 DEF ReadUser, QuestionSet, Open
    <2>2. CASE Exists(ext.found) /\ Tell(users[ext.found].enabled)
      <3>1. ext.found \in Ids /\ users[ext.found].enabled \in BOOLEAN
        BY <2>1 DEF IType, TypeOK, Ids, UserSet
      <3>2. Yes <=> users[ext.found].enabled
        BY <2>1, <2>2, <3>1, OneIsAll DEF Yes
      <3>3. QED
        BY <2>1, <2>2, <3>1, <3>2, Told
    <2>3. CASE Tell(Summary)
      BY <2>1, <2>3, Told DEF Summary
    <2>4. QED
      BY <1>6, <2>2, <2>3 DEF ReadUser
  <1>7. CASE GiveUp
    BY <1>7 DEF GiveUp, Fail, NoQuestion, Open
  <1>8. CASE NextQuestion
    BY <1>8 DEF NextQuestion, NoQuestion, Open
  <1>9. ASSUME NEW w \in Workers, Requests(w) \/ Serve(w) PROVE UNCHANGED ext
    BY <1>9 DEF Requests, PostUsers, PatchUser, PatchPassword, DeleteUser, Serve, CheckName, FindName,
                ReadBack, Lookup, NotFound, LookupAgain, Done, CreateUser, Locate, SetPassword, PutUser, RemoveUser
  <1>10. QED
    BY <1>same, <1>3, <1>4, <1>5, <1>6, <1>7, <1>8, <1>9 DEF Next, ExtAuth

\* Whatever administrators do between its look-ups and however late Keycloak
\* answers, ejabberd is told what was so at some moment since it asked, or no
\* (handle_command, check_user_exists, get_user).
THEOREM AnswersTrue == Spec => []AnswerWasTrue
  <1>1. Init => INames /\ IAnswer
    BY DEF Init, NoQuestion, INames, IAnswer, AnswerWasTrue, Exists, Free, Open
  <1>2. IAnswer => AnswerWasTrue
    BY DEF IAnswer
  <1>3. QED
    BY <1>1, <1>2, NamesStep, AnswerStep, TypeAlways, PTL DEF Spec
=============================================================================
