-------------------------- MODULE KeycloakAccounts --------------------------
(***************************************************************************)
(* auth_service/app/keycloak.py and user_service.py: the accounts that     *)
(* administrators create, change and delete in Keycloak, several requests  *)
(* at once, each a sequence of calls of Keycloak's admin API that may fail *)
(* before or after they take effect; and ejabberd/extauth.py with /auth    *)
(* and /users/{username} of main.py, by which ejabberd asks whether a      *)
(* login, or an account, is right.                                         *)
(*                                                                         *)
(* Abstracted: of the fields of a user only `enabled` is kept; an update   *)
(* that gives no status changes another one.  Names are well formed;       *)
(* synchronisation is enabled.                                             *)
(***************************************************************************)
EXTENDS Naturals

CONSTANTS
    Names,      \* Keycloak user names
    Passwords,
    Workers,    \* requests that auth_service serves at once
    MaxId,      \* bound: users Keycloak creates
    Faults,     \* what fails: subset of FaultKinds
    None

\* A look-up, a change before it takes effect, or its answer; a creation's
\* answer without Location; Keycloak takes longer than extauth waits.
FaultKinds == {"get", "write", "answer", "location", "slow"}

ASSUME AccountsAssumption ==
    /\ MaxId \in Nat
    /\ Faults \subseteq FaultKinds
    /\ None \notin Passwords \cup Names

VARIABLES
    users,   \* Keycloak: user id -> the user, NoUser if there is none
    ids,     \* user ids given so far
    worker,  \* Workers -> the request served
    ext,     \* the question extauth is busy with
    wanted,  \* user id -> what was asked for last (history)
    stale,   \* user ids written with what had been read before a change (history)
    mistaken, \* user ids that another creation took for its own (history)
    held     \* what was asked for was true at some moment since (history)

vars == <<users, ids, worker, ext, wanted, stale, mistaken, held>>

Ids      == 1..MaxId
NoUser   == [name |-> None, enabled |-> FALSE, pass |-> None]
UserSet  == [name : Names \cup {None}, enabled : BOOLEAN, pass : Passwords \cup {None}]
Statuses == {"ACTIVE", "INACTIVE", None}    \* UserUpdate.status
Ops      == {"create", "update", "password", "delete"}

Free == [pc |-> "free", op |-> None, name |-> None, id |-> 0, pass |-> None,
         status |-> None, read |-> NoUser, blind |-> FALSE]

\* found, seen: the user that /users looked up by name, and its status then;
\* failed: Keycloak did not answer (history).
NoQuestion == [pc |-> "none", kind |-> None, name |-> None, pass |-> None,
               found |-> 0, seen |-> FALSE, failed |-> FALSE]

NoWish == [enabled |-> FALSE, by |-> {}]

Exists(i)  == users[i] # NoUser
Named(n)   == {i \in Ids : users[i].name = n /\ Exists(i)}
At(w, pc)  == worker[w].pc = pc
Goto(w, pc) == worker' = [worker EXCEPT ![w].pc = pc]

Reply(w, code) ==
    worker' = [worker EXCEPT ![w] = [Free EXCEPT !.pc = code, !.op = worker[w].op]]

Keycloak == <<users, ids, wanted, stale, mistaken>>

-----------------------------------------------------------------------------
(* Requests of administrators.                                             *)

PostUsers(w, n, p) ==
    /\ At(w, "free")
    /\ worker' = [worker EXCEPT ![w] = [Free EXCEPT !.pc = "exists", !.op = "create",
                                                    !.name = n, !.pass = p]]
    /\ UNCHANGED <<Keycloak, ext>>

PatchUser(w, i, status) ==
    /\ At(w, "free")
    /\ worker' = [worker EXCEPT ![w] = [Free EXCEPT !.pc = "get", !.op = "update",
                                          !.id = i, !.status = status]]
    /\ UNCHANGED <<Keycloak, ext>>

PatchPassword(w, i, p) ==
    /\ At(w, "free")
    /\ worker' = [worker EXCEPT ![w] = [Free EXCEPT !.pc = "get", !.op = "password",
                                                    !.id = i, !.pass = p]]
    /\ UNCHANGED <<Keycloak, ext>>

DeleteUser(w, i) ==
    /\ At(w, "free")
    /\ worker' = [worker EXCEPT ![w] = [Free EXCEPT !.pc = "get", !.op = "delete", !.id = i]]
    /\ UNCHANGED <<Keycloak, ext>>

-----------------------------------------------------------------------------
(* The calls of Keycloak.  A lookup that fails finds nothing.              *)

\* create_user_in_keycloak: sync_user_exists, a failure of which reads as FALSE
CheckName(w) ==
    /\ At(w, "exists")
    /\ \/ Named(worker[w].name) = {} /\ Goto(w, "find")
       \/ Named(worker[w].name) # {} /\ Reply(w, "400")
       \/ "get" \in Faults /\ Goto(w, "find")
    /\ UNCHANGED <<Keycloak, ext>>

\* sync_user_created: the name is looked up again, here a failure is one.
FindName(w) ==
    /\ At(w, "find")
    /\ \/ Named(worker[w].name) = {} /\ Goto(w, "post")
       \/ (Named(worker[w].name) # {} \/ "get" \in Faults) /\ Reply(w, "502")
    /\ UNCHANGED <<Keycloak, ext>>

\* The user is enabled and has no password; Keycloak refuses a name in use.  The
\* request that is to look its user up by name does not know the id it keeps.
CreateUser(w) ==
    /\ At(w, "post")
    /\ \/ /\ Named(worker[w].name) = {} /\ ids < MaxId
          /\ ids' = ids + 1
          /\ users' = [users EXCEPT ![ids + 1] =
                         [name |-> worker[w].name, enabled |-> TRUE, pass |-> None]]
          /\ wanted' = [wanted EXCEPT ![ids + 1] = [enabled |-> TRUE, by |-> {worker[w].pass}]]
          /\ \/ worker' = [worker EXCEPT ![w].pc = "setpass", ![w].id = ids + 1]
             \/ /\ "location" \in Faults
                /\ worker' = [worker EXCEPT ![w].pc = "locate", ![w].id = ids + 1]
             \/ "answer" \in Faults /\ Reply(w, "502")
          /\ UNCHANGED <<stale, mistaken>>
       \/ /\ Named(worker[w].name) # {} \/ "write" \in Faults
          /\ Reply(w, "502")
          /\ UNCHANGED Keycloak
    /\ UNCHANGED ext

\* Without a Location, the user is whoever has that name by now.
Locate(w) ==
    /\ At(w, "locate")
    /\ \/ \E i \in Named(worker[w].name) :
            /\ worker' = [worker EXCEPT ![w].pc = "setpass", ![w].id = i]
            /\ mistaken' = IF i = worker[w].id THEN mistaken ELSE mistaken \cup {i}
       \/ /\ Named(worker[w].name) = {} \/ "get" \in Faults
          /\ Reply(w, "502")
          /\ UNCHANGED mistaken
    /\ UNCHANGED <<users, ids, wanted, stale, ext>>

\* Mutant: the id is looked up by name, whoever has that name now.
TargetByName(w) ==
    IF Named(worker[w].name) = {} THEN worker[w].id ELSE CHOOSE i \in Named(worker[w].name) : TRUE

\* The id of the Location header, of Locate, or of the route.
Target(w) == worker[w].id

\* PUT reset-password, the last step of creating a user and of PATCH password
SetPassword(w) ==
    /\ At(w, "setpass")
    /\ LET i == Target(w)
           done == IF worker[w].op = "create" THEN "readback" ELSE "200"
       IN  \/ /\ Exists(i)
              /\ users' = [users EXCEPT ![i].pass = worker[w].pass]
              /\ wanted' = [wanted EXCEPT ![i].by =
                              IF worker[w].op = "password" THEN @ \cup {worker[w].pass} ELSE @]
              /\ Goto(w, done) \/ ("answer" \in Faults /\ Reply(w, "502"))
           \/ /\ ~Exists(i) \/ "write" \in Faults
              /\ Reply(w, "502")
              /\ UNCHANGED <<users, wanted>>
    /\ UNCHANGED <<ids, stale, mistaken, ext>>

\* get_user, after the creation
ReadBack(w) ==
    /\ At(w, "readback")
    /\ \/ Named(worker[w].name) # {} /\ Reply(w, "201")
       \/ (Named(worker[w].name) = {} \/ "get" \in Faults) /\ Reply(w, "502")
    /\ UNCHANGED <<Keycloak, ext>>

\* Mutant: a deletion whose user is not found, or not looked up, counts as done.
NotFoundGone(w) == IF worker[w].op = "delete" THEN "200" ELSE "404"

NotFound(w) == "404"

\* user_service looks the id up before it changes or deletes anything.
Lookup(w) ==
    /\ At(w, "get")
    /\ \/ Exists(worker[w].id) /\ Goto(w, "get again")
       \/ (~Exists(worker[w].id) \/ "get" \in Faults) /\ Reply(w, NotFound(w))
    /\ UNCHANGED <<Keycloak, ext>>

Unfound(w) == IF worker[w].op = "delete" THEN "200" ELSE "502"

\* sync_user_*_by_id look it up again: for update the record to merge with; a
\* user that delete does not find, or cannot look up, counts as deleted.
LookupAgain(w) ==
    /\ At(w, "get again")
    /\ \/ /\ Exists(worker[w].id)
          /\ worker' = [worker EXCEPT ![w].read = IF worker[w].op = "update" THEN users[worker[w].id] ELSE @,
                                      ![w].pc = CASE worker[w].op = "update" -> "put"
                                                  [] worker[w].op = "password" -> "setpass"
                                                  [] worker[w].op = "delete" -> "remove"]
       \/ ~Exists(worker[w].id) /\ Reply(w, Unfound(w))
       \/ /\ Exists(worker[w].id) /\ "get" \in Faults
          /\ worker' = [worker EXCEPT ![w] = [Free EXCEPT !.pc = Unfound(w), !.op = worker[w].op,
                                                          !.blind = TRUE]]
    /\ UNCHANGED <<Keycloak, ext>>

\* Mutant: the payload has only the field that changes.
MergedBare(r) == [NoUser EXCEPT !.enabled = r.status = "ACTIVE"]

\* Mutant: a status that is not given is taken for active.
MergedActive(r) == [r.read EXCEPT !.enabled = r.status # "INACTIVE"]

\* The payload: what the request gives, else what was read.
Merged(r) == [r.read EXCEPT !.enabled = IF r.status = None THEN @ ELSE r.status = "ACTIVE"]

\* PUT users/{id} writes the whole payload; credentials stay.
PutUser(w) ==
    /\ At(w, "put")
    /\ LET r == worker[w]  i == worker[w].id
       IN  \/ /\ Exists(i)
              /\ users' = [users EXCEPT ![i] = [Merged(r) EXCEPT !.pass = users[i].pass]]
              /\ wanted' = [wanted EXCEPT
                    ![i].enabled = IF r.status = None THEN @ ELSE r.status = "ACTIVE"]
              /\ stale' = IF [r.read EXCEPT !.pass = users[i].pass] # users[i]
                          THEN stale \cup {i} ELSE stale
              /\ Reply(w, "200") \/ ("answer" \in Faults /\ Reply(w, "502"))
           \/ /\ ~Exists(i) \/ "write" \in Faults
              /\ Reply(w, "502")
              /\ UNCHANGED <<users, wanted, stale>>
    /\ UNCHANGED <<ids, mistaken, ext>>

RemoveUser(w) ==
    /\ At(w, "remove")
    /\ LET i == worker[w].id
       IN  \/ /\ Exists(i)
              /\ users' = [users EXCEPT ![i] = NoUser]
              /\ wanted' = [wanted EXCEPT ![i] = NoWish]
              /\ stale' = stale \ {i}
              /\ Reply(w, "200") \/ ("answer" \in Faults /\ Reply(w, "502"))
           \/ /\ ~Exists(i) \/ "write" \in Faults
              /\ Reply(w, "502")
              /\ UNCHANGED <<users, wanted, stale>>
    /\ UNCHANGED <<ids, mistaken, ext>>

Codes == {"200", "201", "400", "404", "502"}

\* The administrator has the answer; a delete leaves no trace.
Done(w) ==
    /\ worker[w].pc \in Codes
    /\ worker' = [worker EXCEPT ![w] = Free]
    /\ UNCHANGED <<Keycloak, ext>>

-----------------------------------------------------------------------------
(* extauth.py: one question at a time, to which auth_service finds the      *)
(* answer.                                                                 *)

Valid(u, kind, n, p) ==
    \E i \in Ids : u[i].name = n /\ u[i].enabled /\ (kind = "auth" => u[i].pass = p)

Question(kind, n, p) ==
    /\ ext.pc = "none"
    /\ ext' = [NoQuestion EXCEPT !.pc = "asked", !.kind = kind, !.name = n, !.pass = p]
    /\ UNCHANGED <<Keycloak, worker>>

Tell(yes) == ext' = [NoQuestion EXCEPT !.pc = IF yes THEN "accepted" ELSE "refused"]

Fail == ext' = [NoQuestion EXCEPT !.pc = "refused", !.failed = TRUE]

\* /auth: Keycloak's password grant
Authenticate ==
    /\ ext.pc = "asked" /\ ext.kind = "auth"
    /\ Tell(Valid(users, "auth", ext.name, ext.pass))
    /\ UNCHANGED <<Keycloak, worker>>

\* /users looks the user up by name, ...
FindUser ==
    /\ ext.pc = "asked" /\ ext.kind = "isuser"
    /\ \/ Named(ext.name) = {} /\ Tell(FALSE)
       \/ \E i \in Named(ext.name) :
            ext' = [ext EXCEPT !.pc = "found", !.found = i, !.seen = users[i].enabled]
       \/ "get" \in Faults /\ Fail
    /\ UNCHANGED <<Keycloak, worker>>

\* Mutant: a user that cannot be read again is taken for enabled.
SummaryFound == TRUE

\* The status in the list that the name was found in
Summary == ext.seen

\* ... then by its id; if that finds nothing, what the first look-up saw, counts.
ReadUser ==
    /\ ext.pc = "found"
    /\ \/ Exists(ext.found) /\ Tell(users[ext.found].enabled)
       \/ (~Exists(ext.found) \/ "get" \in Faults) /\ Tell(Summary)
    /\ UNCHANGED <<Keycloak, worker>>

\* No answer within extauth's 5 seconds: no.  What auth_service finds out later
\* is an answer on a connection that extauth has closed.
GiveUp ==
    /\ ext.pc \in {"asked", "found"} /\ "slow" \in Faults
    /\ Fail
    /\ UNCHANGED <<Keycloak, worker>>

NextQuestion ==
    /\ ext.pc \in {"accepted", "refused"}
    /\ ext' = NoQuestion
    /\ UNCHANGED <<Keycloak, worker>>

-----------------------------------------------------------------------------
Init ==
    /\ users = [i \in Ids |-> NoUser] /\ ids = 0
    /\ worker = [w \in Workers |-> Free]
    /\ ext = NoQuestion
    /\ wanted = [i \in Ids |-> NoWish]
    /\ stale = {} /\ mistaken = {}
    /\ held = [valid |-> FALSE, invalid |-> FALSE, gone |-> [w \in Workers |-> FALSE]]

\* The history of what was so from a question to its answer, and since a request came.
Watch ==
    LET open  == ext'.pc \in {"asked", "found"}
        valid == Valid(users', ext'.kind, ext'.name, ext'.pass)
    IN
    held' = [valid   |-> ext'.pc # "none" /\ (held.valid \/ (open /\ valid)),
             invalid |-> ext'.pc # "none" /\ (held.invalid \/ (open /\ ~valid)),
             gone    |-> [w \in Workers |->
                          /\ worker'[w].op = "delete"
                          /\ \/ held.gone[w]
                             \/ \E i \in Ids \cap {worker[w].id, worker'[w].id} : users'[i] = NoUser]]

Requests(w) ==
    \/ \E n \in Names, p \in Passwords : PostUsers(w, n, p)
    \/ \E i \in 1..ids :
        \/ \E status \in Statuses : PatchUser(w, i, status)
        \/ \E p \in Passwords : PatchPassword(w, i, p)
        \/ DeleteUser(w, i)

Serve(w) ==
    \/ CheckName(w) \/ FindName(w) \/ CreateUser(w) \/ Locate(w) \/ SetPassword(w) \/ ReadBack(w)
    \/ Lookup(w) \/ LookupAgain(w) \/ PutUser(w) \/ RemoveUser(w) \/ Done(w)

ExtAuth ==
    \/ \E n \in Names : Question("isuser", n, None) \/ \E p \in Passwords : Question("auth", n, p)
    \/ Authenticate \/ FindUser \/ ReadUser \/ GiveUp \/ NextQuestion

Next == ((\E w \in Workers : Requests(w) \/ Serve(w)) \/ ExtAuth) /\ Watch

Spec == Init /\ [][Next]_vars

-----------------------------------------------------------------------------
TypeOK ==
    /\ users \in [Ids -> UserSet]
    /\ ids \in 0..MaxId
    /\ \A i \in Ids : Exists(i) => i <= ids /\ users[i].name \in Names
    /\ ext.pc \in {"none", "asked", "found", "accepted", "refused"}
    /\ stale \subseteq Ids /\ mistaken \subseteq Ids

\* A password is the one its creator gave or one that a reset gave for this user,
\* though the name may have been deleted and taken again while a creation was
\* between its POST and its reset-password (sync_user_created).  But not if that
\* creation got no Location: it sets the password of whoever has the name then.
PasswordWasGiven ==
    \A i \in Ids : users[i].pass # None /\ i \notin mistaken => users[i].pass \in wanted[i].by

\* The status is the one asked for last, in whatever order updates read
\* and write, unless one of them wrote back what it had read before another's
\* write (sync_user_update_by_id reads, merges and writes the whole record).
AsAskedLast ==
    \A i \in Ids : Exists(i) /\ i \notin stale =>
        users[i].enabled = wanted[i].enabled

\* A deletion that is answered with success was one: the user was gone at some
\* moment since it was asked for, if the second look-up did not fail
\* (sync_user_delete_by_id).
DeletedWasGone ==
    \A w \in Workers :
        worker[w].op = "delete" /\ worker[w].pc = "200" => held.gone[w] \/ worker[w].blind

\* What ejabberd is told was so at some moment while it waited, also if the user
\* is disabled, deleted or created again between the two look-ups of
\* check_user_exists, and the second fails; when Keycloak does not answer, or not
\* in time, it is told no (handle_command).
AnswerWasTrue ==
    /\ ext.pc = "accepted" => held.valid
    /\ ext.pc = "refused" => held.invalid \/ ext.failed
=============================================================================
