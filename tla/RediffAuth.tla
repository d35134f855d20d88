----------------------------- MODULE RediffAuth -----------------------------
(***************************************************************************)
(* plugins/rediff-shared/auth.js: the bearer token that the chat client's  *)
(* REST calls carry.  One browser tab; JavaScript runs one callback at a   *)
(* time, and every await is a place where another may run: a login, a     *)
(* logout, a second call, the answer of the token endpoint.               *)
(*                                                                         *)
(* Abstracted: a token is the account it was issued to; the REST service   *)
(* may refuse any token (it expires, or its verification fails).  The copy *)
(* in window.REDIFF_ACCESS_TOKEN is written and cleared with the entry in  *)
(* sessionStorage and holds the same token, so they are one.              *)
(***************************************************************************)
EXTENDS Naturals

CONSTANTS
    Accounts,   \* bare JIDs
    Calls,      \* concurrent calls of authenticatedFetch
    TokenFails, \* accounts whose right password /api/oidc/token may refuse
    None        \* undefined

ASSUME AuthAssumption ==
    /\ TokenFails \subseteq Accounts
    /\ None \notin Accounts

VARIABLES
    conn,     \* the connection's jid and pass (None: no connection object)
    online,   \* the XMPP session is established
    creds,    \* lastLoginCredentials
    stored,   \* scoped key in sessionStorage -> token
    request,  \* tokenRequest: the credentials it was made with
    call,     \* Calls -> where it stands, and the token it carries
    found     \* (history) the request under way when this login was submitted

vars == <<conn, online, creds, stored, request, call, found>>

\* "keys": restored from SCRAM keys, which are no password for Keycloak.
Passwords   == {"right", "wrong", "keys"}
Credentials == [jid : Accounts, pass : Passwords]

Resting == [pc |-> "idle", token |-> None]

At(pc) == {c \in Calls : call[c].pc = pc}

\* requestSearchToken: a request under way answers for every other.
RequestWith(r, c) == IF r # None THEN r ELSE c

\* Mutant: once a login was remembered, a later one does not replace it.
RememberFirst(c) == creds' = IF creds = None THEN c ELSE creds

\* rememberLoginCredentials
Remember(c) == creds' = c

\* getLoginCredentials: the remembered login, or else the connection's.
LoginCredentials == IF creds # None THEN creds ELSE conn

-----------------------------------------------------------------------------
(* The session.                                                            *)

\* installLoginCapture's submit listener, then the login that follows.
Submit(c) ==
    /\ conn = None
    /\ c.pass # "keys"
    /\ Remember(c)
    /\ request' = RequestWith(request, c)
    /\ conn' = c
    /\ found' = request
    /\ UNCHANGED <<online, stored, call>>

\* bootstrapStoredSearchToken, on 'connected' and on 'reconnected'
Bootstrap ==
    /\ Remember(LoginCredentials)
    /\ request' = RequestWith(request, LoginCredentials)

Connected ==
    /\ conn # None /\ conn.pass # "wrong"
    /\ online' = TRUE
    /\ Bootstrap
    /\ UNCHANGED <<conn, stored, call, found>>

\* clearSearchToken removes every account's entry.
Cleared == [a \in Accounts |-> None]

\* 'disconnected', 'logout' and 'clearSession' clear the tokens; the request
\* under way and the remembered login stay.
Disconnected ==
    /\ conn # None
    /\ conn' = None
    /\ online' = FALSE
    /\ stored' = Cleared
    /\ UNCHANGED <<creds, request, call, found>>

\* A page reload keeps sessionStorage only; SCRAM keys, or a password saved in
\* the browser, may restore the session.
Reload ==
    /\ conn' \in {None} \cup [jid : Accounts, pass : {"keys", "right"}]
    /\ online' = FALSE
    /\ creds' = None
    /\ request' = None
    /\ call' = [c \in Calls |-> Resting]
    /\ found' = None
    /\ UNCHANGED stored

-----------------------------------------------------------------------------
(* The token endpoint answers; then, in finally, the request is forgotten,  *)
(* and everybody who awaited it goes on with what it brought.               *)

\* Mutant: the answer is used without a look at it.
ResumedUnchecked(token) ==
    call' = [c \in Calls |->
        CASE call[c].pc = "waiting" -> [pc |-> "sent", token |-> token]
          [] call[c].pc = "rewaiting" -> [pc |-> "resent", token |-> token]
          [] OTHER -> call[c]]

Resumed(token) ==
    call' = [c \in Calls |->
        IF c \notin At("waiting") \cup At("rewaiting") THEN call[c]
        ELSE IF token = None THEN Resting
        ELSE [pc |-> IF c \in At("waiting") THEN "sent" ELSE "resent", token |-> token]]

TokenIssued ==
    /\ request # None /\ request.pass = "right"
    /\ stored' = [stored EXCEPT ![request.jid] = request.jid]
    /\ request' = None
    /\ Resumed(request.jid)
    /\ UNCHANGED <<conn, online, creds, found>>

TokenRefused ==
    /\ request # None
    /\ request.pass # "right" \/ request.jid \in TokenFails
    /\ request' = None
    /\ Resumed(None)
    /\ UNCHANGED <<conn, online, creds, stored, found>>

-----------------------------------------------------------------------------
(* authenticatedFetch                                                      *)

\* getSearchToken, else the request under way; else the token is missing and
\* the call returns.  The callers ask for a current JID first.
Start(c) ==
    /\ call[c].pc = "idle"
    /\ conn # None
    /\ \/ /\ stored[conn.jid] # None
          /\ call' = [call EXCEPT ![c] = [pc |-> "sent", token |-> stored[conn.jid]]]
       \/ /\ stored[conn.jid] = None /\ request # None
          /\ call' = [call EXCEPT ![c].pc = "waiting"]
    /\ UNCHANGED <<conn, online, creds, stored, request, found>>

Accepted(c) ==
    /\ call[c].pc \in {"sent", "resent"}
    /\ call' = [call EXCEPT ![c] = Resting]
    /\ UNCHANGED <<conn, online, creds, stored, request, found>>

\* Mutant: the caller is left to try again.
RefusedGivesUp(c) ==
    /\ call[c].pc = "sent"
    /\ stored' = Cleared
    /\ call' = [call EXCEPT ![c] = Resting]
    /\ UNCHANGED <<conn, online, creds, request, found>>

\* Mutant: every 401 is retried.
RefusedForever(c) ==
    /\ call[c].pc \in {"sent", "resent"}
    /\ stored' = Cleared
    /\ Remember(LoginCredentials)
    /\ IF LoginCredentials = None
       THEN UNCHANGED request /\ call' = [call EXCEPT ![c] = Resting]
       ELSE /\ request' = RequestWith(request, LoginCredentials)
            /\ call' = [call EXCEPT ![c].pc = "rewaiting"]
    /\ UNCHANGED <<conn, online, found>>

\* The first 401 clears the tokens and asks for another with the remembered
\* login, or returns when there is none.
Refused(c) ==
    /\ call[c].pc = "sent"
    /\ stored' = Cleared
    /\ Remember(LoginCredentials)
    /\ IF LoginCredentials = None
       THEN UNCHANGED request /\ call' = [call EXCEPT ![c] = Resting]
       ELSE /\ request' = RequestWith(request, LoginCredentials)
            /\ call' = [call EXCEPT ![c].pc = "rewaiting"]
    /\ UNCHANGED <<conn, online, found>>

\* The second one is the caller's.
RefusedAgain(c) ==
    /\ call[c].pc = "resent"
    /\ call' = [call EXCEPT ![c] = Resting]
    /\ UNCHANGED <<conn, online, creds, stored, request, found>>

-----------------------------------------------------------------------------
Init ==
    /\ conn = None
    /\ online = FALSE
    /\ creds = None
    /\ stored = Cleared
    /\ request = None
    /\ call = [c \in Calls |-> Resting]
    /\ found = None

Session == (\E c \in Credentials : Submit(c)) \/ Connected \/ Disconnected \/ Reload

Answer(c) == Accepted(c) \/ Refused(c) \/ RefusedAgain(c)

Next ==
    \/ Session
    \/ TokenIssued \/ TokenRefused
    \/ \E c \in Calls : Start(c) \/ Answer(c)

Spec == Init /\ [][Next]_vars

\* Both services answer; nobody has to log in, call or reload.
FairSpec ==
    /\ Spec
    /\ WF_vars(TokenIssued \/ TokenRefused)
    /\ \A c \in Calls : WF_vars(Answer(c))

-----------------------------------------------------------------------------
(* Properties.                                                             *)

\* The types of the state; and a call on its way always carries a token.
TypeOK ==
    /\ conn \in Credentials \cup {None}
    /\ online \in BOOLEAN
    /\ creds \in Credentials \cup {None}
    /\ stored \in [Accounts -> Accounts \cup {None}]
    /\ request \in Credentials \cup {None}
    /\ found \in Credentials \cup {None}
    /\ call \in [Calls -> [pc : {"idle", "waiting", "sent", "rewaiting", "resent"},
                           token : Accounts \cup {None}]]
    /\ \A c \in At("sent") \cup At("resent") : call[c].token # None

\* A step sends call c, or sends it again, while somebody is logged in.
Sent(c) == call[c].pc # call'[c].pc /\ call'[c].pc \in {"sent", "resent"} /\ conn' # None

\* "only reads the scoped token for the current user"
\* (rediff-shared/tests/auth.js:24), although a login may find the token
\* request of another account under way, which then answers for it.
CurrentUserOnly == [][\A c \in Calls : Sent(c) /\ online => call'[c].token = conn'.jid]_vars

\* This login was submitted during another account's token request.
Crossed == conn # None /\ found # None /\ found.jid # conn.jid

\* The same, unless this login was submitted during another account's
\* request: whatever else a tab remembers of an earlier login is not used in
\* another's name.
OwnTokenOnly == [][\A c \in Calls : Sent(c) /\ ~Crossed => call'[c].token = conn'.jid]_vars

\* Every call of authenticatedFetch ends, however the answers, the logins and
\* other calls' retries interleave: a 401 is retried once.
EveryCallSettles == \A c \in Calls : call[c].pc # "idle" ~> call[c].pc = "idle"

\* Whoever is online with a password that the token endpoint takes gets a
\* token, or goes; a token lost to a 401 is replaced (authenticatedFetch and
\* bootstrapStoredSearchToken).  But not who logged in during another
\* request, be it the own with a wrong password: it swallows the login's.
TokenPrepared ==
    \A a \in Accounts \ TokenFails :
        online /\ conn = [jid |-> a, pass |-> "right"] /\ found \in {None, conn}
          ~> (stored[a] = a \/ ~online)
=============================================================================
