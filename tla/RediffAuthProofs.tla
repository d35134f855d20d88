-------------------------- MODULE RediffAuthProofs --------------------------
(* Theorems about RediffAuth for every set of accounts and of calls.        *)
EXTENDS RediffAuth, TLAPS

USE AuthAssumption

\* What the tab remembers belongs to whoever is logged in, but for the request
\* that a login found under way.
StoredByName == \A a \in Accounts : stored[a] \in {None, a}
LoginRemembered == conn # None /\ creds # None => creds.jid = conn.jid
RequestIsOwn == conn # None /\ request # None /\ ~Crossed => request.jid = conn.jid

IInv == TypeOK /\ StoredByName /\ LoginRemembered /\ RequestIsOwn

-----------------------------------------------------------------------------
\* None is none of the credentials: a record of Credentials has a jid in
\* Accounts, and LoginCredentials is one of the two it chooses from.
LEMMA LoginType ==
  ASSUME TypeOK
  PROVE  /\ LoginCredentials \in Credentials \cup {None}
         /\ \A c \in Credentials : RequestWith(request, c) \in Credentials \cup {None}
         /\ \A c \in Credentials : c.jid \in Accounts /\ c.pass \in Passwords
  BY DEF TypeOK, LoginCredentials, RequestWith, Credentials

\* Whatever the token request brings, the calls keep their type.
LEMMA ResumedType ==
  ASSUME TypeOK, NEW token \in Accounts \cup {None}, Resumed(token)
  PROVE  /\ call' \in [Calls -> [pc : {"idle", "waiting", "sent", "rewaiting", "resent"},
                                 token : Accounts \cup {None}]]
         /\ \A c \in Calls : call'[c].pc \in {"sent", "resent"} => call'[c].token # None
         /\ \A c \in Calls : call'[c].pc \in {"sent", "resent"} =>
              call'[c].pc = call[c].pc \/ call'[c].token = token
  <1> DEFINE States == [pc : {"idle", "waiting", "sent", "rewaiting", "resent"},
                        token : Accounts \cup {None}]
  <1>1. ASSUME NEW c \in Calls
        PROVE  /\ call'[c] \in States
               /\ call'[c].pc \in {"sent", "resent"} =>
                    call'[c] = call[c] \/ (call'[c].token = token /\ token # None)
    <2>1. call[c] \in States
      BY DEF TypeOK
    <2>2. CASE c \notin At("waiting") \cup At("rewaiting")
      <3>1. call'[c] = call[c]
        BY <2>2 DEF Resumed
      <3> HIDE DEF States
      <3>2. QED
        BY <2>1, <3>1
    <2>3. CASE c \in At("waiting") \cup At("rewaiting") /\ token = None
      BY <2>3 DEF Resumed, Resting
    <2>4. CASE c \in At("waiting") \cup At("rewaiting") /\ token # None
      <3>1. PICK pc \in {"sent", "resent"} : call'[c] = [pc |-> pc, token |-> token]
        BY <2>4 DEF Resumed
      <3>2. QED
        BY <2>4, <3>1
    <2>5. QED
      BY <2>2, <2>3, <2>4
  <1>2. call' \in [Calls -> States]
    BY <1>1 DEF Resumed
  <1>3. QED
    BY <1>1, <1>2 DEF TypeOK, At

\* A fresh tab has the right types.
LEMMA TypeInit == Init => IInv
  <1> SUFFICES ASSUME Init PROVE IInv
    OBVIOUS
  <1>1. call \in [Calls -> [pc : {"idle", "waiting", "sent", "rewaiting", "resent"},
                            token : Accounts \cup {None}]]
    BY DEF Init, Resting
  <1>2. \A c \in Calls : call[c].pc = "idle"
    BY DEF Init, Resting
  <1>3. stored \in [Accounts -> Accounts \cup {None}] /\ StoredByName
    BY DEF Init, Cleared, StoredByName
  <1>4. QED
    BY <1>1, <1>2, <1>3 DEF Init, IInv, TypeOK, LoginRemembered, RequestIsOwn, At

\* A step of the session keeps the types; likewise the two endpoints'.
LEMMA TypeStep ==
  ASSUME TypeOK, [Next]_vars
  PROVE  TypeOK'
  <1>1. ASSUME NEW c \in Credentials, Submit(c) PROVE TypeOK'
    BY <1>1, LoginType DEF Submit, Remember, TypeOK, At
  <1>2. CASE Connected
    BY <1>2, LoginType DEF Connected, Bootstrap, Remember, TypeOK, At, LoginCredentials, RequestWith
  <1>3. CASE Disconnected
    BY <1>3 DEF Disconnected, Cleared, TypeOK, At
  <1>4. CASE Reload
    BY <1>4 DEF Reload, TypeOK, At, Resting, Credentials, Passwords
  <1>5. CASE TokenIssued
    <2>1. request.jid \in Accounts
      BY <1>5 DEF TokenIssued, TypeOK, Credentials
    <2>2. QED
      BY <1>5, <2>1, ResumedType DEF TokenIssued, TypeOK, At
  <1>6. CASE TokenRefused
    BY <1>6, ResumedType DEF TokenRefused, TypeOK, At
  <1>7. ASSUME NEW c \in Calls, Start(c) PROVE TypeOK'
    <2>1. conn.jid \in Accounts
      BY <1>7 DEF Start, TypeOK, Credentials
    <2>2. QED
      BY <1>7, <2>1 DEF Start, TypeOK, At
  <1>8. ASSUME NEW c \in Calls, Accepted(c) \/ RefusedAgain(c) PROVE TypeOK'
    BY <1>8 DEF Accepted, RefusedAgain, Resting, TypeOK, At
  <1>9. ASSUME NEW c \in Calls, Refused(c) PROVE TypeOK'
    BY <1>9, LoginType DEF Refused, Remember, Cleared, Resting, TypeOK, At, LoginCredentials, RequestWith
  <1>10. CASE UNCHANGED vars
    BY <1>10 DEF vars, TypeOK, At
  <1>11. QED
    BY <1>1, <1>2, <1>3, <1>4, <1>5, <1>6, <1>7, <1>8, <1>9, <1>10
    DEF Next, Session, Answer

\* All that the tab remembers stays the current account's.
LEMMA OwnStep ==
  ASSUME IInv, [Next]_vars
  PROVE  (StoredByName /\ LoginRemembered /\ RequestIsOwn)'
  <1> USE DEF IInv, StoredByName, LoginRemembered, RequestIsOwn, Crossed
  <1>1. ASSUME NEW c \in Credentials, Submit(c)
        PROVE  (StoredByName /\ LoginRemembered /\ RequestIsOwn)'
    BY <1>1 DEF Submit, Remember, RequestWith
  <1>2. CASE Connected
    BY <1>2 DEF Connected, Bootstrap, Remember, RequestWith, LoginCredentials
  <1>3. CASE Disconnected
    BY <1>3 DEF Disconnected, Cleared
  <1>4. CASE Reload
    BY <1>4 DEF Reload
  <1>5. CASE TokenIssued
    BY <1>5 DEF TokenIssued, TypeOK, Credentials
  <1>6. CASE TokenRefused
    BY <1>6 DEF TokenRefused
  <1>7. ASSUME NEW c \in Calls, Start(c) \/ Accepted(c) \/ RefusedAgain(c)
        PROVE  (StoredByName /\ LoginRemembered /\ RequestIsOwn)'
    BY <1>7 DEF Start, Accepted, RefusedAgain
  <1>8. ASSUME NEW c \in Calls, Refused(c)
        PROVE  (StoredByName /\ LoginRemembered /\ RequestIsOwn)'
    BY <1>8 DEF Refused, Cleared, Remember, RequestWith, LoginCredentials
  <1>9. CASE UNCHANGED vars
    BY <1>9 DEF vars
  <1>10. QED
    BY <1>1, <1>2, <1>3, <1>4, <1>5, <1>6, <1>7, <1>8, <1>9 DEF Next, Session, Answer

\* The state keeps its types, and no call goes out without a token.
THEOREM TypeCorrect == Spec => []TypeOK
  <1>1. Init => TypeOK
    BY TypeInit DEF IInv
  <1>2. TypeOK /\ [Next]_vars => TypeOK'
    BY TypeStep
  <1>3. QED
    BY <1>1, <1>2, PTL DEF Spec

\* A call goes out with a stored token, or with the one just issued.
LEMMA SendsOwn ==
  ASSUME IInv, [Next]_vars, NEW c \in Calls, call[c].pc # call'[c].pc,
         call'[c].pc \in {"sent", "resent"}, conn' # None, ~Crossed
  PROVE  call'[c].token = conn'.jid
  <1>1. CASE Session
    BY <1>1 DEF Session, Submit, Connected, Disconnected, Reload, Resting
  <1>2. CASE TokenIssued
    <2>1. request.jid \in Accounts
      BY <1>2 DEF TokenIssued, IInv, TypeOK, Credentials
    <2>2. call'[c].token = request.jid
      BY <1>2, <2>1, ResumedType DEF TokenIssued, IInv
    <2>3. QED
      BY <1>2, <2>2 DEF TokenIssued, IInv, RequestIsOwn, Crossed
  <1>3. CASE TokenRefused
    <2>1. call'[c].token # None /\ call'[c].token = None
      BY <1>3, ResumedType DEF TokenRefused, IInv
    <2>2. QED
      BY <2>1
  <1>4. ASSUME NEW d \in Calls, Start(d)
        PROVE  call'[c].token = conn'.jid
    <2>1. conn.jid \in Accounts
      BY <1>4 DEF Start, IInv, TypeOK, Credentials
    <2>2. QED
      BY <1>4, <2>1 DEF Start, IInv, TypeOK, StoredByName
  <1>5. ASSUME NEW d \in Calls, Answer(d) PROVE FALSE
    BY <1>5 DEF Answer, Accepted, Refused, RefusedAgain, Resting, IInv, TypeOK
  <1>6. QED
    BY <1>1, <1>2, <1>3, <1>4, <1>5 DEF Next, vars

\* Every call goes out with the token of the account that is logged in,
\* unless this login was submitted during another account's request.
THEOREM CallsCarryOwnToken == Spec => OwnTokenOnly
  <1>1. IInv /\ [Next]_vars => IInv'
    BY TypeStep, OwnStep DEF IInv
  <1>2. IInv /\ [Next]_vars =>
          [\A c \in Calls : Sent(c) /\ ~Crossed => call'[c].token = conn'.jid]_vars
    BY SendsOwn DEF Sent
  <1>3. QED
    BY TypeInit, <1>1, <1>2, PTL DEF Spec, OwnTokenOnly
=============================================================================
