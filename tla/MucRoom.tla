------------------------------ MODULE MucRoom ------------------------------
(***************************************************************************)
(* headless/plugins/muc/muc.js: how one client enters and leaves one room. *)
(* The chat box's connection status follows presences that cross the       *)
(* client's own, over a connection that drops, while joins, closings and   *)
(* self-pings are under way, each with awaits in which the others run.     *)
(*                                                                         *)
(* Abstracted: nicknames (a presence may meet a conflict), the reasons of  *)
(* a refusal (PASSWORD_REQUIRED and DESTROYED are DISCONNECTED), and the   *)
(* creation and configuration of new rooms.  Room activity indicators are  *)
(* off (muc_subscribe_to_rai), nicknames are not taken from JIDs           *)
(* (muc_nickname_from_jid).                                                *)
(***************************************************************************)
EXTENDS Naturals, Sequences

CONSTANTS
    MaxJoins,   \* bound: calls of join() under way that are told apart
    MaxSent,    \* bound: stanzas on their way, both directions together
    MaxDrops    \* bound: how often the connection drops

ASSUME RoomAssumption == MaxJoins \in Nat \ {0} /\ MaxSent \in Nat /\ MaxDrops \in Nat

VARIABLES
    box,       \* the chat box: "none", "open" or "closing"
    status,    \* connection_status of its session
    joins,     \* calls of join() that await the room's features
    probe,     \* isJoined: "none", "waits" (for 'reconnected') or "asked"
    up,        \* connected
    drops,     \* how often the connection dropped
    toServer,  \* stanzas to the room
    toClient,  \* stanzas from the room
    inside,    \* the room has the client as an occupant
    astray,    \* a box was closed without its leave, or before its join (history)
    refused,   \* a change of nick was refused to an occupant (history)
    unseen,    \* the room lost the occupant, or refused its join with an error
               \* that an entered room ignores (history)
    unheard    \* a join was refused with an error that is ignored (history)

client  == <<box, status, joins, probe>>
net     == <<up, drops>>
history == <<astray, refused, unseen, unheard>>
vars    == <<client, net, toServer, toClient, inside, history>>

Statuses == {"DISCONNECTED", "CONNECTING", "CONNECTED", "ENTERED", "NICKNAME_REQUIRED", "BANNED", "CLOSING"}
Requests == {"join", "nick", "leave", "ping", "stale"}
\* Of an error presence: a nickname conflict, a refusal that ends the session
\* (type cancel; auth with a condition that is looked for), one of type modify
\* with a text, and any other: type wait, auth or modify without these.
Errors   == {"conflict", "cancel", "modify", "other"}
\* "left": the client's own presence, unavailable, as the answer to its leave
Answers  == {"self", "left", "kicked", "banned", "pong", "no pong", "stale"} \cup Errors

Joining == status \in {"CONNECTING", "CONNECTED"}

\* Stanzas are dropped when there is no connection (api.send).
Send(s) == toServer' = IF up THEN Append(toServer, s) ELSE toServer

CanSend == up => Len(toServer) + Len(toClient) < MaxSent

\* A new ping: the answer to an earlier one, of another id, is for nobody.
Outdated(stanzas) ==
    [i \in 1..Len(stanzas) |->
        IF stanzas[i] \in {"ping", "pong", "no pong"} THEN "stale" ELSE stanzas[i]]

Ping ==
    /\ toServer' = IF up THEN Append(Outdated(toServer), "ping") ELSE Outdated(toServer)
    /\ toClient' = Outdated(toClient)
    /\ probe' = IF up THEN "asked" ELSE "waits"

\* Mutant: the session of a chat box that is gone is written to again.
StartJoinAnyway ==
    /\ joins' = IF joins < MaxJoins THEN joins + 1 ELSE joins
    /\ status' = "CONNECTING"

\* join() up to its first await; a chat box that is gone has no session.
StartJoin ==
    /\ joins' = IF joins < MaxJoins THEN joins + 1 ELSE joins
    /\ status' = IF box = "none" THEN status ELSE "CONNECTING"

-----------------------------------------------------------------------------
(* The user.                                                               *)

\* A box is created: setup() finds nothing to restore and joins.
Open ==
    /\ box = "none"
    /\ box' = "open"
    /\ joins' = IF joins < MaxJoins THEN joins + 1 ELSE joins
    /\ status' = "CONNECTING"
    /\ UNCHANGED <<probe, net, toServer, toClient, inside, history>>

\* Mutant: close() does not leave the room.
CloseSilently ==
    /\ box = "open"
    /\ box' = "closing"
    /\ status' = "DISCONNECTED"
    /\ UNCHANGED <<joins, probe, net, toServer, toClient, inside, history>>

\* close() up to the destruction of the models: CLOSING is overwritten by
\* leave() before anything else runs.
Close ==
    /\ box = "open"
    /\ CanSend
    /\ box' = "closing"
    /\ Send("leave")
    /\ status' = "DISCONNECTED"
    /\ astray' = (astray \/ ~up)
    /\ UNCHANGED <<joins, probe, net, toClient, inside, refused, unseen, unheard>>

\* The session and the box are destroyed, and the handlers removed.
Destroy ==
    /\ box = "closing"
    /\ box' = "none"
    /\ status' = "DISCONNECTED"
    /\ UNCHANGED <<joins, probe, net, toServer, toClient, inside, history>>

\* setNickname; when a nickname is required, join() with another one.
ChangeNick ==
    /\ box = "open"
    /\ \/ /\ status = "ENTERED" /\ CanSend
          /\ Send("nick")
          /\ UNCHANGED <<status, joins>>
       \/ /\ status = "NICKNAME_REQUIRED"
          /\ StartJoin
          /\ UNCHANGED toServer
    /\ UNCHANGED <<box, probe, net, toClient, inside, history>>

\* onHiddenChange: a room that is shown and was left is joined again.
Show ==
    /\ box = "open" /\ status = "DISCONNECTED"
    /\ StartJoin
    /\ UNCHANGED <<box, probe, net, toServer, toClient, inside, history>>

\* rejoinIfNecessary, when the window gets visible or a message was not
\* accepted: not entered, it joins; entered, it pings itself in the room.
RejoinIfNecessary ==
    /\ box = "open"
    /\ probe = "none"
    /\ \/ status # "ENTERED" /\ StartJoin /\ UNCHANGED <<probe, toServer, toClient>>
       \/ status = "ENTERED" /\ CanSend /\ Ping /\ UNCHANGED <<status, joins>>
    /\ UNCHANGED <<box, net, inside, history>>

\* A reloaded page resumes the stream; restoreFromCache keeps ENTERED if a
\* self-ping succeeds, else it joins.
Reload ==
    /\ up /\ box = "open" /\ CanSend
    /\ \/ status = "ENTERED" /\ joins' = 0 /\ Ping /\ UNCHANGED status
       \/ /\ status # "ENTERED" /\ joins' = 1 /\ probe' = "none" /\ status' = "CONNECTING"
          /\ UNCHANGED <<toServer, toClient>>
    /\ UNCHANGED <<box, net, inside, history>>

-----------------------------------------------------------------------------
(* The client's continuations.                                             *)

\* Mutant: join() gives up when the room's features do not arrive.
JoinGoesOnNever == FALSE

\* join() does not look again whether its box is still there.
JoinGoesOn == TRUE

\* The features are there, or 30 seconds over: the presence is sent.
SendJoin ==
    /\ joins > 0
    /\ CanSend
    /\ joins' = joins - 1
    /\ IF JoinGoesOn
       THEN Send("join") /\ astray' = (astray \/ (up /\ box # "open"))
       ELSE UNCHANGED <<toServer, astray>>
    /\ UNCHANGED <<box, status, probe, net, toClient, inside, refused, unseen, unheard>>

Got(s) == up /\ toClient # <<>> /\ Head(toClient) = s /\ toClient' = Tail(toClient)

\* Mutant: only a room that is being joined is entered.
EntersJoining == Joining

\* onOwnPresence; also for the answer to a change of nick
Enters == status \notin {"ENTERED", "CLOSING"}

OnOwnPresence ==
    /\ Got("self")
    /\ status' = IF box # "none" /\ Enters THEN "ENTERED" ELSE status
    /\ UNCHANGED <<box, joins, probe, net, toServer, inside, history>>

\* The answer to the leave of an earlier session: onPresence takes an own presence
\* for an entry, onOwnPresence an unavailable one for none.
OnLeft ==
    /\ Got("left")
    /\ status' = IF box # "none" /\ status = "CONNECTING" THEN "CONNECTED" ELSE status
    /\ UNCHANGED <<box, joins, probe, net, toServer, inside, history>>

\* Mutant: only a ban counts as an end.
LeavesBanned(s) == s = "banned"

\* handleDisconnection: own unavailable presence with a code of DISCONNECT_CODES
Leaves(s) == s \in {"kicked", "banned"}

OnUnavailable(s) ==
    /\ Got(s)
    /\ s \in {"kicked", "banned"}
    /\ status' = IF box = "none" \/ ~Leaves(s) THEN status
                 ELSE IF s = "banned" THEN "BANNED" ELSE "DISCONNECTED"
    /\ UNCHANGED <<box, joins, probe, net, toServer, inside, history>>

\* The errors that onErrorPresence and handleModifyError act upon
Heard(s) == s \in {"conflict", "cancel"} \/ (s = "modify" /\ status = "CONNECTING")

\* onErrorPresence, onNicknameClash, handleModifyError
OnErrorPresence(s) ==
    /\ Got(s)
    /\ s \in Errors
    /\ status' = IF box = "none" \/ ~Heard(s) THEN status
                 ELSE IF s = "conflict" THEN "NICKNAME_REQUIRED" ELSE "DISCONNECTED"
    /\ unseen' = (unseen \/ (~Heard(s) /\ status = "ENTERED" /\ ~inside))
    /\ unheard' = (unheard \/ (~Heard(s) /\ Joining))
    /\ UNCHANGED <<box, joins, probe, net, toServer, inside, astray, refused>>

OnPong ==
    /\ Got("pong")
    /\ probe' = "none"
    /\ UNCHANGED <<box, status, joins, net, toServer, inside, history>>

\* The answer to a ping that is no longer waited for
OnStale ==
    /\ Got("stale")
    /\ UNCHANGED <<client, net, toServer, inside, history>>

\* An error, or nothing in 10 seconds: rejoin(), whatever the box does now.
OnNoPong ==
    /\ \/ Got("no pong") /\ (probe = "asked" => StartJoin) /\ (probe # "asked" => UNCHANGED <<status, joins>>)
       \/ probe = "asked" /\ StartJoin /\ UNCHANGED toClient
    /\ probe' = "none"
    /\ UNCHANGED <<box, net, toServer, inside, history>>

-----------------------------------------------------------------------------
(* The connection.                                                         *)

\* tearDown: 'beforeTearDown' marks every room as disconnected.
Drop ==
    /\ up /\ drops < MaxDrops
    /\ up' = FALSE /\ drops' = drops + 1
    /\ status' = "DISCONNECTED"
    /\ UNCHANGED <<box, joins, probe, toServer, toClient, inside, history>>

\* 'reconnected' rejoins every room (onReconnection); the stream is resumed with
\* all that was on its way, or a new session begins outside every room.
Reconnect(resumed) ==
    /\ ~up
    /\ up' = TRUE
    /\ \/ resumed /\ UNCHANGED <<toClient, inside>>
       \/ ~resumed /\ toClient' = <<>> /\ inside' = FALSE
    /\ LET kept == IF resumed THEN toServer ELSE <<>>
       IN  toServer' = IF probe = "waits" THEN Append(kept, "ping") ELSE kept
    /\ probe' = IF probe = "waits" THEN "asked" ELSE probe
    /\ IF box = "none" THEN UNCHANGED <<status, joins>> ELSE StartJoin
    /\ UNCHANGED <<box, drops, history>>

-----------------------------------------------------------------------------
(* The room.                                                               *)

Arrives(s) == up /\ toServer # <<>> /\ Head(toServer) = s /\ toServer' = Tail(toServer)

Answer(s) == toClient' = Append(toClient, s)

\* A presence lets in who is outside, or is refused; of an occupant it is
\* reflected, or is a change of nick that is refused.
ServePresence(s) ==
    /\ Arrives(s)
    /\ s \in {"join", "nick"}
    /\ \/ inside' = TRUE /\ Answer("self") /\ UNCHANGED <<refused, unseen>>
       \/ /\ ~inside \/ s = "nick"
          /\ \E e \in Errors : Answer(e)
          /\ refused' = (refused \/ inside)
          /\ UNCHANGED <<inside, unseen>>
    /\ UNCHANGED <<client, net, astray, unheard>>

ServeLeave ==
    /\ Arrives("leave")
    /\ IF inside THEN Answer("left") ELSE UNCHANGED toClient
    /\ inside' = FALSE
    /\ UNCHANGED <<client, net, history>>

ServePing ==
    /\ Arrives("ping")
    /\ Answer(IF inside THEN "pong" ELSE "no pong")
    /\ UNCHANGED <<client, net, inside, history>>

ServeStale ==
    /\ Arrives("stale")
    /\ Answer("stale")
    /\ UNCHANGED <<client, net, inside, history>>

Expel(s) ==
    /\ inside
    /\ Len(toServer) + Len(toClient) < MaxSent
    /\ inside' = FALSE
    /\ Answer(s)
    /\ UNCHANGED <<client, net, toServer, history>>

\* The room loses an occupant without a word (its server restarts).
Forget ==
    /\ inside
    /\ inside' = FALSE
    /\ unseen' = TRUE
    /\ UNCHANGED <<client, net, toServer, toClient, astray, refused, unheard>>

-----------------------------------------------------------------------------
Init ==
    /\ box = "none" /\ status = "DISCONNECTED" /\ joins = 0 /\ probe = "none"
    /\ up = TRUE /\ drops = 0
    /\ toServer = <<>> /\ toClient = <<>> /\ inside = FALSE
    /\ astray = FALSE /\ refused = FALSE /\ unseen = FALSE /\ unheard = FALSE

User == Open \/ Close \/ ChangeNick \/ Show \/ RejoinIfNecessary \/ Reload

Handle ==
    \/ OnOwnPresence \/ OnLeft \/ OnPong \/ OnStale \/ OnNoPong
    \/ \E s \in {"kicked", "banned"} : OnUnavailable(s)
    \/ \E s \in Errors : OnErrorPresence(s)

Client == Destroy \/ SendJoin \/ Handle

Serve ==
    \/ \E s \in {"join", "nick"} : ServePresence(s)
    \/ ServeLeave \/ ServePing \/ ServeStale

Room == Serve \/ Forget \/ Expel("kicked") \/ Expel("banned")

Next == User \/ Client \/ Room \/ Drop \/ \E resumed \in BOOLEAN : Reconnect(resumed)

Spec == Init /\ [][Next]_vars

\* The client and the room handle what has arrived, a dropped connection comes
\* back, and a join's wait for features is limited; the user need do nothing.
FairSpec ==
    /\ Spec
    /\ WF_vars(SendJoin)
    /\ WF_vars(Handle)
    /\ WF_vars(Serve)
    /\ WF_vars(\E resumed \in BOOLEAN : Reconnect(resumed))

-----------------------------------------------------------------------------
TypeOK ==
    /\ box \in {"none", "open", "closing"}
    /\ status \in Statuses
    /\ box = "none" => status = "DISCONNECTED"
    /\ joins \in 0..MaxJoins
    /\ probe \in {"none", "waits", "asked"}
    /\ up \in BOOLEAN /\ drops \in 0..MaxDrops
    /\ toServer \in Seq(Requests) /\ toClient \in Seq(Answers)
    /\ inside \in BOOLEAN /\ astray \in BOOLEAN /\ refused \in BOOLEAN
    /\ unseen \in BOOLEAN /\ unheard \in BOOLEAN

\* Nothing is on its way, and no call is under way.
Quiet == up /\ toServer = <<>> /\ toClient = <<>> /\ joins = 0 /\ box # "closing"

\* A closed chat box leaves no occupant behind (close, leave), unless a join that
\* was under way sent its presence after it (join does not look again), or there
\* was no connection for the leave and the stream was then resumed.
ClosedIsOutside == Quiet /\ box = "none" => ~inside \/ astray

\* The client does not believe to be in a room it has left or was thrown out of,
\* however kicks, joins, errors and reconnections cross (onPresence), unless the
\* room forgot it, or an earlier own presence made it ignore a refusal.
EnteredIsInside == Quiet /\ status = "ENTERED" => inside \/ unseen

\* Nor to be outside while the others see it inside, unless a change of nick was
\* refused, an error that is taken for the end of the session (onErrorPresence).
OutsideIsOutside ==
    Quiet /\ box = "open" /\ status # "ENTERED" => ~inside \/ refused

\* A room that is being joined is entered, or says why not (join, onPresence,
\* onReconnection), though the connection may drop at any point, unless the room
\* refused with an error that onErrorPresence ignores: one of type wait, or of type
\* auth or modify without what it looks for, leaves the room joining.
JoinSettles == Joining ~> ~Joining \/ unheard
=============================================================================
