------------------------------- MODULE Smacks -------------------------------
(***************************************************************************)
(* headless/plugins/smacks: stream management (XEP-0198) in the client.    *)
(* The session counts the stanzas it has handled and keeps those the       *)
(* server has not acknowledged; when the connection drops, the stream is   *)
(* resumed and they are sent again.  The session lives in sessionStorage,  *)
(* so a page reload keeps it.                                              *)
(*                                                                         *)
(* External: ejabberd's side of the stream, and the websocket, which keeps *)
(* order and loses what is on its way when it closes.  A stanza is its     *)
(* number in the order in which the application sends (the server pushes). *)
(* An <r/> that the client sends behind a stanza is part of the stanza.    *)
(***************************************************************************)
EXTENDS Naturals, Sequences, Functions

CONSTANTS
    MaxUnacked,  \* smacks_max_unacked_stanzas
    MaxSent, MaxPushed, MaxDrops,   \* bounds
    Forgets,     \* whether the server may time a detached stream out
    None         \* null

ASSUME SmacksAssumption ==
    /\ MaxUnacked \in Nat \ {0}
    /\ {MaxSent, MaxPushed, MaxDrops} \subseteq Nat
    /\ Forgets \in BOOLEAN
    /\ None \notin Nat

VARIABLES
    session,    \* the model _converse.session, as far as smacks keeps it
    phase,      \* of the connection
    c2s, s2c,   \* the websocket
    stream,     \* the server's side of this connection
    held,       \* the detached stream that may be resumed, or None
    sent,       \* how many stanzas the application has sent
    processed,  \* those the server has handled, in order
    pushed,     \* how many stanzas the server has sent
    seen,       \* those the client has handled, in order
    drops,      \* connections lost so far
    early       \* (history) a stanza was sent before the answer to a resume or an enable

vars == <<session, phase, c2s, s2c, stream, held, sent, processed, pushed, seen, drops, early>>

\* resetSessionData; smacks_resumed is not among what it resets.
Reset(s) == [s EXCEPT !.enabled = FALSE, !.id = None, !.handled = 0,
                      !.acked = 0, !.since = 0, !.unacked = <<>>]

\* initSessionData in a new session
Fresh == [enabled |-> FALSE, id |-> None, handled |-> 0, acked |-> 0,
          since |-> 0, unacked |-> <<>>, resumed |-> FALSE]

\* id: None without stream management; in: stanzas received; out: stanzas
\* sent after the base the client has acknowledged.
NewStream == [bound |-> FALSE, id |-> None, in |-> 0, base |-> 0, out |-> <<>>]

Packet(t, n) == [type |-> t, n |-> n]
Pushes(q)    == [i \in DOMAIN q |-> Packet("stanza", q[i])]

Got(t)   == s2c # <<>> /\ Head(s2c).type = t /\ s2c' = Tail(s2c)
Post(q)  == c2s' = c2s \o q
Read(t)  == c2s # <<>> /\ Head(c2s).type = t /\ c2s' = Tail(c2s)
Reply(q) == s2c' = s2c \o q

-----------------------------------------------------------------------------
(* What the handlers compute.                                              *)

\* JavaScript's q.slice(k) and q.slice(-k)
From(q, k) == SubSeq(q, k + 1, Len(q))
LastOnes(q, k) == From(q, IF k < Len(q) THEN Len(q) - k ELSE 0)

\* Mutant: the whole count is cut off, not what is new in it.
AckedWhole(s, h) ==
    [s EXCEPT !.acked = h, !.since = 0, !.unacked = From(@, h)]

\* Mutant: the count is not remembered for the next acknowledgement.
AckedStale(s, h) ==
    [s EXCEPT !.since = 0,
              !.unacked = IF h >= s.acked THEN From(@, h - s.acked)
                                          ELSE LastOnes(@, s.acked - h)]

\* handleAck
Acked(s, h) ==
    [s EXCEPT !.acked = h, !.since = 0,
              !.unacked = IF h >= s.acked THEN From(@, h - s.acked)
                                          ELSE LastOnes(@, s.acked - h)]

\* The stanzas q in session s: if it is managed, every MaxUnacked-th since the
\* last acknowledgement asks for one.
Transmission(s, q) ==
    [i \in DOMAIN q |-> [type |-> "stanza", n |-> q[i],
                         asks |-> s.enabled /\ (s.since + i) % MaxUnacked = 0]]

\* api.send of each stanza of q and onStanzaSent for each, in session s
Sends(s, q) ==
    /\ Post(Transmission(s, q))
    /\ session' = IF s.enabled THEN [s EXCEPT !.unacked = @ \o q, !.since = @ + Len(q)] ELSE s

-----------------------------------------------------------------------------
(* The client.                                                             *)

\* The application sends; without a connection api.send only warns.  The
\* connection is up from the stream's features on, before it is resumed,
\* bound or managed.
Send ==
    /\ phase # "down"
    /\ sent < MaxSent
    /\ sent' = sent + 1
    /\ Sends(session, <<sent'>>)
    /\ early' = (early \/ phase \in {"resuming", "enabling"})
    /\ UNCHANGED <<phase, s2c, stream, held, processed, pushed, seen, drops>>

\* enableStreamManagement, before binding: resume, or start afresh.
Connect ==
    /\ phase = "down"
    /\ \/ /\ session.id # None
          /\ phase' = "resuming"
          /\ Post(<<[type |-> "resume", n |-> session.handled, id |-> session.id]>>)
          /\ UNCHANGED session
       \/ /\ session.id = None
          /\ phase' = "binding"
          /\ session' = Reset(session)
          /\ Post(<<Packet("bind", 0)>>)
    /\ UNCHANGED <<s2c, stream, held, sent, processed, pushed, seen, drops, early>>

\* sendEnableStanza, after binding
OnBound ==
    /\ Got("bound")
    /\ phase' = "enabling"
    /\ Post(<<Packet("enable", 0)>>)
    /\ UNCHANGED <<session, stream, held, sent, processed, pushed, seen, drops, early>>

\* Mutant: the stream's id is not kept.
OnEnabledNoId ==
    /\ Got("enabled")
    /\ phase' = "online"
    /\ session' = [session EXCEPT !.enabled = TRUE]
    /\ UNCHANGED <<c2s, stream, held, sent, processed, pushed, seen, drops, early>>

\* saveSessionData
OnEnabled ==
    /\ Got("enabled")
    /\ phase' = "online"
    /\ session' = [session EXCEPT !.enabled = TRUE, !.id = Head(s2c).n]
    /\ UNCHANGED <<c2s, stream, held, sent, processed, pushed, seen, drops, early>>

\* onFailedStanza, of a resume (binding follows) or of an enable
OnFailed ==
    /\ Got("failed")
    /\ session' = Reset(session)
    /\ IF phase = "resuming"
       THEN phase' = "binding" /\ Post(<<Packet("bind", 0)>>)
       ELSE phase' = "online" /\ UNCHANGED c2s
    /\ UNCHANGED <<stream, held, sent, processed, pushed, seen, drops, early>>

\* Mutant: what is not acknowledged is sent again before the answer's count
\* is applied to it.
ResumedResendsFirst ==
    /\ Got("resumed")
    /\ phase' = "online"
    /\ Sends([session EXCEPT !.resumed = TRUE, !.unacked = <<>>, !.since = 0,
                             !.acked = Head(s2c).n], session.unacked)
    /\ UNCHANGED <<stream, held, sent, processed, pushed, seen, drops, early>>


\* onResumedStanza: acknowledge, then resendUnackedStanzas, which empties the
\* list for onStanzaSent to fill again.
OnResumed ==
    /\ Got("resumed")
    /\ phase' = "online"
    /\ LET s == Acked([session EXCEPT !.enabled = TRUE, !.resumed = TRUE], Head(s2c).n)
       IN  Sends([s EXCEPT !.unacked = <<>>], s.unacked)
    /\ UNCHANGED <<stream, held, sent, processed, pushed, seen, drops, early>>

OnAck ==
    /\ Got("a")
    /\ session' = IF session.enabled THEN Acked(session, Head(s2c).n) ELSE session
    /\ UNCHANGED <<phase, c2s, stream, held, sent, processed, pushed, seen, drops, early>>

\* sendAck
OnRequest ==
    /\ Got("r")
    /\ Post(IF session.enabled THEN <<Packet("a", session.handled)>> ELSE <<>>)
    /\ UNCHANGED <<session, phase, stream, held, sent, processed, pushed, seen, drops, early>>

\* Mutant: what is received is not counted.
OnStanzaCountsNone ==
    /\ Got("stanza")
    /\ seen' = Append(seen, Head(s2c).n)
    /\ UNCHANGED <<session, phase, c2s, stream, held, sent, processed, pushed, drops, early>>

\* stanzaHandler, beside the stanza's other handlers
OnStanza ==
    /\ Got("stanza")
    /\ seen' = Append(seen, Head(s2c).n)
    /\ session' = IF session.enabled THEN [session EXCEPT !.handled = @ + 1] ELSE session
    /\ UNCHANGED <<phase, c2s, stream, held, sent, processed, pushed, drops, early>>

-----------------------------------------------------------------------------
(* Losing the connection.                                                  *)

Disconnect(s) ==
    /\ phase # "down"
    /\ drops < MaxDrops
    /\ drops' = drops + 1
    /\ phase' = "down"
    /\ session' = s
    /\ c2s' = <<>> /\ s2c' = <<>>
    /\ stream' = NewStream
    /\ held' = IF stream.id # None THEN stream ELSE held
    /\ UNCHANGED <<sent, processed, pushed, seen, early>>

\* onWillReconnect: a stream that was resumed once is not resumed again.
Drop == Disconnect(IF session.resumed THEN Reset(session) ELSE session)

\* A reload runs no 'will-reconnect'.
Reload == Disconnect(session)

-----------------------------------------------------------------------------
(* External: ejabberd.                                                     *)

ServeBind ==
    /\ Read("bind")
    /\ stream' = [stream EXCEPT !.bound = TRUE]
    /\ Reply(<<Packet("bound", 0)>>)
    /\ UNCHANGED <<session, phase, held, sent, processed, pushed, seen, drops, early>>

\* A stream is known by the number of its connection.
ServeEnable ==
    /\ Read("enable")
    /\ \/ /\ stream' = [stream EXCEPT !.id = drops]
          /\ Reply(<<Packet("enabled", drops)>>)
       \/ Reply(<<Packet("failed", 0)>>) /\ UNCHANGED stream
    /\ UNCHANGED <<session, phase, held, sent, processed, pushed, seen, drops, early>>

\* The detached stream goes on here, and its stanzas after h are sent again.
ServeResume ==
    /\ Read("resume")
    /\ IF held # None /\ held.id = Head(c2s).id
       THEN /\ LET h   == Head(c2s).n
                   out == From(held.out, h - held.base)
               IN  /\ stream' = [held EXCEPT !.base = h, !.out = out]
                   /\ Reply(<<Packet("resumed", held.in)>> \o Pushes(out))
            /\ held' = None
       ELSE /\ Reply(<<Packet("failed", 0)>>)
            /\ UNCHANGED <<stream, held>>
    /\ UNCHANGED <<session, phase, sent, processed, pushed, seen, drops, early>>

\* Before a resource is bound a stanza is refused, and without stream
\* management there is nothing to acknowledge.
ServeStanza ==
    /\ Read("stanza")
    /\ LET in == IF stream.id # None THEN stream.in + 1 ELSE stream.in
       IN  /\ IF stream.bound
              THEN processed' = Append(processed, Head(c2s).n) /\ stream' = [stream EXCEPT !.in = in]
              ELSE UNCHANGED <<processed, stream>>
           /\ IF Head(c2s).asks /\ stream.id # None
              THEN Reply(<<Packet("a", in)>>)
              ELSE UNCHANGED s2c
    /\ UNCHANGED <<session, phase, held, sent, pushed, seen, drops, early>>

ServeAck ==
    /\ Read("a")
    /\ LET h == Head(c2s).n
       IN  stream' = [stream EXCEPT !.base = h,
                        !.out = From(@, h - stream.base)]
    /\ UNCHANGED <<session, phase, s2c, held, sent, processed, pushed, seen, drops, early>>

\* The server asks for an acknowledgement with every stanza.
Push ==
    /\ stream.id # None
    /\ pushed < MaxPushed
    /\ pushed' = pushed + 1
    /\ stream' = [stream EXCEPT !.out = Append(@, pushed')]
    /\ Reply(<<Packet("stanza", pushed'), Packet("r", 0)>>)
    /\ UNCHANGED <<session, phase, c2s, held, sent, processed, seen, drops, early>>

Forget ==
    /\ Forgets
    /\ held # None
    /\ held' = None
    /\ UNCHANGED <<session, phase, c2s, s2c, stream, sent, processed, pushed, seen, drops, early>>

-----------------------------------------------------------------------------
Init ==
    /\ session = Fresh
    /\ phase = "down"
    /\ c2s = <<>> /\ s2c = <<>>
    /\ stream = NewStream
    /\ held = None
    /\ sent = 0 /\ processed = <<>>
    /\ pushed = 0 /\ seen = <<>>
    /\ drops = 0
    /\ early = FALSE

Client ==
    \/ OnBound \/ OnEnabled \/ OnFailed \/ OnResumed
    \/ OnAck \/ OnRequest \/ OnStanza

Server == ServeBind \/ ServeEnable \/ ServeResume \/ ServeStanza \/ ServeAck

Next ==
    \/ Send \/ Connect \/ Client \/ Drop \/ Reload
    \/ Server \/ Push \/ Forget

Spec == Init /\ [][Next]_vars

\* The client reconnects and both sides read what they are sent.
FairSpec == Spec /\ WF_vars(Connect) /\ WF_vars(Client) /\ WF_vars(Server)

-----------------------------------------------------------------------------
(* Properties.                                                             *)

\* The session's counters and list; an enabled stream can be resumed.
TypeOK ==
    /\ session \in [enabled : BOOLEAN, id : Nat \cup {None}, handled : Nat, acked : Nat,
                    since : Nat, unacked : Seq(1 .. sent), resumed : BOOLEAN]
    /\ phase \in {"down", "resuming", "binding", "enabling", "online"}
    /\ processed \in Seq(1 .. sent) /\ seen \in Seq(1 .. pushed)
    /\ session.enabled => session.id # None

\* What the client stops keeping on an acknowledgement, the server has
\* handled; only giving the stream up (resetSessionData) forgets a stanza.
\* Except after an early stanza: one sent between <enable/> and <enabled/> is
\* counted by the server alone, so the next count cuts off a stanza too many.
AckedWereHandled ==
    [][~early => \A i \in DOMAIN session.unacked :
          LET n == session.unacked[i]
          IN  n \in Range(session'.unacked) \cup Range(processed) \/ ~session'.enabled]_vars

\* Sending again what was not acknowledged never makes the server handle a
\* stanza twice, nor out of order.  Except after an early stanza: one sent
\* behind <resume/> is sent again on <resumed/>.
HandledOnce == ~early => \A i, j \in DOMAIN processed : i < j => processed[i] < processed[j]

\* The client sees what the server pushes once and in order.
SeenOnce == \A i, j \in DOMAIN seen : i < j => seen[i] < seen[j]

\* An acknowledgement on its way into handleAck, and its count
AckComes == s2c # <<>> /\ Head(s2c).type \in {"a", "resumed"} /\ session.enabled
Count == Head(s2c).n

\* An acknowledgement counts no more than the client has sent and no less
\* than the last one did, the two cases handleAck logs as errors.  Except
\* after an early stanza: one sent between <enable/> and <enabled/> makes the
\* server count one more than onStanzaSent does.
AcksAddUp ==
    AckComes /\ ~early =>
        session.acked <= Count /\ Count <= session.acked + Len(session.unacked)

=============================================================================
