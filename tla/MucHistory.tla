----------------------------- MODULE MucHistory -----------------------------
(***************************************************************************)
(* A room's messages in the client: shared/model-with-messages.js (the     *)
(* queue, duplicates, retractions) and plugins/mam (pages of the archive,  *)
(* gaps), fed by the live messages of a room that is entered and left.     *)
(*                                                                         *)
(* Abstracted: a message is its number in the archive, which is also its   *)
(* archive id and its time (the clocks of client and server agree); a      *)
(* retraction is by the sender and names its message by an id the code     *)
(* looks for.  Left out: corrections, reactions and moderation, unread     *)
(* counters, chat states, own messages before they are reflected.  The     *)
(* archive is asked for one page at a time (mam_request_all_pages is off,  *)
(* as by default).  An entry into the room that begins while an earlier    *)
(* one awaits the lists of members goes on with it.                        *)
(***************************************************************************)
EXTENDS Naturals, Sequences, SequencesExt

CONSTANTS
    MaxPosted,  \* bound: messages in the archive
    PageSize,   \* archived_messages_page_size
    Bare,       \* messages whose retraction does not name them by an origin id:
                \* they have none, or it names the message id
    MaxFaults   \* bound: drops, kicks, reloads, failed and late answers together

ASSUME HistoryAssumption == MaxPosted \in Nat /\ PageSize \in Nat \ {0} /\ MaxFaults \in Nat

VARIABLES
    archive,   \* the room's archive: of each message, what it retracts or 0
    inside,    \* the room has the client as an occupant
    up,        \* connected
    toServer,  \* the join and the queries on their way to the room
    toClient,  \* what the room sends
    status,    \* "out", "joining" or "in"
    entering,  \* onRoomEntered awaits the lists of members
    loaded,    \* messages.fetched: the stored messages are loaded
    cache,     \* messages: entries in the order of the collection
    queue,     \* msg_chain: messages to be handled
    holes,     \* placeholders: not stored
    queries,   \* queries whose answer is awaited
    retries,   \* queries that an error message offers to repeat
    faults,    \* faults so far
    since,     \* last message known when the room was last joined (history)
    unmarked,  \* a gap was lost in a way the code does not notice (history)
    disordered \* a message took the place of its retraction (history)

room    == <<archive, inside>>
net     == <<up, toServer, toClient>>
entry   == <<status, entering, loaded>>
store   == <<cache, queue>>
gaps    == <<holes, queries, retries>>
history == <<since, unmarked, disordered>>
vars    == <<room, net, entry, store, gaps, faults, history>>

Texts == {i \in 1..Len(archive) : archive[i] = 0}

Cached == {cache[k].id : k \in 1..Len(cache)}

\* getMostRecentMessage, as the `start` of a query; 0 when there is none
MostRecent == IF cache = <<>> THEN 0 ELSE Last(cache).id

Known == Cached \cup ToSet(queue)

Fault == faults < MaxFaults /\ faults' = faults + 1

-----------------------------------------------------------------------------
(* The room and its archive.                                               *)

Post(retracts) ==
    /\ Len(archive) < MaxPosted
    /\ archive' = Append(archive, retracts)
    /\ toClient' = IF inside THEN Append(toClient, [kind |-> "live", id |-> Len(archive) + 1]) ELSE toClient
    /\ UNCHANGED <<inside, up, toServer, entry, store, gaps, faults, history>>

Arrives(s) == up /\ toServer # <<>> /\ Head(toServer) = s /\ toServer' = Tail(toServer)

Admit ==
    /\ Arrives([kind |-> "join"])
    /\ inside' = TRUE
    /\ toClient' = Append(toClient, [kind |-> "self"])
    /\ UNCHANGED <<archive, up, entry, store, gaps, faults, history>>

\* The messages that match are those from First(q) to Final(q).
First(q) == IF q.start = 0 THEN 1 ELSE q.start

Final(q) == IF q.before = 0 THEN Len(archive) ELSE q.before - 1

Complete(q) == Final(q) < First(q) + PageSize

\* The last messages that match, oldest first.
Page(q) ==
    LET size == IF Final(q) < First(q) THEN 0
                ELSE IF Complete(q) THEN Final(q) - First(q) + 1 ELSE PageSize
    IN  [k \in 1..size |-> Final(q) - size + k]

AnswerQuery(q) ==
    /\ Arrives([kind |-> "query", query |-> q])
    /\ toClient' = Append(toClient, [kind |-> "page", query |-> q, ids |-> Page(q),
                                     complete |-> Complete(q)])
    /\ UNCHANGED <<room, up, entry, store, gaps, faults, history>>

AnswerLate ==
    /\ Arrives([kind |-> "late"])
    /\ toClient' = Append(toClient, [kind |-> "late"])
    /\ UNCHANGED <<room, up, entry, store, gaps, faults, history>>

FailQuery(q) ==
    /\ Arrives([kind |-> "query", query |-> q])
    /\ Fault
    /\ toClient' = Append(toClient, [kind |-> "error", query |-> q])
    /\ UNCHANGED <<room, up, entry, store, gaps, history>>

Kick ==
    /\ inside
    /\ Fault
    /\ inside' = FALSE
    /\ toClient' = Append(toClient, [kind |-> "kicked"])
    /\ UNCHANGED <<archive, up, toServer, entry, store, gaps, history>>

-----------------------------------------------------------------------------
(* Joining.                                                                *)

\* fetchArchivedMessages: a query of a kind is not under way twice (a bound).
Ask(sent, q) ==
    /\ q \notin queries
    /\ toServer' = Append(sent, [kind |-> "query", query |-> q])
    /\ queries' = queries \cup {q}

\* fetchNewestMessages
Newest(start, why) == [before |-> 0, start |-> start, why |-> why]

Joins == Append(toServer, [kind |-> "join"])

\* A message came after the join, and the archive has not been asked.
Raced == \E i \in Known : i > since

\* The last message known, or what was known when the entry began that has yet to
\* ask the archive.
LastKnown == IF entering /\ since < Max(Known \cup {0}) THEN since ELSE Max(Known \cup {0})

\* A room that was left is shown, or pings itself in vain: rejoin().
Show ==
    /\ up /\ status = "out"
    /\ status' = "joining"
    /\ toServer' = Joins
    /\ since' = LastKnown
    /\ UNCHANGED <<room, up, toClient, entering, loaded, store, gaps, faults, unmarked, disordered>>

\* onReconnection: rejoin(), then 'chatReconnected', upon which the archive is
\* asked before anything of the room can have come; there are no messages to start
\* from before the stored ones are loaded.
Return ==
    /\ ~up
    /\ up' = TRUE
    /\ status' = "joining"
    /\ Ask(Joins, Newest(IF loaded THEN MostRecent ELSE 0, "reconnected"))
    /\ since' = MaxPosted
    /\ unmarked' = (unmarked \/ (entering /\ loaded /\ Raced))
    /\ UNCHANGED <<room, toClient, entering, loaded, store, holes, retries, faults, disordered>>

Got(kind) == up /\ toClient # <<>> /\ Head(toClient).kind = kind /\ toClient' = Tail(toClient)

OnSelf ==
    /\ Got("self")
    /\ status' = "in"
    /\ entering' = TRUE
    /\ UNCHANGED <<room, up, toServer, loaded, store, gaps, faults, history>>

OnKicked ==
    /\ Got("kicked")
    /\ status' = "out"
    /\ UNCHANGED <<room, up, toServer, entering, loaded, store, gaps, faults, history>>

\* createScrollupPlaceholder
ScrollUp == IF cache = <<>> THEN {} ELSE {[before |-> Head(cache).id, start |-> 0]}

\* onRoomEntered goes on: the first time it loads the stored messages, and
\* 'enteredNewRoom' asks the archive, if there is still a connection.
EnterRoom ==
    /\ entering
    /\ entering' = FALSE
    /\ loaded' = TRUE
    /\ holes' = IF loaded THEN holes ELSE holes \cup ScrollUp
    /\ unmarked' = (unmarked \/ (Raced /\ (loaded \/ ~up)))
    /\ IF up THEN Ask(toServer, Newest(MostRecent, "entered")) ELSE UNCHANGED <<toServer, queries>>
    /\ UNCHANGED <<room, up, toClient, status, store, retries, faults, since, disordered>>

-----------------------------------------------------------------------------
(* Messages.                                                               *)

OnLive ==
    /\ Got("live")
    /\ queue' = Append(queue, Head(toClient).id)
    /\ UNCHANGED <<room, up, toServer, entry, cache, gaps, faults, history>>

\* Mutant: a message that is there already is added.
NeverDuplicate(i) == FALSE

\* getDuplicateMessage
Duplicate(i) == i \in Cached

Holding(i) == {k \in 1..Len(cache) : cache[k].id = i}

\* Mutant: a retraction that came first is not looked for.
NoDangling(i) == {}

\* findDanglingRetraction, by the origin id alone
Dangling(i) == {k \in 1..Len(cache) : cache[k].state = "dangling" /\ archive[cache[k].id] = i /\ i \notin Bare}

\* The collection in the order of its comparator, the time.
Sorted(entries) ==
    LET places == DOMAIN entries
        order  == CHOOSE p \in Bijection(places, places) :
                      \A k, l \in places : k < l => entries[p[k]].id <= entries[p[l]].id
    IN  [k \in places |-> entries[order[k]]]

\* Mutant: a retraction without its message is stored as a message.
AddedPlain(i, state) ==
    Sorted(Append(cache, [id |-> i, state |-> "plain"]))

\* Adding sorts the collection by time; a change of an entry does not.
Added(i, state) ==
    Sorted(Append(cache, [id |-> i, state |-> state]))

\* onMessage; a retraction that finds its message is not stored, and a message
\* that finds its retraction takes its entry (handleRetraction).  It looks for one
\* if the last entry is newer, be it a message, or an info or error of later time.
HandleMessage ==
    /\ loaded /\ queue # <<>>
    /\ queue' = Tail(queue)
    /\ \E newer \in {MostRecent > Head(queue), TRUE} :
       LET i       == Head(queue)
           target  == Holding(archive[i])
           waiting == IF newer THEN Dangling(i) ELSE {}
       IN  \/ Duplicate(i) /\ UNCHANGED <<cache, disordered>>
           \/ /\ ~Duplicate(i) /\ archive[i] # 0
              /\ \/ target = {} /\ cache' = Added(i, "dangling")
                 \/ \E k \in target : cache' = [cache EXCEPT ![k].state = "retracted"]
              /\ UNCHANGED disordered
           \/ /\ ~Duplicate(i) /\ archive[i] = 0
              /\ \/ waiting = {} /\ cache' = Added(i, "plain")
                 \/ \E k \in waiting : cache' = [cache EXCEPT ![k] = [id |-> i, state |-> "retracted"]]
              /\ disordered' = (disordered \/ waiting # {})
    /\ UNCHANGED <<room, net, entry, gaps, faults, since, unmarked>>

-----------------------------------------------------------------------------
(* Pages and gaps.                                                         *)

\* fetchMissingMessages destroys its placeholder whatever came of the query.
Filled(q) == IF q.why = "gap" THEN {[before |-> q.before, start |-> q.start]} ELSE {}

\* Mutant: no placeholder when the page is not complete.
NoGapBelow(page) == {}

\* createGapPlaceholder
GapBelow(page) ==
    IF page.complete \/ page.ids = <<>> THEN {}
    ELSE {[before |-> Head(page.ids), start |-> page.query.start]}

OnPage ==
    /\ Got("page")
    /\ LET page == Head(toClient)
       IN  /\ queue' = queue \o page.ids
           /\ queries' = queries \ {page.query}
           /\ holes' = (holes \ Filled(page.query)) \cup GapBelow(page)
    /\ UNCHANGED <<room, up, toServer, entry, cache, retries, faults, history>>

\* An error: only a timeout has a message that offers to try again.
OnError ==
    /\ Got("error")
    /\ LET q == Head(toClient).query
       IN  /\ queries' = queries \ {q}
           /\ holes' = holes \ Filled(q)
    /\ unmarked' = TRUE
    /\ UNCHANGED <<room, up, toServer, entry, store, retries, faults, since, disordered>>

\* Nothing waits for an answer that comes after the timeout.
OnLate ==
    /\ Got("late")
    /\ UNCHANGED <<room, up, toServer, entry, store, gaps, faults, history>>

\* The query and its answer are known by an id that nobody awaits any more.
Outdated(s, q) ==
    [k \in 1..Len(s) |->
        IF s[k].kind \in {"query", "page", "error"} /\ s[k].query = q THEN [kind |-> "late"] ELSE s[k]]

\* No answer in message_archiving_timeout; some of the page may have come.
TimeOut(q) ==
    /\ q \in queries
    /\ \/ up /\ Fault
       \/ ~up /\ UNCHANGED faults
    /\ queries' = queries \ {q}
    /\ holes' = holes \ Filled(q)
    /\ retries' = retries \cup {[q EXCEPT !.why = "retry"]}
    /\ \E n \in 0..Len(Page(q)) : queue' = queue \o SubSeq(Page(q), 1, n)
    /\ toServer' = Outdated(toServer, q) /\ toClient' = Outdated(toClient, q)
    /\ UNCHANGED <<room, up, entry, cache, history>>

Retry(q) ==
    /\ q \in retries
    /\ retries' = retries \ {q}
    /\ IF up THEN Ask(toServer, q) /\ UNCHANGED unmarked
       ELSE unmarked' = TRUE /\ UNCHANGED <<toServer, queries>>
    /\ UNCHANGED <<room, up, toClient, entry, store, holes, faults, since, disordered>>

\* The error message goes away after 20 seconds.
Expire(q) ==
    /\ q \in retries
    /\ retries' = retries \ {q}
    /\ unmarked' = TRUE
    /\ UNCHANGED <<room, net, entry, store, holes, queries, faults, since, disordered>>

\* A placeholder is seen: it asks for the page before it; without a connection
\* fetchArchivedMessages returns, and the placeholder is destroyed.
FillGap(h) ==
    /\ h \in holes
    /\ LET q == [before |-> h.before, start |-> h.start, why |-> "gap"]
       IN  \/ up /\ Ask(toServer, q) /\ UNCHANGED <<holes, unmarked>>
           \/ ~up /\ q \notin queries /\ holes' = holes \ {h} /\ unmarked' = TRUE /\ UNCHANGED <<toServer, queries>>
    /\ UNCHANGED <<room, up, toClient, entry, store, retries, faults, since, disordered>>

-----------------------------------------------------------------------------
(* Faults.                                                                 *)

\* The connection drops and its stream cannot be resumed.
Drop ==
    /\ up /\ Fault
    /\ up' = FALSE
    /\ inside' = FALSE
    /\ status' = "out"
    /\ toServer' = <<>> /\ toClient' = <<>>
    /\ UNCHANGED <<archive, entering, loaded, store, gaps, history>>

\* The page is loaded again: the stored messages stay, what only memory held is
\* gone, but for the placeholder on top.
Reload ==
    /\ Fault
    /\ inside' = FALSE /\ up' = TRUE /\ toServer' = <<[kind |-> "join"]>> /\ toClient' = <<>>
    /\ status' = "joining" /\ entering' = FALSE /\ loaded' = FALSE
    /\ cache' = Sorted(cache)
    /\ queue' = <<>> /\ holes' = {} /\ queries' = {} /\ retries' = {}
    /\ unmarked' = \/ unmarked
                   \/ (entering /\ Raced) \/ queue # <<>> \/ queries # {} \/ retries # {}
                   \/ \E h \in holes : \E i \in Cached : i < h.before
    /\ since' = Max(Cached \cup {0})
    /\ UNCHANGED <<archive, disordered>>

-----------------------------------------------------------------------------
Init ==
    /\ archive = <<>> /\ inside = FALSE
    /\ up = TRUE /\ toServer = <<>> /\ toClient = <<>>
    /\ status = "out" /\ entering = FALSE /\ loaded = FALSE
    /\ cache = <<>> /\ queue = <<>>
    /\ holes = {} /\ queries = {} /\ retries = {}
    /\ faults = 0 /\ since = 0 /\ unmarked = FALSE /\ disordered = FALSE

Unretracted == {i \in Texts : \A j \in 1..Len(archive) : archive[j] # i}

World ==
    \/ \E t \in Unretracted \cup {0} : Post(t)
    \/ Kick \/ Drop \/ Reload

Room == Admit \/ AnswerLate \/ \E s \in ToSet(toServer) : s.kind = "query" /\ (AnswerQuery(s.query) \/ FailQuery(s.query))

Client ==
    \/ Show \/ Return \/ OnSelf \/ OnKicked \/ EnterRoom \/ OnLive \/ HandleMessage \/ OnPage \/ OnError \/ OnLate
    \/ \E q \in queries : TimeOut(q)
    \/ \E q \in retries : Retry(q) \/ Expire(q)
    \/ \E h \in holes : FillGap(h)

Next == World \/ Room \/ Client

Spec == Init /\ [][Next]_vars

-----------------------------------------------------------------------------
TypeOK ==
    /\ archive \in Seq(Nat) /\ Len(archive) <= MaxPosted
    /\ inside \in BOOLEAN /\ up \in BOOLEAN /\ entering \in BOOLEAN /\ loaded \in BOOLEAN
    /\ status \in {"out", "joining", "in"}
    /\ \A k \in 1..Len(cache) :
           /\ cache[k].id \in 1..Len(archive)
           /\ cache[k].state \in IF archive[cache[k].id] = 0 THEN {"plain", "retracted"} ELSE {"dangling"}
    /\ ToSet(queue) \subseteq 1..Len(archive)
    /\ \A h \in holes : h.before \in 1..Len(archive) /\ h.start \in 0..Len(archive)
    /\ \A q \in queries \cup retries : q.before \in 0..Len(archive) /\ q.start \in 0..Len(archive)
    /\ faults \in 0..MaxFaults /\ since \in 0..MaxPosted
    /\ unmarked \in BOOLEAN /\ disordered \in BOOLEAN

Quiet == up /\ status = "in" /\ ~entering /\ toClient = <<>> /\ queries = {} /\ queue = <<>>

Covers(h, i) == h.start <= i /\ (h.before = 0 \/ i < h.before)

\* A message of the archive that the client has not got is where a placeholder or
\* an error message offers to fetch it, whatever was missed while away, however
\* pages, live messages and leaving cross (fetchNewestMessages,
\* createGapPlaceholder), unless a gap was lost: with a page reload, a failed
\* query, a placeholder seen offline, or a message handled between entering and
\* asking the archive.
GapsAreMarked ==
    Quiet => \A i \in Texts : i \in Cached \/ unmarked \/ \E h \in holes \cup retries : Covers(h, i)

\* A message is stored once, though live messages, pages that overlap, and
\* repeated queries bring it several times (getDuplicateMessage, msg_chain).
NoDuplicates == \A k, l \in 1..Len(cache) : cache[k].id = cache[l].id => k = l

\* A retraction does not wait beside its message, in whatever order the pages
\* brought the two (handleRetraction), until the collection is out of order, or
\* unless it names the message by another id than the origin id.
RetractionFound ==
    \A k, l \in 1..Len(cache) :
        cache[k].state = "dangling" /\ cache[l].id = archive[cache[k].id] => disordered \/ cache[l].id \in Bare
=============================================================================
