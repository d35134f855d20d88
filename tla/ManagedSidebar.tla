--------------------------- MODULE ManagedSidebar ---------------------------
(***************************************************************************)
(* One browser tab: plugins/rediff-new-chat/index.js keeps the managed     *)
(* groups of the account as bookmarks, plugins/rediff-groups/modal.js      *)
(* opens and exits them, headless/plugins/bookmarks opens and leaves the   *)
(* rooms.  auth_service says who belongs to which group; other members     *)
(* change that at any time.                                                *)
(*                                                                         *)
(* JavaScript runs one task at a time, and the promises a task resolves    *)
(* are continued before the next one: the actions of Continue come before  *)
(* those of Task.  A promise that was replaced at logout before it was     *)
(* resolved is never continued ("hung").                                   *)
(*                                                                         *)
(* Abstracted: the bookmarks of an account are the server's, the tab's     *)
(* collection once `ready`; names, nicks and the rendered list are left    *)
(* out; group and room are one.                                            *)
(***************************************************************************)
EXTENDS Naturals

CONSTANTS
    Accounts,   \* bare JIDs that share the tab
    Groups,     \* managed groups, each with its muc_jid
    Leftovers,  \* rooms that admit users who are no members (GroupService)
    Offered,     \* bound: what the user asks for, of Kinds
    None

Kinds == {"dialog", "sidebar", "exit"}  \* openGroup, openManaged, exitGroup

ASSUME SidebarAssumption ==
    Leftovers \subseteq Groups /\ Offered \subseteq Kinds /\ None \notin Accounts

VARIABLES
    member,    \* Accounts -> the groups auth_service lists
    bookmark,  \* Accounts -> Groups -> Marks
    account,   \* the account logged in, or None
    ready,     \* bookmarksInitialized: "no", "yes", or "failed" for good
    room,      \* Groups -> "closed", "open" (a chat box) or "entered"
    arriving,  \* rooms entered, 'enteredNewRoom' yet to be triggered
    leaving,   \* rooms closed, 'leaveRoom' yet to be triggered
    managed,   \* managedGroups
    sync,      \* the call of syncManagedGroupsToSidebar that is running
    removal,   \* groups that removeManagedGroupLocally waits to remove
    request,   \* the request of openGroup, openManaged or exitGroup
    due,       \* <<account, group>> that were members or let in (history)
    mixed      \* an answer to one account was used by another (history)

tab  == <<ready, room, arriving, leaving, managed, sync, removal, request>>
vars == <<member, bookmark, account, tab, due, mixed>>

Marks == {"none", "plain", "auto"}   \* bookmarks without and with autojoin

Idle == [pc |-> "idle", as |-> None, list |-> {}]
Rest == [pc |-> "idle", as |-> None, group |-> None, kind |-> None]

Online == account # None

\* Mutant: only the first sync after loading the page runs.
MaySyncOnce == Online /\ sync.pc = "idle" /\ managed = {}

\* isAuthenticatedSession holds and no sync is running
MaySync == Online /\ sync.pc = "idle"

Asked == [pc |-> "asked", as |-> account, list |-> {}]

-----------------------------------------------------------------------------
(* auth_service and ejabberd.                                              *)

ChangeMembers(a, g) ==
    /\ \/ member' = [member EXCEPT ![a] = @ \cup {g}]
       \/ member' = [member EXCEPT ![a] = @ \ {g}]
    /\ due' = due \cup {<<a, h>> : h \in member'[a]}
    \* the room throws out who lost the affiliation
    /\ room' = IF a = account /\ g \notin member'[a] /\ g \notin Leftovers /\ room[g] = "entered"
               THEN [room EXCEPT ![g] = "open"] ELSE room
    /\ UNCHANGED <<bookmark, account, ready, arriving, leaving, managed, sync,
                   removal, request, mixed>>

\* join's answer: the room lets in who is entitled; onRoomEntered then fetches
\* the members and the messages before it triggers 'enteredNewRoom'.
Enter(g) ==
    /\ Online
    /\ room[g] = "open"
    /\ g \in member[account] \cup Leftovers
    /\ room' = [room EXCEPT ![g] = "entered"]
    /\ arriving' = arriving \cup {g}
    /\ due' = due \cup {<<account, g>>}
    /\ UNCHANGED <<member, bookmark, account, ready, leaving, managed, sync, removal,
                   request, mixed>>

-----------------------------------------------------------------------------
(* The bookmarks plugin.                                                   *)

SetBookmark(g, mark) == bookmark' = [bookmark EXCEPT ![account][g] = mark]

\* 'enteredNewRoom' bookmarks the room, which may have been closed meanwhile;
\* if autojoin is new the room is opened (openBookmarkedRoom).
EnteredNewRoom(g) ==
    /\ ready = "yes"
    /\ g \in arriving
    /\ arriving' = arriving \ {g}
    /\ SetBookmark(g, "auto")
    /\ room' = IF bookmark[account][g] # "auto" /\ room[g] = "closed"
               THEN [room EXCEPT ![g] = "open"] ELSE room
    /\ UNCHANGED <<member, account, ready, leaving, managed, sync, removal, request, due, mixed>>

\* 'leaveRoom' takes autojoin from a bookmark that exists.
LeaveRoom(g) ==
    /\ ready = "yes"
    /\ g \in leaving
    /\ leaving' = leaving \ {g}
    /\ SetBookmark(g, IF bookmark[account][g] = "none" THEN "none" ELSE "plain")
    /\ UNCHANGED <<member, account, ready, room, arriving, managed, sync, removal, request,
                   due, mixed>>

Close(G) ==
    /\ room' = [g \in Groups |-> IF g \in G THEN "closed" ELSE room[g]]
    /\ leaving' = leaving \cup {g \in G : room[g] # "closed"}

\* The user closes a room.
CloseRoom(g) ==
    /\ Online
    /\ room[g] # "closed"
    /\ Close({g})
    /\ UNCHANGED <<member, bookmark, account, ready, arriving, managed, sync, removal,
                   request, due, mixed>>

\* Bookmarks.initialize: the bookmarks are fetched, and those with autojoin
\* open their rooms.
BookmarksInitialized ==
    /\ Online /\ ready = "no"
    /\ ready' = "yes"
    /\ room' = [g \in Groups |->
                  IF bookmark[account][g] = "auto" /\ room[g] = "closed" THEN "open" ELSE room[g]]
    /\ UNCHANGED <<member, bookmark, account, arriving, leaving, managed, sync, removal,
                   request, due, mixed>>

\* checkBookmarksSupport or onBookmarksReceivedError: never initialized.
BookmarksUnavailable ==
    /\ Online /\ ready = "no"
    /\ ready' = "failed"
    /\ UNCHANGED <<member, bookmark, account, room, arriving, leaving, managed, sync,
                   removal, request, due, mixed>>

-----------------------------------------------------------------------------
(* The session.                                                            *)

Login(a) ==
    /\ account = None
    /\ account' = a
    /\ UNCHANGED <<member, bookmark, tab, due, mixed>>

\* Mutant: rooms on their way are announced in the next session.
AbandonRemovals == removal' = {} /\ UNCHANGED <<arriving, leaving>>

\* What awaited an answer of the old connection, or an old promise.
Abandon == removal' = {} /\ arriving' = {} /\ leaving' = {}

\* finishDisconnection and logout: the chat boxes go, the promises are
\* replaced, and who waited for one that was not resolved waits for ever.
\* managedGroups and the requests on their way stay.
Logout ==
    /\ Online
    /\ account' = None
    /\ ready' = "no"
    /\ room' = [g \in Groups |-> "closed"]
    /\ Abandon
    /\ sync' = IF sync.pc = "marking" THEN [sync EXCEPT !.pc = "hung"] ELSE sync
    /\ UNCHANGED <<member, bookmark, managed, request, due, mixed>>

\* The page is loaded again, with the session restored or not; chat boxes of a
\* restored session are (onChatBoxesFetched).
Reload ==
    /\ account' \in {account, None}
    /\ ready' = "no"
    /\ room' = [g \in Groups |->
                  IF account' # None /\ room[g] # "closed" THEN "open" ELSE "closed"]
    /\ Abandon
    /\ managed' = {} /\ sync' = Idle /\ request' = Rest
    /\ UNCHANGED <<member, bookmark, due, mixed>>

-----------------------------------------------------------------------------
(* syncManagedGroupsToSidebar.                                             *)

\* The interval, the timers after connecting, focus and visibilitychange.
StartSync ==
    /\ MaySync
    /\ sync' = Asked
    /\ UNCHANGED <<member, bookmark, account, ready, room, arriving, leaving, managed,
                   removal, request, due, mixed>>

\* GET /groups, as the account that asked
ListGroups ==
    /\ sync.pc = "asked"
    /\ sync' = [sync EXCEPT !.pc = "listed", !.list = member[sync.as]]
    /\ UNCHANGED <<member, bookmark, account, ready, room, arriving, leaving, managed,
                   removal, request, due, mixed>>

\* No token, an error status or no answer at all.
NoList ==
    /\ sync.pc = "asked"
    /\ sync' = Idle
    /\ UNCHANGED <<member, bookmark, account, ready, room, arriving, leaving, managed,
                   removal, request, due, mixed>>

\* Mutant: only groups whose room is open are removed.
GoneOpen(list) == {g \in managed \ list : room[g] # "closed"}

\* previousGroups that are not among the current ones
Gone(list) == managed \ list

\* The answer replaces managedGroups, whichever account is logged in now.
UseList ==
    /\ sync.pc = "listed"
    /\ managed' = sync.list
    /\ removal' = removal \cup Gone(sync.list)
    /\ sync' = [sync EXCEPT !.pc = "marking"]
    /\ mixed' = (mixed \/ sync.as # account)
    /\ UNCHANGED <<member, bookmark, account, ready, room, arriving, leaving, request, due>>

\* autojoin: Boolean(existing?.get('autojoin'))
Kept(mark) == IF mark = "auto" THEN "auto" ELSE "plain"

\* The loop over managedGroups, once api.bookmarks.get resolves.
MarkGroups ==
    /\ ready = "yes"
    /\ sync.pc = "marking"
    /\ bookmark' = [bookmark EXCEPT ![account] =
                      [g \in Groups |-> IF g \in sync.list THEN Kept(@[g]) ELSE @[g]]]
    /\ sync' = Idle
    /\ UNCHANGED <<member, account, ready, room, arriving, leaving, managed, removal,
                   request, due, mixed>>

\* removeManagedGroupLocally; destroying the bookmark closes the room as well.
RemoveLocally(g) ==
    /\ ready = "yes"
    /\ g \in removal
    /\ removal' = removal \ {g}
    /\ SetBookmark(g, "none")
    /\ Close({g})
    /\ UNCHANGED <<member, account, ready, arriving, managed, sync, request, due, mixed>>

-----------------------------------------------------------------------------
(* The Groups dialog and the sidebar's entry: one request at a time.       *)

Ask(kind, g) ==
    /\ Online
    /\ request.pc = "idle"
    /\ kind = "sidebar" => g \in managed
    /\ request' = [pc |-> "asked", as |-> account, group |-> g, kind |-> kind]
    /\ UNCHANGED <<member, bookmark, account, ready, room, arriving, leaving, managed, sync,
                   removal, due, mixed>>

\* Mutant: the dialog, too, goes on when it is refused.
ServeJoinAlways ==
    /\ request.pc = "asked" /\ request.kind # "exit"
    /\ request' = [request EXCEPT !.pc = "answered"]
    /\ UNCHANGED <<member, bookmark, account, ready, room, arriving, leaving, managed, sync,
                   removal, due, mixed>>

\* POST join: granted to members; the sidebar goes on when it is refused.
ServeJoin ==
    /\ request.pc = "asked" /\ request.kind # "exit"
    /\ request' = IF request.group \in member[request.as] \/ request.kind = "sidebar"
                  THEN [request EXCEPT !.pc = "answered"] ELSE Rest
    /\ UNCHANGED <<member, bookmark, account, ready, room, arriving, leaving, managed, sync,
                   removal, due, mixed>>

\* DELETE: the owner is refused.
ServeExit ==
    /\ request.pc = "asked" /\ request.kind = "exit"
    /\ \/ /\ member' = [member EXCEPT ![request.as] = @ \ {request.group}]
          /\ request' = [request EXCEPT !.pc = "answered"]
       \/ /\ request' = Rest
          /\ UNCHANGED member
    /\ UNCHANGED <<bookmark, account, ready, room, arriving, leaving, managed, sync,
                   removal, due, mixed>>

\* openGroup bookmarks with autojoin and opens the room; the sidebar's entry
\* opens it.  refreshManagedSidebar starts a sync if none is running.
OpenRoom ==
    /\ ready = "yes"
    /\ request.pc = "answered" /\ request.kind # "exit"
    /\ IF request.kind = "dialog" THEN SetBookmark(request.group, "auto") ELSE UNCHANGED bookmark
    /\ room' = [room EXCEPT ![request.group] = IF @ = "closed" THEN "open" ELSE @]
    /\ sync' = IF request.kind = "dialog" /\ MaySync THEN Asked ELSE sync
    /\ mixed' = (mixed \/ request.as # account)
    /\ request' = Rest
    /\ UNCHANGED <<member, account, ready, arriving, leaving, managed, removal, due>>

\* exitGroup, once the server has deleted the member
Exited ==
    /\ ready = "yes"
    /\ request.pc = "answered" /\ request.kind = "exit"
    /\ SetBookmark(request.group, "none")
    /\ Close({request.group})
    /\ sync' = IF MaySync THEN Asked ELSE sync
    /\ mixed' = (mixed \/ request.as # account)
    /\ request' = Rest
    /\ UNCHANGED <<member, account, ready, arriving, managed, removal, due>>

-----------------------------------------------------------------------------
Init ==
    /\ member \in [Accounts -> SUBSET Groups]
    /\ bookmark = [a \in Accounts |-> [g \in Groups |-> "none"]]
    /\ account = None /\ ready = "no"
    /\ room = [g \in Groups |-> "closed"]
    /\ arriving = {} /\ leaving = {} /\ removal = {}
    /\ managed = {} /\ sync = Idle /\ request = Rest
    /\ due = UNION {{a} \X member[a] : a \in Accounts}
    /\ mixed = FALSE

Continue == MarkGroups \/ \E g \in Groups : RemoveLocally(g)

\* No promise that is resolved waits to be continued.
Settled == ready = "yes" => sync.pc # "marking" /\ removal = {}

User ==
    \/ Logout \/ Reload
    \/ \E a \in Accounts : Login(a)
    \/ \E g \in Groups : CloseRoom(g) \/ \E kind \in Offered : Ask(kind, g)

Answers ==
    \/ BookmarksInitialized \/ BookmarksUnavailable
    \/ ListGroups \/ NoList \/ UseList
    \/ ServeJoin \/ ServeExit \/ OpenRoom \/ Exited
    \/ \E g \in Groups : Enter(g) \/ EnteredNewRoom(g) \/ LeaveRoom(g)

Task == StartSync \/ User \/ Answers \/ \E a \in Accounts, g \in Groups : ChangeMembers(a, g)

Next == Continue \/ (Settled /\ Task)

Spec == Init /\ [][Next]_vars

\* The interval goes on for ever; a server that is asked again and again
\* answers some time; promises that are resolved are continued.
FairSpec ==
    /\ Spec
    /\ WF_vars(Continue) /\ WF_vars(StartSync) /\ WF_vars(UseList)
    /\ SF_vars(ListGroups)

-----------------------------------------------------------------------------
TypeOK ==
    /\ member \in [Accounts -> SUBSET Groups]
    /\ bookmark \in [Accounts -> [Groups -> Marks]]
    /\ account \in Accounts \cup {None}
    /\ ready \in {"no", "yes", "failed"}
    /\ room \in [Groups -> {"closed", "open", "entered"}]
    /\ arriving \subseteq Groups /\ leaving \subseteq Groups /\ removal \subseteq Groups
    /\ managed \subseteq Groups
    /\ sync.pc \in {"idle", "asked", "listed", "marking", "hung"}
    /\ sync \in [pc : {sync.pc}, as : Accounts \cup {None}, list : SUBSET Groups]
    /\ request.pc \in {"idle", "asked", "answered"}
    /\ request \in [pc : {request.pc}, as : Accounts \cup {None}, group : Groups \cup {None},
                    kind : Kinds \cup {None}]
    /\ due \subseteq Accounts \X Groups
    /\ mixed \in BOOLEAN
    /\ ~Online => ready = "no" /\ arriving = {} /\ leaving = {}

\* The sync, the dialog and the bookmarks plugin write bookmarks for groups the
\* account belonged to or was let into only, unless an answer one account asked
\* for arrived when another was logged in (syncManagedGroupsToSidebar, openGroup).
BookmarksWereDue ==
    mixed \/ \A a \in Accounts, g \in Groups : bookmark[a][g] # "none" => <<a, g>> \in due

\* What the next sync, or a step under way, looks at: syncManagedGroupsToSidebar
\* finds a group that was lost by its presence in managedGroups.
Tracked(g) ==
    \/ g \in managed \cup removal
    \/ sync.pc = "listed" /\ g \in sync.list

\* The bookmark of a lost group that nothing will remove.
Stray(g) ==
    /\ ready = "yes"
    /\ bookmark[account][g] # "none"
    /\ g \notin member[account]
    /\ ~Tracked(g)

\* A bookmark the sync looks after does not slip out of its sight when the group
\* is lost: neither a stale list, an exit nor an answer that fails forgets it
\* before it is removed (previousGroups, removeManagedGroupLocally).
LossesStayTracked == [][\A g \in Groups : Tracked(g) => ~Stray(g)']_vars

\* A group of the sidebar that the account is removed from, by whomever, loses
\* its bookmark and its room (syncManagedGroupsToSidebar, every 30 seconds), while
\* the page and the session last; but for a sync left hanging by a logout.
LossNoticed ==
    \A a \in Accounts, g \in Groups :
        (account = a /\ ready = "yes" /\ g \in managed /\ g \notin member[a])
            ~> \/ bookmark[a][g] = "none" /\ room[g] = "closed"
               \/ g \in member[a]
               \/ ready = "no" \/ sync.pc = "hung"
=============================================================================
