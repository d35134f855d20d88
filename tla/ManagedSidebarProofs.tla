------------------------ MODULE ManagedSidebarProofs ------------------------
(* Theorems about ManagedSidebar for every set of accounts and of groups.    *)
EXTENDS ManagedSidebar, TLAPS

USE SidebarAssumption

\* A call under way belongs to an account, a request to a group as well.
SomebodyAsked ==
    /\ sync.pc # "idle" => sync.as \in Accounts
    /\ request.pc # "idle" => request.as \in Accounts /\ request.group \in Groups

IType == TypeOK /\ SomebodyAsked

-----------------------------------------------------------------------------
LEMMA TypeInit == Init => IType
  <1> SUFFICES ASSUME Init PROVE IType
    OBVIOUS
  <1>1. due \subseteq Accounts \X Groups
    BY DEF Init
  <1>2. sync = Idle /\ request = Rest /\ account = None
    BY DEF Init
  <1>3. /\ sync \in [pc : {sync.pc}, as : Accounts \cup {None}, list : SUBSET Groups]
        /\ request \in [pc : {request.pc}, as : Accounts \cup {None}, group : Groups \cup {None},
                        kind : Kinds \cup {None}]
        /\ sync.pc = "idle" /\ request.pc = "idle"
    BY <1>2 DEF Idle, Rest
  <1>4. /\ bookmark \in [Accounts -> [Groups -> Marks]]
        /\ member \in [Accounts -> SUBSET Groups]
        /\ room \in [Groups -> {"closed", "open", "entered"}]
    BY DEF Init, Marks
  <1>5. QED
    BY <1>1, <1>2, <1>3, <1>4 DEF Init, IType, TypeOK, SomebodyAsked, Online

\* The steps of auth_service and of the bookmarks plugin keep the types.
LEMMA TypeStepRooms ==
  ASSUME IType, NEW g \in Groups,
         \/ \E a \in Accounts : ChangeMembers(a, g)
         \/ Enter(g) \/ EnteredNewRoom(g) \/ LeaveRoom(g) \/ CloseRoom(g)
         \/ RemoveLocally(g)
  PROVE  IType'
  <1> USE DEF IType, TypeOK, SomebodyAsked
  <1>1. ASSUME NEW a \in Accounts, ChangeMembers(a, g) PROVE IType'
    BY <1>1 DEF ChangeMembers, Online
  <1>2. CASE Enter(g)
    BY <1>2 DEF Enter, Online
  <1>3. CASE EnteredNewRoom(g)
    BY <1>3 DEF EnteredNewRoom, SetBookmark, Online, Marks
  <1>4. CASE LeaveRoom(g)
    BY <1>4 DEF LeaveRoom, SetBookmark, Online, Marks
  <1>5. CASE CloseRoom(g)
    BY <1>5 DEF CloseRoom, Close, Online
  <1>6. CASE RemoveLocally(g)
    BY <1>6 DEF RemoveLocally, SetBookmark, Close, Online, Marks
  <1>7. QED
    BY <1>1, <1>2, <1>3, <1>4, <1>5, <1>6

\* The steps of the session keep the types.
LEMMA TypeStepSession ==
  ASSUME IType, Logout \/ Reload \/ (\E a \in Accounts : Login(a))
  PROVE  IType'
  <1> USE DEF IType, TypeOK, SomebodyAsked
  <1>1. CASE Logout
    BY <1>1 DEF Logout, Abandon, Online
  <1>2. CASE Reload
    BY <1>2 DEF Reload, Abandon, Idle, Rest, Online
  <1>3. ASSUME NEW a \in Accounts, Login(a) PROVE IType'
    BY <1>3 DEF Login, tab, Online
  <1>4. QED
    BY <1>1, <1>2, <1>3

\* The steps of the sync and of the dialog keep the types.
LEMMA TypeStepCalls ==
  ASSUME IType,
         \/ BookmarksInitialized \/ BookmarksUnavailable
         \/ StartSync \/ ListGroups \/ NoList \/ UseList \/ MarkGroups
         \/ (\E g \in Groups, kind \in Offered : Ask(kind, g))
         \/ ServeJoin \/ ServeExit \/ OpenRoom \/ Exited
  PROVE  IType'
  <1> USE DEF IType, TypeOK, SomebodyAsked
  <1>1. CASE StartSync
    BY <1>1 DEF StartSync, MaySync, Asked, Online
  <1>2. CASE ListGroups
    BY <1>2 DEF ListGroups, Online
  <1>3. CASE NoList
    BY <1>3 DEF NoList, Idle, Online
  <1>4. CASE UseList
    BY <1>4 DEF UseList, Gone, Online
  <1>5. CASE MarkGroups
    BY <1>5 DEF MarkGroups, Kept, Idle, Marks, Online
  <1>6. ASSUME NEW g \in Groups, NEW kind \in Offered, Ask(kind, g)
        PROVE  IType'
    BY <1>6 DEF Ask, Online
  <1>7. CASE ServeJoin
    BY <1>7 DEF ServeJoin, Rest, Online
  <1>8. CASE ServeExit
    <2>1. member' \in [Accounts -> SUBSET Groups]
      BY <1>8 DEF ServeExit
    <2>2. request' = Rest \/ request' = [request EXCEPT !.pc = "answered"]
      BY <1>8 DEF ServeExit
    <2>3. QED
      BY <1>8, <2>1, <2>2 DEF ServeExit, Rest, Online
  <1>9. CASE OpenRoom
    <2>1. sync' = sync \/ sync' = [pc |-> "asked", as |-> account, list |-> {}]
      BY <1>9 DEF OpenRoom, Asked
    <2>2. bookmark' \in [Accounts -> [Groups -> Marks]] /\ account \in Accounts
      <3>1. account \in Accounts /\ request.group \in Groups
        BY <1>9 DEF OpenRoom, Online
      <3>2. bookmark' = bookmark
              \/ bookmark' = [bookmark EXCEPT ![account][request.group] = "auto"]
        BY <1>9 DEF OpenRoom, SetBookmark
      <3>3. QED
        BY <3>1, <3>2 DEF Marks
    <2>3. room' \in [Groups -> {"closed", "open", "entered"}]
      BY <1>9 DEF OpenRoom
    <2>4. QED
      BY <1>9, <2>1, <2>2, <2>3 DEF OpenRoom, Rest, Online
  <1>10. CASE Exited
    BY <1>10 DEF Exited, SetBookmark, Close, MaySync, Asked, Rest, Marks, Online
  <1>11. CASE BookmarksInitialized \/ BookmarksUnavailable
    BY <1>11 DEF BookmarksInitialized, BookmarksUnavailable, Online
  <1>12. QED
    BY <1>1, <1>2, <1>3, <1>4, <1>5, <1>6, <1>7, <1>8, <1>9, <1>10, <1>11

LEMMA TypeStep == IType /\ [Next]_vars => IType'
  <1> SUFFICES ASSUME IType, [Next]_vars PROVE IType'
    OBVIOUS
  <1>1. CASE Next
    BY <1>1, TypeStepRooms, TypeStepSession, TypeStepCalls
    DEF Next, Continue, Task, User, Answers
  <1>2. CASE UNCHANGED vars
    BY <1>2 DEF vars, tab, IType, TypeOK, SomebodyAsked, Online
  <1>3. QED
    BY <1>1, <1>2

\* The bookmarks, the sync, the dialog and the session stay well formed
\* whatever the accounts and groups (syncManagedGroupsToSidebar, exitGroup).
THEOREM TypeCorrect == Spec => []TypeOK
  <1>1. IType => TypeOK
    BY DEF IType
  <1>2. QED
    BY <1>1, TypeInit, TypeStep, PTL DEF Spec

LEMMA TypeAlways == Spec => []IType
  BY TypeInit, TypeStep, PTL DEF Spec

-----------------------------------------------------------------------------
(* Bookmarks were due: so was everything on its way to become one.         *)

Due(a, G) == \A g \in G : <<a, g>> \in due

MembersAreDue  == \A a \in Accounts : Due(a, member[a])
ArrivalsAreDue == Due(account, arriving)
ListIsDue      == sync.pc \in {"listed", "marking"} => Due(sync.as, sync.list)
MarkedAsOwn    == sync.pc = "marking" => mixed \/ sync.as = account
GrantIsDue     ==
    request.pc = "answered" /\ request.kind = "dialog" => <<request.as, request.group>> \in due

IDue == MembersAreDue /\ ArrivalsAreDue /\ ListIsDue /\ MarkedAsOwn /\ GrantIsDue
          /\ BookmarksWereDue

LEMMA DueInit == Init => IDue
  BY DEF Init, IDue, Due, MembersAreDue, ArrivalsAreDue, ListIsDue, MarkedAsOwn, GrantIsDue,
         BookmarksWereDue, Idle, Rest

LEMMA DueStepRooms ==
  ASSUME IType, IDue, NEW g \in Groups,
         \/ \E a \in Accounts : ChangeMembers(a, g)
         \/ Enter(g) \/ EnteredNewRoom(g) \/ LeaveRoom(g) \/ CloseRoom(g)
         \/ RemoveLocally(g)
  PROVE  IDue'
  <1> USE DEF IType, TypeOK, IDue, Due, MembersAreDue, ArrivalsAreDue, ListIsDue, MarkedAsOwn,
              GrantIsDue, BookmarksWereDue
  <1>1. ASSUME NEW a \in Accounts, ChangeMembers(a, g) PROVE IDue'
    BY <1>1 DEF ChangeMembers
  <1>2. CASE Enter(g)
    BY <1>2 DEF Enter
  <1>3. CASE EnteredNewRoom(g)
    BY <1>3 DEF EnteredNewRoom, SetBookmark, Online
  <1>4. CASE LeaveRoom(g)
    BY <1>4 DEF LeaveRoom, SetBookmark, Online
  <1>5. CASE CloseRoom(g)
    BY <1>5 DEF CloseRoom
  <1>6. CASE RemoveLocally(g)
    BY <1>6 DEF RemoveLocally, SetBookmark, Online
  <1>7. QED
    BY <1>1, <1>2, <1>3, <1>4, <1>5, <1>6

LEMMA DueStepSession ==
  ASSUME IType, IDue, Logout \/ Reload \/ (\E a \in Accounts : Login(a))
  PROVE  IDue'
  <1> USE DEF IType, TypeOK, SomebodyAsked, IDue, Due, MembersAreDue, ArrivalsAreDue, ListIsDue,
              MarkedAsOwn, GrantIsDue, BookmarksWereDue
  <1>1. CASE Logout
    BY <1>1 DEF Logout, Abandon
  <1>2. CASE Reload
    BY <1>2 DEF Reload, Abandon, Idle, Rest
  <1>3. ASSUME NEW a \in Accounts, Login(a) PROVE IDue'
    <2>1. arriving = {} /\ UNCHANGED <<member, bookmark, arriving, sync, request, due, mixed>>
      BY <1>3 DEF Login, tab, Online
    <2>2. sync.pc # "marking" \/ mixed
      BY <1>3 DEF Login
    <2>3. QED
      BY <2>1, <2>2
  <1>4. QED
    BY <1>1, <1>2, <1>3

LEMMA DueStepCalls ==
  ASSUME IType, IDue,
         \/ BookmarksInitialized \/ BookmarksUnavailable
         \/ StartSync \/ ListGroups \/ NoList \/ UseList \/ MarkGroups
         \/ (\E g \in Groups, kind \in Offered : Ask(kind, g))
         \/ ServeJoin \/ ServeExit \/ OpenRoom \/ Exited
  PROVE  IDue'
  <1> USE DEF IType, TypeOK, SomebodyAsked, IDue, Due, MembersAreDue, ArrivalsAreDue, ListIsDue,
              MarkedAsOwn, GrantIsDue, BookmarksWereDue
  <1>1. CASE StartSync \/ NoList
    <2>1. sync'.pc \in {"asked", "idle"}
      BY <1>1 DEF StartSync, NoList, Asked, Idle
    <2>2. UNCHANGED <<member, bookmark, account, arriving, request, due, mixed>>
      BY <1>1 DEF StartSync, NoList
    <2>3. QED
      BY <2>1, <2>2
  <1>2. CASE UseList
    BY <1>2 DEF UseList
  <1>3. CASE MarkGroups
    BY <1>3 DEF MarkGroups, Idle, Online
  <1>4. ASSUME NEW g \in Groups, NEW kind \in Offered, Ask(kind, g)
        PROVE  IDue'
    BY <1>4 DEF Ask
  <1>5. CASE ServeJoin
    BY <1>5 DEF ServeJoin, Rest
  <1>6. CASE ServeExit
    BY <1>6 DEF ServeExit, Rest
  <1>7. CASE OpenRoom
    <2>1. sync' = sync \/ sync'.pc = "asked"
      BY <1>7 DEF OpenRoom, Asked
    <2>2. request'.pc = "idle" /\ UNCHANGED <<member, account, arriving, due>>
      BY <1>7 DEF OpenRoom, Rest
    <2>3. BookmarksWereDue'
      <3>1. account \in Accounts /\ request.group \in Groups
        BY <1>7 DEF OpenRoom, Online
      <3>2. /\ due' = due
            /\ mixed' = (mixed \/ request.as # account)
            /\ bookmark' = IF request.kind = "dialog"
                           THEN [bookmark EXCEPT ![account][request.group] = "auto"]
                           ELSE bookmark
        BY <1>7 DEF OpenRoom, SetBookmark
      <3>3. CASE request.kind = "dialog"
        <4>1. \A a \in Accounts, g \in Groups :
                (a = account /\ g = request.group) \/ bookmark'[a][g] = bookmark[a][g]
          BY <3>1, <3>2, <3>3
        <4>2. mixed' \/ <<account, request.group>> \in due
          BY <1>7, <3>2, <3>3 DEF OpenRoom
        <4>3. QED
          BY <3>2, <4>1, <4>2
      <3>4. QED
        BY <3>2, <3>3
    <2>4. mixed => mixed'
      BY <1>7 DEF OpenRoom
    <2>5. QED
      BY <2>1, <2>2, <2>3, <2>4
  <1>8. CASE Exited
    BY <1>8 DEF Exited, SetBookmark, Asked, Rest, Online
  <1>9. CASE ListGroups
    <2>1. sync.as \in Accounts /\ sync'.as = sync.as /\ sync'.list = member[sync.as]
      BY <1>9 DEF ListGroups
    <2>2. sync'.pc = "listed"
      BY <1>9 DEF ListGroups
    <2>3. QED
      BY <1>9, <2>1, <2>2 DEF ListGroups
  <1>10. CASE BookmarksInitialized \/ BookmarksUnavailable
    BY <1>10 DEF BookmarksInitialized, BookmarksUnavailable
  <1> HIDE DEF IType, TypeOK, SomebodyAsked, IDue, Due, MembersAreDue, ArrivalsAreDue,
               ListIsDue, MarkedAsOwn, GrantIsDue, BookmarksWereDue
  <1>11. QED
    BY <1>1, <1>2, <1>3, <1>4, <1>5, <1>6, <1>7, <1>8, <1>9, <1>10

LEMMA DueStep == IType /\ IDue /\ [Next]_vars => IDue'
  <1> SUFFICES ASSUME IType, IDue, [Next]_vars PROVE IDue'
    OBVIOUS
  <1>1. CASE Next
    BY <1>1, DueStepRooms, DueStepSession, DueStepCalls
    DEF Next, Continue, Task, User, Answers
  <1>2. CASE UNCHANGED vars
    BY <1>2 DEF vars, tab, IDue, Due, MembersAreDue, ArrivalsAreDue, ListIsDue, MarkedAsOwn,
                GrantIsDue, BookmarksWereDue
  <1>3. QED
    BY <1>1, <1>2

\* Only groups the account belonged to or was let into are bookmarked, however
\* the sync, the dialog and the changes of others interleave, as long as no
\* answer to one account is used by another (setBookmark).
THEOREM BookmarksAlwaysDue == Spec => []BookmarksWereDue
  <1>1. IDue => BookmarksWereDue
    BY DEF IDue
  <1>2. QED
    BY <1>1, DueInit, DueStep, TypeAlways, PTL DEF Spec

-----------------------------------------------------------------------------
(* No step makes a bookmark that is looked after a stray one.              *)

LEMMA TrackedStep ==
  ASSUME IType, [Next]_vars, NEW g \in Groups, Tracked(g)
  PROVE  ~Stray(g)'
  <1> SUFFICES ASSUME ready' = "yes", bookmark'[account'][g] # "none", ~Tracked(g)'
               PROVE  FALSE
    BY DEF Stray
  <1> USE DEF Tracked
  <1>1. CASE UNCHANGED vars
    BY <1>1 DEF vars, tab
  <1>2. ASSUME NEW h \in Groups, RemoveLocally(h) PROVE FALSE
    BY <1>2 DEF RemoveLocally, SetBookmark, IType, TypeOK, Online
  <1>3. CASE UseList
    BY <1>3 DEF UseList, Gone
  <1>4. CASE Logout \/ Reload \/ BookmarksUnavailable
    BY <1>4 DEF Logout, Reload, BookmarksUnavailable
  <1>5. CASE StartSync \/ ListGroups \/ NoList \/ MarkGroups
    BY <1>5 DEF StartSync, MaySync, Asked, ListGroups, NoList, MarkGroups
  <1>6. CASE OpenRoom \/ Exited
    BY <1>6 DEF OpenRoom, Exited, MaySync
  <1>7. CASE ServeJoin \/ ServeExit \/ BookmarksInitialized
    BY <1>7 DEF ServeJoin, ServeExit, BookmarksInitialized
  <1>8. ASSUME NEW h \in Groups,
               \/ Enter(h) \/ EnteredNewRoom(h) \/ LeaveRoom(h) \/ CloseRoom(h)
               \/ (\E kind \in Offered : Ask(kind, h))
               \/ (\E a \in Accounts : ChangeMembers(a, h))
        PROVE  FALSE
    BY <1>8 DEF Enter, EnteredNewRoom, LeaveRoom, CloseRoom, Ask, ChangeMembers
  <1>9. ASSUME NEW a \in Accounts, Login(a) PROVE FALSE
    BY <1>9 DEF Login, tab
  <1>10. QED
    BY <1>1, <1>2, <1>3, <1>4, <1>5, <1>6, <1>7, <1>8, <1>9
    DEF Next, Continue, Task, User, Answers

\* A bookmark that the sync looks after stays in its sight until it is removed:
\* no stale list, no exit and no failed answer forgets it (previousGroups,
\* removeManagedGroupLocally).
THEOREM LossesAlwaysTracked == Spec => LossesStayTracked
  <1>1. IType /\ [Next]_vars => [\A g \in Groups : Tracked(g) => ~Stray(g)']_vars
    BY TrackedStep
  <1>2. QED
    BY <1>1, TypeAlways, PTL DEF Spec, LossesStayTracked

=============================================================================
