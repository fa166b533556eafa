------------------------------ MODULE Listing ------------------------------
(***************************************************************************)
(* GET /v1/notifications: a caller walks through the pages of a user's     *)
(* notifications while rows are inserted and change their status (List in  *)
(* infrastructure/postgres/notifications.go, service/list_notifications.go *)
(* and handlers/list_notifications.go). A row carries the time at which    *)
(* its transaction began, so it may appear behind a page already read.     *)
(***************************************************************************)
EXTENDS Accounts, FiniteSets

CONSTANTS
    Ids,        \* notification ids; they are random, and compared as numbers
    Filters,    \* the query parameters a caller may give
    Limits      \* page sizes that the handler lets through, 1 to 100

ASSUME ListingAssumption ==
    /\ Ids \subseteq Nat
    /\ IsFiniteSet(Ids)     \* 128 bits
    /\ Limits \subseteq 1..100
    /\ Filters # {}

Statuses == {"enqueued", "sent"}

\* Where a notification goes: to what the request names, or what the user's
\* record holds, or a device.
Destinations == Tokens \cup {"given", "address", "none"}

VARIABLES
    log,    \* notification_log
    walk    \* the caller that walks through the pages

listVars == <<log, walk>>

\* A row per id at most.
Log == [Ids -> [user: Users \cup {Nobody}, channel: Channels, to: Destinations,
                created: 0..MaxTime, status: Statuses \cup {"absent"}, certain: BOOLEAN]]

Stored == {i \in Ids : log[i].status # "absent"}

\* The key of the order of the list, and of encodeCursor.
Key(i) == [created |-> log[i].created, id |-> i]

FirstPage == [created |-> MaxTime + 1, id |-> 0]

\* (created_at, id) < (cursor's created_at, cursor's id)
Before(k, cursor) ==
    \/ k.created < cursor.created
    \/ k.created = cursor.created /\ k.id < cursor.id

\* The WHERE clause of List, without the cursor.
Matches(i, user, filter) ==
    /\ log[i].user = user
    /\ filter.status \in {"any", log[i].status}
    /\ filter.channel \in {"any", log[i].channel}
    /\ log[i].created \in filter.since .. filter.until

\* What a query finds from the cursor on, and the newest n of it.
Found(user, filter, cursor) ==
    {i \in Stored : Matches(i, user, filter) /\ Before(Key(i), cursor)}

Newest(n, rows) == {i \in rows : Cardinality({j \in rows : Before(Key(i), Key(j))}) < n}

Oldest(rows) == CHOOSE i \in rows : \A j \in rows \ {i} : Before(Key(i), Key(j))

\* Mutant: the cursor is the extra row, which no page then shows.
CursorSkips(rows, limit) == Key(Oldest(Newest(limit + 1, rows)))

\* The last row that is shown; the row after it only tells that there is more.
Cursor(rows, limit) == Key(Oldest(Newest(limit, rows)))

-----------------------------------------------------------------------------
Idle == [pc |-> "idle", user |-> Nobody, filter |-> CHOOSE f \in Filters : TRUE,
         cursor |-> FirstPage, due |-> {}, pages |-> <<>>]

\* A caller asks for the first page. It is due every row that is there now.
StartWalk(id, filter) ==
    /\ walk.pc = "idle"
    /\ RequireServiceIdentity(id)
    /\ walk' = [Idle EXCEPT !.pc = "paging", !.user = id.behalf, !.filter = filter,
                            !.due = {i \in Stored : Matches(i, id.behalf, filter)}]
    /\ UNCHANGED log

\* One request: LIMIT limit + 1, and a cursor if there is a row too many.
ListNotifications(limit) ==
    LET rows == Found(walk.user, walk.filter, walk.cursor)
        more == Cardinality(rows) > limit
    IN  /\ walk.pc = "paging"
        /\ walk' = [walk EXCEPT
                !.pages = Append(@, Newest(limit, rows)),
                !.cursor = IF more THEN Cursor(rows, limit) ELSE @,
                !.pc = IF more THEN "paging" ELSE "done"]
        /\ UNCHANGED log

\* A worker has sent the notification (UpdateStatus). A caller is no longer due
\* a row that stopped matching.
Sent(i) ==
    /\ log[i].status = "enqueued"
    /\ log' = [log EXCEPT ![i].status = "sent"]
    /\ walk' = [walk EXCEPT !.due =
                    IF walk.filter.status = "any" THEN @ ELSE @ \ {i}]

ListingInit ==
    /\ log = [i \in Ids |-> [user |-> Nobody, channel |-> CHOOSE ch \in Channels : TRUE,
                             to |-> "none", created |-> 0, status |-> "absent",
                             certain |-> FALSE]]
    /\ walk = Idle

ListingTypeOK ==
    /\ log \in Log
    /\ walk \in [pc: {"idle", "paging", "done"}, user: Users \cup {Nobody}, filter: Filters,
                 cursor: [created: 0..MaxTime + 1, id: Nat], due: SUBSET Ids,
                 pages: Seq(SUBSET Ids)]

\* Whatever is inserted or sent meanwhile, a walk to the end shows every row
\* that matched throughout, shows none twice and none of another user, each
\* page older than the ones before it; and the caller may open every row shown.
\* (List, encodeCursor, the ownership rule of GetNotification)
PagesAreComplete ==
    LET shown == UNION {walk.pages[k] : k \in DOMAIN walk.pages}
        caller == [kind |-> "service", behalf |-> walk.user]
    IN  /\ walk.pc = "done" => walk.due \subseteq shown
        /\ \A i \in shown : MayRead(caller, log[i].user)
        /\ \A k, m \in DOMAIN walk.pages : k < m =>
              \A i \in walk.pages[k], j \in walk.pages[m] : Before(Key(j), Key(i))
=============================================================================
