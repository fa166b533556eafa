----------------------------- MODULE ApiProofs -----------------------------
(***************************************************************************)
(* What the API promises its callers, for any numbers of users, channels,  *)
(* devices, requests, clients and rows: settings and opt-outs are as the   *)
(* users were told, a push goes to the device of the last login, and a     *)
(* walk through the list shows every row that was there throughout, none   *)
(* twice and none of another user, for any filter and any mix of page      *)
(* sizes. The walk comes first, then everything else that happens.         *)
(***************************************************************************)
EXTENDS Api, TLAPS, FiniteSetTheorems

-----------------------------------------------------------------------------
\* The order of the list

\* A finite set has a least element in every strict total order: the elements
\* are ranked by how many lie below them, and no rank is left out.
LEMMA FiniteMinimum ==
    ASSUME NEW S, IsFiniteSet(S), S # {}, NEW R,
           \A x \in S : <<x, x>> \notin R,
           \A x, y \in S : x # y => <<x, y>> \in R \/ <<y, x>> \in R,
           \A x, y, z \in S : <<x, y>> \in R /\ <<y, z>> \in R => <<x, z>> \in R
    PROVE  \E x \in S : \A y \in S \ {x} : <<x, y>> \in R
<1> DEFINE Below(x) == {y \in S : <<y, x>> \in R}
           n == Cardinality(S)
           rank == [x \in S |-> Cardinality(Below(x))]
<1>1. n \in Nat \ {0}
  BY FS_CardinalityType, FS_EmptySet
<1>2. ASSUME NEW x \in S
      PROVE  IsFiniteSet(Below(x)) /\ Cardinality(Below(x)) \in Nat /\ rank[x] \in 0 .. n - 1
  <2>1. Below(x) \in SUBSET S /\ x \in S \ Below(x)
    OBVIOUS
  <2>2. /\ IsFiniteSet(Below(x)) /\ Cardinality(Below(x)) <= n
        /\ Cardinality(Below(x)) # n
    BY <2>1, FS_Subset
  <2>3. Cardinality(Below(x)) \in Nat
    BY <2>2, FS_CardinalityType
  <2> QED
    BY <1>1, <2>2, <2>3
<1>3. ASSUME NEW x \in S, NEW y \in S, <<x, y>> \in R
      PROVE  rank[x] < rank[y]
  <2>1. Below(x) \in SUBSET Below(y) /\ x \in Below(y) \ Below(x)
    BY <1>3
  <2>2. /\ Cardinality(Below(x)) <= Cardinality(Below(y))
        /\ Cardinality(Below(x)) # Cardinality(Below(y))
    BY <2>1, <1>2, FS_Subset
  <2>3. Cardinality(Below(x)) \in Nat /\ Cardinality(Below(y)) \in Nat
    BY <1>2
  <2>4. rank[x] = Cardinality(Below(x)) /\ rank[y] = Cardinality(Below(y))
    OBVIOUS
  <2> HIDE DEF Below, rank
  <2> QED
    BY <2>2, <2>3, <2>4
<1>4. rank \in Injection(S, 0 .. n - 1)
  <2>1. rank \in [S -> 0 .. n - 1]
    BY <1>2
  <2>2. \A x, y \in S : rank[x] = rank[y] => x = y
    <3> SUFFICES ASSUME NEW x \in S, NEW y \in S, rank[x] = rank[y], x # y PROVE FALSE
      OBVIOUS
    <3>1. rank[x] \in Int /\ rank[y] \in Int
      <4> HIDE DEF rank, n, Below
      <4> QED
        BY <1>1, <1>2
    <3>2. rank[x] < rank[y] \/ rank[y] < rank[x]
      BY <1>3
    <3> HIDE DEF rank
    <3> QED
      BY <3>1, <3>2
  <2> HIDE DEF rank
  <2> QED
    BY <2>1, <2>2 DEF Injection, IsInjective
<1>5. IsFiniteSet(0 .. n - 1) /\ Cardinality(0 .. n - 1) = n
  <2>1. 0 \in Int /\ n - 1 \in Int /\ ~(0 > n - 1) /\ (n - 1) - 0 + 1 = n
    BY <1>1
  <2> HIDE DEF n
  <2> QED
    BY <2>1, FS_Interval
<1>6. rank \in Surjection(S, 0 .. n - 1)
  <2> HIDE DEF rank
  <2> QED
    BY <1>4, <1>5, FS_Injection
<1>7. PICK x \in S : rank[x] = 0
  <2>1. 0 \in 0 .. n - 1
    BY <1>1
  <2> HIDE DEF rank
  <2> QED
    BY <1>6, <2>1 DEF Surjection
<1>8. Below(x) = {}
  BY <1>2, <1>7, FS_EmptySet
<1> QED
  BY <1>8

Older(i, j) == Before(Key(i), Key(j))

\* Rows are ordered by (created_at, id), which no two rows share.
LEMMA OlderIsTotal ==
    ASSUME log \in Log
    PROVE  /\ \A i \in Ids : ~Older(i, i)
           /\ \A i, j \in Ids : i # j => Older(i, j) \/ Older(j, i)
           /\ \A i, j, k \in Ids : Older(i, j) /\ Older(j, k) => Older(i, k)
BY ListingAssumption, AccountsAssumption DEF Older, Before, Key, Log

\* The row that the cursor is made of is the oldest of its page.
LEMMA OldestIsLast ==
    ASSUME log \in Log, NEW rows \in SUBSET Ids, rows # {}
    PROVE  /\ Oldest(rows) \in rows
           /\ \A j \in rows \ {Oldest(rows)} : Older(Oldest(rows), j)
<1> DEFINE R == {e \in rows \X rows : Older(e[1], e[2])}
<1>1. IsFiniteSet(rows)
  BY ListingAssumption, FS_Subset
<1>2. \A i, j \in rows : <<i, j>> \in R <=> Older(i, j)
  OBVIOUS
<1>3. \E i \in rows : \A j \in rows \ {i} : <<i, j>> \in R
  <2> HIDE DEF R
  <2> QED
    BY <1>1, <1>2, OlderIsTotal, FiniteMinimum
<1>4. \E i \in rows : \A j \in rows \ {i} : Older(i, j)
  BY <1>2, <1>3
<1> QED
  BY <1>4 DEF Oldest, Older

\* What a page leaves out is older than all that it shows, and it leaves nothing
\* out when there are no more rows than its limit. (LIMIT limit + 1)
LEMMA PageIsNewest ==
    ASSUME log \in Log, NEW rows \in SUBSET Ids, NEW n \in Nat \ {0}
    PROVE  /\ Newest(n, rows) \subseteq rows
           /\ rows # {} => Newest(n, rows) # {}
           /\ \A i \in rows \ Newest(n, rows), j \in Newest(n, rows) : Older(i, j)
           /\ Cardinality(rows) <= n => Newest(n, rows) = rows
<1> DEFINE Above(i) == {j \in rows : Older(i, j)}
           R == {e \in rows \X rows : Older(e[2], e[1])}
<1>1. IsFiniteSet(rows) /\ Cardinality(rows) \in Nat
  BY ListingAssumption, FS_Subset, FS_CardinalityType
<1>2. ASSUME NEW i \in rows
      PROVE  /\ IsFiniteSet(Above(i)) /\ Cardinality(Above(i)) \in Nat
             /\ Cardinality(Above(i)) < Cardinality(rows)
  <2>1. Above(i) \in SUBSET rows /\ Above(i) # rows
    BY OlderIsTotal
  <2>2. /\ IsFiniteSet(Above(i)) /\ Cardinality(Above(i)) <= Cardinality(rows)
        /\ Cardinality(Above(i)) # Cardinality(rows)
    BY <1>1, <2>1, FS_Subset
  <2>3. Cardinality(Above(i)) \in Nat
    BY <2>2, FS_CardinalityType
  <2> HIDE DEF Above
  <2> QED
    BY <1>1, <2>2, <2>3
<1>3. Newest(n, rows) = {i \in rows : Cardinality(Above(i)) < n}
  BY DEF Newest, Older
<1>4. Newest(n, rows) \subseteq rows
  BY <1>3
<1>5. ASSUME rows # {}
      PROVE  Newest(n, rows) # {}
  <2>1. \A i, j \in rows : <<i, j>> \in R <=> Older(j, i)
    OBVIOUS
  <2>2. \E i \in rows : \A j \in rows \ {i} : <<i, j>> \in R
    <3> HIDE DEF R
    <3> QED
      BY <1>1, <1>5, <2>1, OlderIsTotal, FiniteMinimum
  <2>3. PICK i \in rows : \A j \in rows \ {i} : Older(j, i)
    BY <2>1, <2>2
  <2>4. \A j \in rows : ~Older(i, j)
    BY <2>3, OlderIsTotal
  <2>5. Cardinality(Above(i)) = 0
    BY <2>4, FS_EmptySet
  <2> QED
    BY <1>3, <2>5
<1>6. ASSUME NEW i \in rows \ Newest(n, rows), NEW j \in Newest(n, rows)
      PROVE  Older(i, j)
  <2> SUFFICES ASSUME ~Older(i, j) PROVE FALSE
    OBVIOUS
  <2>1. i \in rows /\ j \in rows /\ i # j
    BY <1>3
  <2>2. Older(j, i)
    BY <2>1, OlderIsTotal
  <2>3. Above(i) \in SUBSET Above(j)
    BY <2>1, <2>2, OlderIsTotal
  <2>4. Cardinality(Above(i)) <= Cardinality(Above(j))
    BY <1>2, <2>1, <2>3, FS_Subset
  <2>5. Cardinality(Above(j)) < n /\ ~(Cardinality(Above(i)) < n)
    BY <1>3, <2>1
  <2>6. Cardinality(Above(i)) \in Nat /\ Cardinality(Above(j)) \in Nat
    BY <1>2, <2>1
  <2> HIDE DEF Above
  <2> QED
    BY <2>4, <2>5, <2>6
<1>7. ASSUME Cardinality(rows) <= n
      PROVE  Newest(n, rows) = rows
  <2>1. \A i \in rows : Cardinality(Above(i)) < n
    <3> SUFFICES ASSUME NEW i \in rows PROVE Cardinality(Above(i)) < n
      OBVIOUS
    <3> HIDE DEF Above
    <3> QED
      BY <1>1, <1>2, <1>7
  <2> QED
    BY <1>3, <2>1
<1> QED
  BY <1>4, <1>5, <1>6, <1>7

-----------------------------------------------------------------------------
\* The walk

Shown == UNION {walk.pages[k] : k \in DOMAIN walk.pages}

\* The rows that are shown lie from the cursor on, what is due and not shown yet
\* lies before it, and every page lies before the ones shown earlier.
Walked ==
    /\ walk.pc = "idle" => walk.pages = <<>>
    /\ walk.pc # "idle" => walk.user \in Users
    /\ \A i \in Shown : i \in Stored /\ log[i].user = walk.user
    /\ walk.pc = "paging" => \A i \in Shown : ~Before(Key(i), walk.cursor)
    /\ walk.pc = "paging" =>
          \A i \in walk.due : /\ i \in Stored
                              /\ Matches(i, walk.user, walk.filter)
                              /\ i \notin Shown => Before(Key(i), walk.cursor)
    /\ walk.pc = "done" => walk.due \subseteq Shown
    /\ \A k, m \in DOMAIN walk.pages : k < m =>
          \A i \in walk.pages[k], j \in walk.pages[m] : Before(Key(j), Key(i))

\* What the walk promises follows.
LEMMA WalkedIsComplete ==
    ASSUME ListingTypeOK, Walked
    PROVE  PagesAreComplete
<1>1. \A i \in Shown : walk.pc # "idle"
  BY DEF Walked, Shown
<1>2. \A i \in Shown : MayRead([kind |-> "service", behalf |-> walk.user], log[i].user)
  BY <1>1, AccessAssumption DEF Walked, MayRead, RequireUserOwnership
<1> QED
  BY <1>2 DEF Walked, PagesAreComplete, Shown

LEMMA ListingStarts ==
    ASSUME ListingInit, Channels # {}
    PROVE  ListingTypeOK /\ Walked
<1>1. log \in Log
  BY AccountsAssumption DEF ListingInit, Log, Destinations, Statuses
<1>2. walk = Idle
  BY DEF ListingInit
<1>3. Idle.filter \in Filters
  BY ListingAssumption DEF Idle
<1>4. walk \in [pc: {"idle", "paging", "done"}, user: Users \cup {Nobody}, filter: Filters,
                cursor: [created: 0..MaxTime + 1, id: Nat], due: SUBSET Ids,
                pages: Seq(SUBSET Ids)]
  BY <1>2, <1>3, AccountsAssumption DEF Idle, FirstPage
<1>5. Walked
  <2>1. walk.pc = "idle" /\ walk.pages = <<>> /\ DOMAIN walk.pages = {}
    BY <1>2 DEF Idle
  <2> QED
    BY <2>1 DEF Walked, Shown
<1> QED
  BY <1>1, <1>4, <1>5 DEF ListingTypeOK

\* The first page starts above every row that is there.
LEMMA StartWalkKeeps ==
    ASSUME ListingTypeOK, Walked, NEW id \in [kind: Kinds, behalf: Users \cup {Nobody}],
           NEW filter \in Filters, StartWalk(id, filter)
    PROVE  ListingTypeOK' /\ Walked'
<1>1. id.behalf \in Users /\ log' = log
  BY DEF StartWalk, RequireServiceIdentity
<1>2. /\ walk'.pc = "paging" /\ walk'.user = id.behalf /\ walk'.filter = filter
      /\ walk'.cursor = FirstPage /\ walk'.pages = <<>>
      /\ walk'.due = {i \in Stored : Matches(i, id.behalf, filter)}
  BY DEF StartWalk, Idle
<1>3. ListingTypeOK'
  <2>1. walk' \in [pc: {"idle", "paging", "done"}, user: Users \cup {Nobody},
                   filter: Filters, cursor: [created: 0..MaxTime + 1, id: Nat],
                   due: SUBSET Ids, pages: Seq(SUBSET Ids)]
    <3>1. walk' = [pc |-> "paging", user |-> id.behalf, filter |-> filter,
                   cursor |-> FirstPage,
                   due |-> {i \in Stored : Matches(i, id.behalf, filter)}, pages |-> <<>>]
      BY DEF StartWalk, Idle
    <3>2. {i \in Stored : Matches(i, id.behalf, filter)} \in SUBSET Ids
      BY DEF Stored
    <3>3. FirstPage \in [created: 0..MaxTime + 1, id: Nat] /\ <<>> \in Seq(SUBSET Ids)
      BY AccountsAssumption DEF FirstPage
    <3> HIDE DEF FirstPage
    <3> QED
      BY <1>1, <3>1, <3>2, <3>3
  <2> QED
    BY <1>1, <2>1 DEF ListingTypeOK
<1>4. Shown' = {} /\ DOMAIN walk'.pages = {}
  BY <1>2 DEF Shown
<1>5. \A i \in Stored : Before(Key(i), FirstPage)
  BY AccountsAssumption DEF ListingTypeOK, Log, Stored, Before, Key, FirstPage
<1> QED
  BY <1>1, <1>2, <1>3, <1>4, <1>5 DEF Walked, Stored, Matches, Key


LEMMA BeforeOrders ==
    ASSUME NEW a \in [created: Int, id: Int], NEW b \in [created: Int, id: Int],
           NEW c \in [created: Int, id: Int]
    PROVE  /\ Before(a, b) /\ Before(b, c) => Before(a, c)
           /\ Before(a, c) /\ ~Before(b, c) => Before(a, b)
BY DEF Before

\* One more page is shown.
LEMMA ShownWithPage ==
    ASSUME walk.pages \in Seq(SUBSET Ids), NEW page \in SUBSET Ids,
           walk'.pages = Append(walk.pages, page)
    PROVE  /\ walk'.pages \in Seq(SUBSET Ids)
           /\ Shown' = Shown \cup page
           /\ \A k, m \in DOMAIN walk'.pages : k < m =>
                 /\ k \in DOMAIN walk.pages
                 /\ walk'.pages[k] = walk.pages[k]
                 /\ \/ m \in DOMAIN walk.pages /\ walk'.pages[m] = walk.pages[m]
                    \/ walk'.pages[m] = page
<1> DEFINE n == Len(walk.pages)
<1>1. /\ n \in Nat /\ DOMAIN walk.pages = 1..n /\ DOMAIN walk'.pages = 1..n + 1
      /\ \A k \in 1..n : walk'.pages[k] = walk.pages[k]
      /\ walk'.pages[n + 1] = page
      /\ walk'.pages \in Seq(SUBSET Ids)
  OBVIOUS
<1> HIDE DEF n
<1>2. \A k \in 1..n + 1 : k \in 1..n \/ k = n + 1
  BY <1>1
<1>3. \A k \in 1..n : k \in 1..n + 1
  BY <1>1
<1>4. n + 1 \in 1..n + 1
  BY <1>1
<1>5. Shown' = Shown \cup page
  <2>1. ASSUME NEW i
        PROVE  i \in Shown' <=> i \in Shown \/ i \in page
    BY <1>1, <1>2, <1>3, <1>4 DEF Shown
  <2> QED
    BY <2>1
<1>6. \A k, m \in 1..n + 1 : k < m => k \in 1..n
  BY <1>1
<1> QED
  BY <1>1, <1>2, <1>5, <1>6

\* Where the cursor is set to, everything shown lies from it on, and everything
\* else that was found lies before it.
LEMMA ListNotificationsKeeps ==
    ASSUME ListingTypeOK, Walked, NEW limit \in Limits, ListNotifications(limit)
    PROVE  ListingTypeOK' /\ Walked'
<1> DEFINE rows == Found(walk.user, walk.filter, walk.cursor)
           page == Newest(limit, rows)
           more == Cardinality(rows) > limit
<1>1. /\ limit \in Nat \ {0} /\ log \in Log /\ log' = log /\ walk.pc = "paging"
      /\ rows \in SUBSET Ids
  <2>1. limit \in Nat \ {0}
    BY ListingAssumption
  <2>2. rows \in SUBSET Ids
    BY DEF Found, Stored
  <2>3. log' = log /\ walk.pc = "paging"
    BY DEF ListNotifications
  <2> QED
    BY <2>1, <2>2, <2>3 DEF ListingTypeOK
<1>2. \A i \in rows : /\ i \in Stored /\ log[i].user = walk.user
                      /\ Before(Key(i), walk.cursor)
  BY DEF Found, Matches
<1>3. \A i \in walk.due : i \in Stored /\ (i \notin Shown => i \in rows)
  BY <1>1 DEF Walked, Found
<1>4. /\ walk'.pages = Append(walk.pages, page)
      /\ walk'.user = walk.user /\ walk'.filter = walk.filter /\ walk'.due = walk.due
      /\ walk'.cursor = IF more THEN Key(Oldest(page)) ELSE walk.cursor
      /\ walk'.pc = IF more THEN "paging" ELSE "done"
  <2>1. walk' = [walk EXCEPT !.pages = Append(@, page),
                             !.cursor = IF more THEN Key(Oldest(page)) ELSE @,
                             !.pc = IF more THEN "paging" ELSE "done"]
    BY Zenon DEF ListNotifications, Cursor
  <2> HIDE DEF page, more, rows
  <2> QED
    BY <2>1 DEF ListingTypeOK
<1> HIDE DEF rows
<1>5. /\ page \subseteq rows
      /\ rows # {} => page # {}
      /\ \A i \in rows \ page, j \in page : Older(i, j)
      /\ Cardinality(rows) <= limit => page = rows
  BY <1>1, PageIsNewest
<1>6. ASSUME more
      PROVE  /\ Oldest(page) \in page
             /\ \A j \in page : ~Older(j, Oldest(page))
  <2>1. rows # {}
    BY <1>1, <1>6, FS_EmptySet
  <2>2. page \in SUBSET Ids /\ page # {}
    BY <1>1, <1>5, <2>1
  <2> HIDE DEF page
  <2>3. /\ Oldest(page) \in page
        /\ \A j \in page \ {Oldest(page)} : Older(Oldest(page), j)
    BY <1>1, <2>2, OldestIsLast
  <2> QED
    BY <1>1, <2>2, <2>3, OlderIsTotal
<1>7. ~more => page = rows
  <2>1. Cardinality(rows) \in Nat
    BY <1>1, ListingAssumption, FS_Subset, FS_CardinalityType
  <2> QED
    BY <1>1, <1>5, <2>1
<1> HIDE DEF page, more
<1>8. /\ walk'.pages \in Seq(SUBSET Ids)
      /\ Shown' = Shown \cup page
      /\ \A k, m \in DOMAIN walk'.pages : k < m =>
            /\ k \in DOMAIN walk.pages
            /\ walk'.pages[k] = walk.pages[k]
            /\ \/ m \in DOMAIN walk.pages /\ walk'.pages[m] = walk.pages[m]
               \/ walk'.pages[m] = page
  <2>1. walk.pages \in Seq(SUBSET Ids) /\ page \in SUBSET Ids
    BY <1>1, <1>5 DEF ListingTypeOK
  <2> QED
    BY <1>4, <2>1, ShownWithPage
<1>9. /\ \A i \in Ids : Key(i) \in [created: 0..MaxTime + 1, id: Nat]
      /\ walk.cursor \in [created: 0..MaxTime + 1, id: Nat]
  BY <1>1, ListingAssumption, AccountsAssumption DEF Key, Log, ListingTypeOK
<1>10. /\ \A i \in Ids : Key(i) \in [created: Int, id: Int]
       /\ walk.cursor \in [created: Int, id: Int]
  BY <1>9
<1>11. ListingTypeOK'
  <2>1. more => Oldest(page) \in Ids
    BY <1>1, <1>5, <1>6
  <2>2. walk'.cursor \in [created: 0..MaxTime + 1, id: Nat]
    BY <1>4, <1>9, <2>1
  <2>3. walk' = [pc |-> walk'.pc, user |-> walk'.user, filter |-> walk'.filter,
                 cursor |-> walk'.cursor, due |-> walk'.due, pages |-> walk'.pages]
    BY DEF ListNotifications, ListingTypeOK
  <2>4. walk'.pc \in {"paging", "done"}
    BY <1>4
  <2>5. /\ walk.user \in Users \cup {Nobody} /\ walk.filter \in Filters
        /\ walk.due \in SUBSET Ids
    BY DEF ListingTypeOK
  <2>6. walk' \in [pc: {"idle", "paging", "done"}, user: Users \cup {Nobody},
                   filter: Filters, cursor: [created: 0..MaxTime + 1, id: Nat],
                   due: SUBSET Ids, pages: Seq(SUBSET Ids)]
    BY <1>4, <1>8, <2>2, <2>3, <2>4, <2>5
  <2> QED
    BY <1>1, <2>6 DEF ListingTypeOK
<1>12. \A i \in Shown : /\ i \in Ids /\ i \in Stored /\ log[i].user = walk.user
                        /\ ~Before(Key(i), walk.cursor)
  BY <1>1 DEF Walked, Stored
<1>13. \A i \in Shown, j \in page : Before(Key(j), Key(i))
  BY <1>1, <1>2, <1>5, <1>10, <1>12, BeforeOrders
<1>14. ASSUME more
       PROVE  \A i \in Shown \cup page : ~Before(Key(i), walk'.cursor)
  <2>1. Oldest(page) \in rows /\ Oldest(page) \in Ids /\ walk'.cursor = Key(Oldest(page))
    BY <1>1, <1>4, <1>5, <1>6, <1>14
  <2>2. Before(walk'.cursor, walk.cursor)
    BY <1>2, <2>1
  <2>3. \A i \in Shown : ~Before(Key(i), walk'.cursor)
    BY <1>10, <1>12, <2>1, <2>2, BeforeOrders
  <2> QED
    BY <1>6, <1>14, <2>1, <2>3 DEF Older
<1>15. ASSUME more, NEW i \in walk.due, i \notin Shown'
       PROVE  Before(Key(i), walk'.cursor)
  <2>1. i \in rows \ page
    BY <1>3, <1>8, <1>15
  <2> QED
    BY <1>4, <1>5, <1>6, <1>15, <2>1 DEF Older
<1>16. ASSUME ~more
       PROVE  walk.due \subseteq Shown'
  BY <1>3, <1>7, <1>8, <1>16
<1>17. \A i \in Shown' : i \in Stored /\ log[i].user = walk.user
  BY <1>2, <1>5, <1>8, <1>12
<1>18. ASSUME NEW k \in DOMAIN walk'.pages, NEW m \in DOMAIN walk'.pages, k < m,
              NEW i \in walk'.pages[k], NEW j \in walk'.pages[m]
       PROVE  Before(Key(j), Key(i))
  <2>1. k \in DOMAIN walk.pages /\ i \in walk.pages[k] /\ i \in Shown
    BY <1>8, <1>18 DEF Shown
  <2>2. CASE m \in DOMAIN walk.pages /\ walk'.pages[m] = walk.pages[m]
    BY <1>18, <2>1, <2>2 DEF Walked
  <2>3. CASE walk'.pages[m] = page
    BY <1>13, <1>18, <2>1, <2>3
  <2> QED
    BY <1>8, <1>18, <2>2, <2>3
<1>19. /\ \A i : Key(i)' = Key(i)
       /\ \A i : (i \in Stored)' <=> i \in Stored
       /\ \A i : Matches(i, walk.user, walk.filter)' <=> Matches(i, walk.user, walk.filter)
  BY <1>1, <1>4 DEF Key, Stored, Matches
<1>20. Walked'
  <2>1. \A i \in walk.due : i \in Stored /\ Matches(i, walk.user, walk.filter)
    BY <1>1 DEF Walked
  <2>2. walk.user \in Users
    BY <1>1 DEF Walked
  <2> QED
    BY <1>1, <1>4, <1>8, <1>14, <1>15, <1>16, <1>17, <1>18, <1>19, <2>1, <2>2 DEF Walked
<1> QED
  BY <1>11, <1>20

\* Rows may change and appear, as long as those stored keep their place and
\* those due still match.
LEMMA WalkIsUndisturbed ==
    ASSUME ListingTypeOK, Walked,
           walk'.pc = walk.pc, walk'.user = walk.user, walk'.filter = walk.filter,
           walk'.cursor = walk.cursor, walk'.pages = walk.pages,
           walk'.due \subseteq walk.due,
           \A i \in Stored : /\ (i \in Stored)'
                             /\ Key(i)' = Key(i)
                             /\ log'[i].user = log[i].user,
           \A i \in walk'.due :
              i \in Stored /\ Matches(i, walk.user, walk.filter)
                => Matches(i, walk.user, walk.filter)'
    PROVE  Walked'
<1>1. Shown' = Shown
  BY DEF Shown
<1>2. \A i \in Shown : i \in Stored
  BY DEF Walked
<1>3. \A k \in DOMAIN walk.pages : \A i \in walk.pages[k] : i \in Stored
  BY <1>2 DEF Shown
<1>4. \A i \in Shown : i \in Stored' /\ log'[i].user = walk'.user
  BY <1>2 DEF Walked
<1>5. walk.pc = "paging" => \A i \in Shown : ~Before(Key(i)', walk.cursor)
  BY <1>2 DEF Walked
<1>6. walk.pc = "paging" => \A i \in walk'.due :
        /\ i \in Stored'
        /\ Matches(i, walk.user, walk.filter)'
        /\ i \notin Shown => Before(Key(i)', walk.cursor)
  BY DEF Walked
<1>7. \A k, m \in DOMAIN walk.pages : k < m =>
        \A i \in walk.pages[k], j \in walk.pages[m] : Before(Key(j)', Key(i)')
  BY <1>3 DEF Walked
<1>8. walk.pc = "done" => walk'.due \subseteq Shown
  BY DEF Walked
<1>9. /\ walk.pc = "idle" => walk.pages = <<>>
      /\ walk.pc # "idle" => walk.user \in Users
  BY DEF Walked
<1> QED
  BY <1>1, <1>4, <1>5, <1>6, <1>7, <1>8, <1>9 DEF Walked

\* A row that was sent keeps its place. A caller that asked for another status is
\* no longer due it.
LEMMA SentKeeps ==
    ASSUME ListingTypeOK, Walked, NEW i \in Ids, Sent(i)
    PROVE  ListingTypeOK' /\ Walked'
<1>1. /\ log \in Log /\ log' = [log EXCEPT ![i] = [log[i] EXCEPT !.status = "sent"]]
      /\ log[i].status = "enqueued"
  BY DEF Sent, ListingTypeOK
<1>2. log' \in Log
  BY <1>1 DEF Log, Statuses
<1>3. \A j \in Ids : /\ Key(j)' = Key(j) /\ log'[j].user = log[j].user
                     /\ log'[j].channel = log[j].channel
                     /\ log'[j].created = log[j].created
                     /\ j # i => log'[j].status = log[j].status
                     /\ log'[j].status = "absent" <=> log[j].status = "absent"
  BY <1>1 DEF Key, Log
<1>4. \A j : (j \in Stored)' <=> j \in Stored
  BY <1>3 DEF Stored
<1>5. walk' = [walk EXCEPT !.due = IF walk.filter.status = "any" THEN walk.due
                                   ELSE walk.due \ {i}]
  BY DEF Sent
<1>6. /\ walk'.pc = walk.pc /\ walk'.user = walk.user /\ walk'.filter = walk.filter
      /\ walk'.cursor = walk.cursor /\ walk'.pages = walk.pages
      /\ walk'.due = IF walk.filter.status = "any" THEN walk.due ELSE walk.due \ {i}
      /\ walk' \in [pc: {"idle", "paging", "done"}, user: Users \cup {Nobody},
                    filter: Filters, cursor: [created: 0..MaxTime + 1, id: Nat],
                    due: SUBSET Ids, pages: Seq(SUBSET Ids)]
  BY <1>5 DEF ListingTypeOK
<1>7. \A j \in walk'.due :
         j \in Stored /\ Matches(j, walk.user, walk.filter)
           => Matches(j, walk.user, walk.filter)'
  <2>1. \A j \in Stored : j \in Ids
    BY DEF Stored
  <2>2. \A j \in walk'.due : j = i => walk.filter.status = "any"
    BY <1>6
  <2> QED
    BY <1>3, <1>6, <2>1, <2>2 DEF Matches
<1>8. \A j \in Stored : j \in Ids
  BY DEF Stored
<1>9. Walked'
  BY <1>3, <1>4, <1>6, <1>7, <1>8, WalkIsUndisturbed
<1> QED
  BY <1>2, <1>6, <1>9 DEF ListingTypeOK

\* A row may appear anywhere, behind the cursor and before it.
LEMMA InsertKeeps ==
    ASSUME ListingTypeOK, Walked, NEW i \in Ids \ Stored,
           NEW row \in [user: Users \cup {Nobody}, channel: Channels, to: Destinations,
                        created: 0..MaxTime, status: Statuses, certain: BOOLEAN],
           log' = [log EXCEPT ![i] = row], walk' = walk
    PROVE  ListingTypeOK' /\ Walked' /\ Stored' = Stored \cup {i}
<1>1. log \in Log
  BY DEF ListingTypeOK
<1>2. log' \in Log
  BY <1>1 DEF Log, Statuses
<1>3. \A j \in Stored : j \in Ids /\ log'[j] = log[j]
  BY <1>1 DEF Stored, Log
<1>4. Stored' = Stored \cup {i}
  <2>1. i \in Ids /\ log'[i] = row /\ row.status # "absent"
    BY <1>1 DEF Log, Statuses
  <2>2. \A j \in Ids : j # i => log'[j] = log[j]
    BY <1>1 DEF Log
  <2> QED
    BY <2>1, <2>2 DEF Stored
<1>5. \A j \in Stored : Key(j)' = Key(j)
  BY <1>3 DEF Key
<1>6. \A j \in Stored : Matches(j, walk.user, walk.filter)
                          => Matches(j, walk.user, walk.filter)'
  BY <1>3 DEF Matches
<1>7. Walked'
  BY <1>3, <1>4, <1>5, <1>6, WalkIsUndisturbed
<1> QED
  BY <1>2, <1>4, <1>7 DEF ListingTypeOK

-----------------------------------------------------------------------------
\* The inductive invariant

\* The setting has the value, and nothing under way can change it.
Settled(user, channel, value) ==
    /\ GetSetting(user, channel) = value
    /\ ~ChangeUnderWay(user, channel)

SettingsAreSettled ==
    \A u \in Users, ch \in Channels :
        told[u][ch] # "unsure" => Settled(u, ch, told[u][ch])

\* An answer that no change has overtaken tells what is stored.
AnswersAreStored ==
    \A h \in Handlers, ch \in Channels :
        handlers[h].says[ch] \in Answers =>
            GetSetting(handlers[h].call.user, ch) = handlers[h].says[ch]

\* However long ago its signature was checked, a handler that is about to write a
\* setting writes it for the user who asked.
AdmittedIsOwn ==
    \A h \in Handlers :
        handlers[h].pc = "admitted" /\ handlers[h].call.op = "setting" =>
            Own(handlers[h].call, handlers[h].call.user, handlers[h].call.channel)

\* A login that no later login took over and no logout ended.
Live(i) ==
    /\ handled[i].op = "register"
    /\ \A j \in DOMAIN handled :
          j > i /\ handled[j].channel = handled[i].channel /\ handled[j].arg = handled[i].arg
            => handled[j].op = "delete" /\ handled[j].user # handled[i].user

\* The row of a token is that of its live login.
Held(ch, t) ==
    \/ /\ devices[ch][t] = NoDevice
       /\ \A i \in DOMAIN handled : handled[i].channel = ch /\ handled[i].arg = t => ~Live(i)
    \/ \E i \in DOMAIN handled :
          /\ Live(i) /\ handled[i].channel = ch /\ handled[i].arg = t
          /\ devices[ch][t] = [user |-> handled[i].user, at |-> handled[i].at]

DevicesAreHeld == \A ch \in PushChannels, t \in Tokens : Held(ch, t)

\* The logins that were carried out, and those that have read NOW() and still have
\* to write, all have times of their own.
Dated(i) == handled[i].op = "register"

Upserting(h) == handlers[h].pc = "upserting"

TimesDiffer ==
    /\ \A i \in DOMAIN handled : Dated(i) => handled[i].at <= logins
    /\ \A i, j \in DOMAIN handled :
          Dated(i) /\ Dated(j) /\ handled[i].at = handled[j].at => i = j
    /\ \A h \in Handlers : Upserting(h) =>
          /\ handlers[h].at <= logins
          /\ handlers[h].call.op = "register" /\ PushOnly(handlers[h].call)
          /\ \A i \in DOMAIN handled : Dated(i) => handled[i].at # handlers[h].at
          /\ \A g \in Handlers : Upserting(g) /\ handlers[g].at = handlers[h].at => g = h

SettingsInv == SettingsAreSettled /\ AnswersAreStored /\ AdmittedIsOwn

DevicesInv == DevicesAreHeld /\ TimesDiffer

AccountsInv == AccountsTypeOK /\ SettingsInv /\ DevicesInv

\* The policies are looked at for a user; and what the user knows to be switched
\* off gets no further than the look at the setting.
SubmitsAreStopped ==
    \A c \in Clients :
        /\ submits[c].pc \in {"checking", "hydrating"} => submits[c].user \in Users
        /\ submits[c].certain =>
              /\ submits[c].pc = "checking"
              /\ Settled(submits[c].user, submits[c].channel, "out")

ApiInv ==
    /\ TypeOK
    /\ AccountsInv
    /\ SubmitsAreStopped
    /\ OptOutIsRespected
    /\ Walked

-----------------------------------------------------------------------------
\* Settings

LEMMA CallTypes ==
    ASSUME NEW call \in Calls
    PROVE  /\ call.user \in Users
           /\ call.op \in {"look", "setting", "register", "delete"}
           /\ call.op # "look" => call.channel \in Channels
           /\ call.op = "setting" => call.arg \in Answers
           /\ call.op \in {"register", "delete"} => call.arg \in Tokens
BY CallsAssumption DEF AccountCalls

\* A request that is let through was its user's own, and in time. (Authenticate,
\* RequireUserOwnership)
LEMMA PermittedIsOwn ==
    ASSUME AccountsTypeOK, NEW q \in inbox, q.call.op = "setting", Permitted(q)
    PROVE  /\ Own(q.call, q.call.user, q.call.channel)
           /\ Pending(q, clock)
<1>1. q.call \in Calls /\ q.stamp \in Nat /\ clock \in Nat /\ Skew \in Nat
  <2>1. q \in Requests /\ clock \in 0..MaxTime
    BY DEF AccountsTypeOK
  <2> QED
    BY <2>1, AccessAssumption, AccountsAssumption DEF Requests
<1>2. /\ Authenticate(q.call, q.stamp, clock).kind = "service"
      /\ Authenticate(q.call, q.stamp, clock).behalf = q.call.user
  BY DEF Permitted, RequireUserOwnership
<1>3. ~ClerkVerify(q.call) /\ Verify(q.call, q.stamp, clock) /\ q.call.behalf = q.call.user
  <2>1. ~ClerkVerify(q.call)
    <3> SUFFICES ASSUME ClerkVerify(q.call) PROVE FALSE
      OBVIOUS
    <3>1. Authenticate(q.call, q.stamp, clock) = [kind |-> "user", behalf |-> Nobody]
      BY DEF Authenticate, ClerkVerify, Verify
    <3> QED
      BY <1>2, <3>1
  <2>2. Verify(q.call, q.stamp, clock) /\ q.call.behalf # Malformed
    <3> SUFFICES ASSUME ~(Verify(q.call, q.stamp, clock) /\ q.call.behalf # Malformed)
                 PROVE  FALSE
      OBVIOUS
    <3>1. Authenticate(q.call, q.stamp, clock) = [kind |-> "refused", behalf |-> Nobody]
      BY <2>1 DEF Authenticate
    <3> QED
      BY <1>2, <3>1
  <2>3. Authenticate(q.call, q.stamp, clock) = [kind |-> "service", behalf |-> q.call.behalf]
    BY <2>1, <2>2 DEF Authenticate
  <2> QED
    BY <1>2, <2>1, <2>2, <2>3
<1> QED
  BY <1>1, <1>3 DEF Verify, Own, Pending

\* What is settled stays so as long as the setting is not written: a handler is
\* about to change it only if it was before, or a request under way could.
LEMMA SettledStays ==
    ASSUME AccountsTypeOK, settings' = settings,
           inbox' \subseteq inbox, clock' \in Nat, clock' >= clock,
           \A h \in Handlers :
              \/ handlers'[h].pc # "admitted"
              \/ handlers'[h] = handlers[h]
              \/ \E q \in inbox : Permitted(q) /\ handlers'[h].call = q.call,
           NEW u, NEW ch, NEW value, Settled(u, ch, value)
    PROVE  Settled(u, ch, value)'
<1>1. GetSetting(u, ch)' = GetSetting(u, ch)
  BY DEF GetSetting
<1>2. \A q \in inbox : q.stamp \in Nat
  BY AccountsAssumption DEF AccountsTypeOK, Requests
<1>3. \A q \in inbox : Pending(q, clock') => Pending(q, clock)
  BY <1>2, AccessAssumption, AccountsAssumption DEF Pending, AccountsTypeOK
<1>4. ASSUME NEW h \in Handlers, handlers'[h].pc = "admitted", Own(handlers'[h].call, u, ch)
      PROVE  FALSE
  <2>1. CASE handlers'[h] = handlers[h]
    BY <1>4, <2>1 DEF Settled, ChangeUnderWay
  <2>2. CASE \E q \in inbox : Permitted(q) /\ handlers'[h].call = q.call
    <3>1. PICK q \in inbox : Permitted(q) /\ handlers'[h].call = q.call
      BY <2>2
    <3>2. Pending(q, clock)
      BY <1>4, <3>1, PermittedIsOwn DEF Own
    <3> QED
      BY <1>4, <3>1, <3>2 DEF Settled, ChangeUnderWay
  <2> QED
    BY <1>4, <2>1, <2>2
<1> QED
  BY <1>1, <1>3, <1>4 DEF Settled, ChangeUnderWay

\* A handler that goes on without writing a setting, whose answer, if it has one,
\* tells what is stored.
LEMMA GoesOnSettles ==
    ASSUME AccountsTypeOK, SettingsInv, NEW h \in Handlers, NEW s \in HandlerStates,
           handlers' = [handlers EXCEPT ![h] = s],
           inbox' \subseteq inbox, clock' = clock, settings' = settings,
           s.pc = "admitted" => \E q \in inbox : Permitted(q) /\ s.call = q.call,
           \A ch \in Channels : s.says[ch] \in Answers => GetSetting(s.call.user, ch) = s.says[ch]
    PROVE  /\ handlers' \in [Handlers -> HandlerStates]
           /\ AnswersAreStored' /\ AdmittedIsOwn'
           /\ \A u, ch, value : Settled(u, ch, value) => Settled(u, ch, value)'
<1>1. handlers' \in [Handlers -> HandlerStates]
  BY DEF AccountsTypeOK
<1>2. handlers'[h] = s /\ \A g \in Handlers : g # h => handlers'[g] = handlers[g]
  BY DEF AccountsTypeOK
<1>3. AnswersAreStored'
  BY <1>2 DEF SettingsInv, AnswersAreStored, GetSetting
<1>4. AdmittedIsOwn'
  <2>1. s.pc = "admitted" /\ s.call.op = "setting" => Own(s.call, s.call.user, s.call.channel)
    BY PermittedIsOwn
  <2> QED
    BY <1>2, <2>1 DEF SettingsInv, AdmittedIsOwn
<1>5. clock' \in Nat /\ clock' >= clock
  <2>1. clock \in 0..MaxTime
    BY DEF AccountsTypeOK
  <2> QED
    BY <2>1, AccountsAssumption
<1>6. \A g \in Handlers :
         \/ handlers'[g].pc # "admitted"
         \/ handlers'[g] = handlers[g]
         \/ \E q \in inbox : Permitted(q) /\ handlers'[g].call = q.call
  BY <1>2
<1>7. \A u, ch, value : Settled(u, ch, value) => Settled(u, ch, value)'
  BY <1>5, <1>6, SettledStays
<1> QED
  BY <1>1, <1>3, <1>4, <1>7

\* A handler keeps the login that it is about to write.
SameLogin(h) ==
    handlers'[h].at = handlers[h].at /\ handlers'[h].call = handlers[h].call

LEMMA FreeTypes ==
    /\ Free \in HandlerStates
    /\ Free.pc = "free"
    /\ Free.says = Silence
    /\ Silence \in [Channels -> Answers \cup {"unsure", "nothing"}]
    /\ \A ch \in Channels : Silence[ch] \notin Answers
BY CallsAssumption DEF Free, HandlerStates, Silence, Answers

\* What a user is told is what is stored, unless something under way can change it.
LEMMA ReplySettles ==
    ASSUME AccountsTypeOK, SettingsInv, NEW h \in Handlers, Reply(h)
    PROVE  /\ told' \in [Users -> [Channels -> Answers \cup {"unsure"}]]
           /\ \A u \in Users, ch \in Channels :
                 \/ told'[u][ch] = told[u][ch]
                 \/ told'[u][ch] = "unsure"
                 \/ Settled(u, ch, told'[u][ch])
<1> DEFINE user == handlers[h].call.user
           says == handlers[h].says
           tells(ch) == IF says[ch] = "nothing" THEN told[user][ch]
                                               ELSE Tell(user, ch, says[ch])
<1>1. told' = [told EXCEPT ![user] = [ch \in Channels |-> tells(ch)]]
  BY DEF Reply
<1>2. /\ handlers[h] \in HandlerStates
      /\ told \in [Users -> [Channels -> Answers \cup {"unsure"}]]
  BY DEF AccountsTypeOK
<1>3. handlers[h].call \in Calls /\ says \in [Channels -> Answers \cup {"unsure", "nothing"}]
  BY <1>2 DEF HandlerStates
<1>4. user \in Users
  BY <1>3, CallTypes
<1>5. ASSUME NEW ch \in Channels
      PROVE  /\ tells(ch) \in Answers \cup {"unsure"}
             /\ \/ tells(ch) = told[user][ch]
                \/ tells(ch) = "unsure"
                \/ Settled(user, ch, tells(ch))
  <2>1. CASE says[ch] = "nothing"
    BY <1>2, <1>4, <2>1
  <2>2. CASE says[ch] = "unsure" \/ ChangeUnderWay(user, ch)
    BY <2>2, <1>2, <1>4 DEF Tell
  <2>3. CASE says[ch] \in Answers /\ ~ChangeUnderWay(user, ch)
    <3>1. GetSetting(user, ch) = says[ch] /\ says[ch] # "nothing"
      BY <2>3 DEF SettingsInv, AnswersAreStored, Answers
    <3> QED
      BY <2>3, <3>1 DEF Tell, Settled
  <2>4. says[ch] \in Answers \cup {"unsure", "nothing"}
    BY <1>3
  <2> QED
    BY <2>1, <2>2, <2>3, <2>4
<1> HIDE DEF tells, user
<1>6. told' \in [Users -> [Channels -> Answers \cup {"unsure"}]]
  BY <1>1, <1>2, <1>4, <1>5
<1>7. /\ \A ch \in Channels : told'[user][ch] = tells(ch)
      /\ \A u \in Users : u # user => told'[u] = told[u]
  BY <1>1, <1>2, <1>4
<1> QED
  BY <1>5, <1>6, <1>7

\* Of the setting that is written, no user was certain; what else is settled stays
\* so, and the answers that were under way tell it no more.
LEMMA UpdateSettingSettles ==
    ASSUME AccountsTypeOK, SettingsInv, NEW h \in Handlers, UpdateSetting(h),
           NEW call, NEW user, NEW channel,
           call = handlers[h].call, user = call.user, channel = call.channel
    PROVE  /\ handlers' \in [Handlers -> HandlerStates]
           /\ settings' \in [Users -> [Channels -> Answers \cup {"none"}]]
           /\ \A g \in Handlers : Upserting(g)' => Upserting(g) /\ SameLogin(g)
           /\ AnswersAreStored' /\ AdmittedIsOwn'
           /\ \A u \in Users, ch \in Channels : \A value :
                 Settled(u, ch, value) => Settled(u, ch, value)'
<1> DEFINE over == Overtaken(user, channel)
           s == [Free EXCEPT !.pc = "answering", !.call = call,
                             !.says = [Silence EXCEPT ![channel] = call.arg]]
<1>1. /\ handlers[h].pc = "admitted" /\ call.op = "setting"
      /\ settings' = [settings EXCEPT ![user][channel] = call.arg]
      /\ handlers' = [over EXCEPT ![h] = s]
      /\ inbox' = inbox /\ clock' = clock
  BY DEF UpdateSetting, UpsertSetting
<1>2. call \in Calls /\ user \in Users /\ channel \in Channels /\ call.arg \in Answers
  <2>1. call \in Calls
    BY DEF AccountsTypeOK, HandlerStates
  <2> QED
    BY <1>1, <2>1, CallTypes
<1>3. /\ s \in HandlerStates /\ s.pc = "answering" /\ s.call = call
      /\ \A ch \in Channels : s.says[ch] = IF ch = channel THEN call.arg ELSE "nothing"
  <2>1. [Silence EXCEPT ![channel] = call.arg] \in [Channels -> Answers \cup {"unsure", "nothing"}]
    BY <1>2, FreeTypes
  <2>2. \A ch \in Channels : [Silence EXCEPT ![channel] = call.arg][ch] =
                               IF ch = channel THEN call.arg ELSE "nothing"
    BY <1>2 DEF Silence
  <2> QED
    BY <1>2, <2>1, <2>2, FreeTypes DEF HandlerStates
<1>4. ASSUME NEW g \in Handlers
      PROVE  /\ over[g] \in HandlerStates
             /\ over[g].pc = handlers[g].pc /\ over[g].call = handlers[g].call
             /\ over[g].at = handlers[g].at
             /\ \A ch \in Channels : over[g].says[ch] \in Answers =>
                   /\ over[g].says[ch] = handlers[g].says[ch]
                   /\ handlers[g].call.user # user \/ ch # channel
  <2>1. /\ handlers[g] \in HandlerStates
        /\ handlers[g].says \in [Channels -> Answers \cup {"unsure", "nothing"}]
    BY DEF AccountsTypeOK, HandlerStates
  <2>2. over[g] = IF handlers[g].call.user = user /\ handlers[g].says[channel] # "nothing"
                  THEN [handlers[g] EXCEPT !.says[channel] = "unsure"] ELSE handlers[g]
    BY DEF Overtaken
  <2>3. [handlers[g].says EXCEPT ![channel] = "unsure"]
            \in [Channels -> Answers \cup {"unsure", "nothing"}]
    BY <2>1
  <2>4. "unsure" \notin Answers /\ "nothing" \notin Answers
    BY DEF Answers
  <2> HIDE DEF over
  <2>5. CASE handlers[g].call.user = user /\ handlers[g].says[channel] # "nothing"
    <3>1. over[g] = [handlers[g] EXCEPT !.says = [handlers[g].says EXCEPT ![channel] = "unsure"]]
      BY <2>1, <2>2, <2>5 DEF HandlerStates
    <3> QED
      BY <2>1, <2>3, <2>4, <3>1 DEF HandlerStates
  <2>6. CASE ~(handlers[g].call.user = user /\ handlers[g].says[channel] # "nothing")
    BY <2>1, <2>2, <2>4, <2>6
  <2> QED
    BY <2>5, <2>6
<1>5. over \in [Handlers -> HandlerStates]
  <2>1. over = [g \in Handlers |-> over[g]]
    BY DEF Overtaken
  <2> HIDE DEF over
  <2> QED
    BY <1>4, <2>1
<1>6. /\ \A u \in Users, ch \in Channels : u # user \/ ch # channel =>
            GetSetting(u, ch)' = GetSetting(u, ch)
      /\ GetSetting(user, channel)' = call.arg
      /\ settings' \in [Users -> [Channels -> Answers \cup {"none"}]]
  <2>1. settings \in [Users -> [Channels -> Answers \cup {"none"}]]
    BY DEF AccountsTypeOK
  <2>2. settings'[user][channel] = call.arg
    BY <1>1, <1>2, <2>1
  <2>3. \A u \in Users, ch \in Channels : u # user \/ ch # channel =>
           settings'[u][ch] = settings[u][ch]
    BY <1>1, <1>2, <2>1
  <2>4. settings' \in [Users -> [Channels -> Answers \cup {"none"}]]
    BY <1>1, <1>2, <2>1
  <2> QED
    BY <1>2, <2>2, <2>3, <2>4 DEF GetSetting, Answers
<1> HIDE DEF over, s
<1>7. /\ handlers' \in [Handlers -> HandlerStates]
      /\ handlers'[h] = s /\ \A g \in Handlers : g # h => handlers'[g] = over[g]
  BY <1>1, <1>3, <1>5
<1>8. AnswersAreStored'
  <2> SUFFICES ASSUME NEW g \in Handlers, NEW ch \in Channels, NEW u,
                      u = handlers'[g].call.user, handlers'[g].says[ch] \in Answers
               PROVE  GetSetting(u, ch)' = handlers'[g].says[ch]
    BY DEF AnswersAreStored, GetSetting
  <2>1. CASE g = h
    <3>1. handlers'[g] = s
      BY <1>7, <2>1
    <3>2. "nothing" \notin Answers
      BY DEF Answers
    <3>3. ch = channel /\ handlers'[g].says[ch] = call.arg /\ handlers'[g].call = call
      BY <1>3, <3>1, <3>2
    <3> QED
      BY <1>6, <3>3
  <2>2. CASE g # h
    <3>1. handlers[g].call \in Calls
      BY DEF AccountsTypeOK, HandlerStates
    <3>2. handlers[g].call.user \in Users
      BY <3>1, CallTypes
    <3>3. /\ handlers'[g].call = handlers[g].call
          /\ handlers'[g].says[ch] = handlers[g].says[ch]
          /\ handlers[g].call.user # user \/ ch # channel
      <4>1. handlers'[g] = over[g]
        BY <1>7, <2>2
      <4> QED
        BY <1>4, <4>1
    <3>4. u \in Users /\ (u # user \/ ch # channel)
      BY <3>2, <3>3
    <3>5. GetSetting(u, ch) = handlers[g].says[ch]
      BY <3>3 DEF SettingsInv, AnswersAreStored
    <3> QED
      BY <1>6, <3>3, <3>4, <3>5
  <2> QED
    BY <2>1, <2>2
<1>9. \A g \in Handlers : handlers'[g].pc = "admitted" =>
         handlers[g].pc = "admitted" /\ handlers'[g].call = handlers[g].call
  BY <1>3, <1>4, <1>7
<1>10. AdmittedIsOwn'
  BY <1>9 DEF SettingsInv, AdmittedIsOwn
<1>11. ASSUME NEW u \in Users, NEW ch \in Channels, NEW value, Settled(u, ch, value)
       PROVE  Settled(u, ch, value)'
  <2>1. ChangeUnderWay(user, channel)
    BY <1>1 DEF SettingsInv, AdmittedIsOwn, ChangeUnderWay
  <2>2. u # user \/ ch # channel
    BY <1>11, <2>1 DEF Settled
  <2>3. GetSetting(u, ch)' = value
    BY <1>6, <1>11, <2>2 DEF Settled
  <2>4. ~ChangeUnderWay(u, ch)'
    BY <1>1, <1>9, <1>11 DEF Settled, ChangeUnderWay
  <2> QED
    BY <2>3, <2>4 DEF Settled
<1>12. \A g \in Handlers : Upserting(g)' => Upserting(g) /\ SameLogin(g)
  BY <1>3, <1>4, <1>7 DEF Upserting, SameLogin
<1> QED
  BY <1>6, <1>7, <1>8, <1>10, <1>11, <1>12

-----------------------------------------------------------------------------
\* Devices

\* No two logins with a token are live: the later one took the earlier one over.
LEMMA LiveIsUnique ==
    ASSUME handled \in Seq(Events), NEW i \in DOMAIN handled, NEW j \in DOMAIN handled,
           Live(i), Live(j), handled[i].channel = handled[j].channel,
           handled[i].arg = handled[j].arg
    PROVE  i = j
<1>1. i \in Nat /\ j \in Nat
  OBVIOUS
<1>2. ~(i < j) /\ ~(j < i)
  BY <1>1 DEF Live
<1> QED
  BY <1>1, <1>2

\* One more request is carried out.
LEMMA HandledWith ==
    ASSUME handled \in Seq(Events), NEW event \in Events, handled' = Append(handled, event)
    PROVE  LET n == Len(handled) IN
           /\ n \in Nat /\ DOMAIN handled = 1..n /\ DOMAIN handled' = 1..n + 1
           /\ handled' \in Seq(Events)
           /\ \A i \in 1..n : handled'[i] = handled[i] /\ i < n + 1 /\ i \in 1..n + 1
           /\ n + 1 \in 1..n + 1 /\ handled'[n + 1] = event
           /\ \A i \in 1..n + 1 : i \in 1..n \/ i = n + 1
           /\ \A i \in 1..n + 1 : ~(i > n + 1)
OBVIOUS

\* A login stays live through a request about another token, and through a
\* logout by somebody else.
LEMMA LiveWith ==
    ASSUME handled \in Seq(Events), NEW event \in Events, handled' = Append(handled, event),
           NEW i \in DOMAIN handled
    PROVE  Live(i)' <=>
              /\ Live(i)
              /\ event.channel = handled[i].channel /\ event.arg = handled[i].arg
                   => event.op = "delete" /\ event.user # handled[i].user
<1> DEFINE n == Len(handled)
<1>1. /\ n \in Nat /\ DOMAIN handled = 1..n /\ DOMAIN handled' = 1..n + 1
      /\ \A k \in 1..n : handled'[k] = handled[k] /\ k < n + 1 /\ k \in 1..n + 1
      /\ n + 1 \in 1..n + 1 /\ handled'[n + 1] = event
      /\ \A k \in 1..n + 1 : k \in 1..n \/ k = n + 1
  BY HandledWith
<1>2. n + 1 > i /\ handled'[i] = handled[i]
  BY <1>1
<1> HIDE DEF n
<1> QED
  BY <1>1, <1>2 DEF Live

LEMMA TokenTypes ==
    ASSUME AccountsTypeOK, NEW ch \in PushChannels
    PROVE  /\ \A t \in Tokens : devices[ch][t] \in [user: Users \cup {Nobody}, at: Nat]
           /\ \A i \in DOMAIN handled :
                 /\ handled[i] \in Events /\ handled[i].user \in Users
                 /\ handled[i].arg \in Tokens /\ handled[i].at \in Nat
<1>1. \A i \in DOMAIN handled : handled[i] \in Events
  BY DEF AccountsTypeOK
<1>2. \A event \in Events : event.user \in Users /\ event.arg \in Tokens /\ event.at \in Nat
  BY DEF Events
<1> QED
  BY <1>1, <1>2 DEF AccountsTypeOK

\* UpsertDevice: the new login is the only live one of its token.
LEMMA RegisterHolds ==
    ASSUME AccountsTypeOK, DevicesAreHeld, NEW h \in Handlers, NEW event,
           event = Event(handlers[h].call, handlers[h].at), event \in Events,
           RegisterDevice(h), event.op = "register"
    PROVE  /\ DevicesAreHeld'
           /\ devices' \in [PushChannels -> [Tokens -> [user: Users \cup {Nobody}, at: Nat]]]
<1> DEFINE channel == event.channel
           token == event.arg
<1>0. PICK n : n = Len(handled)
  OBVIOUS
<1>1. /\ handled' = Append(handled, event)
      /\ devices' = [devices EXCEPT ![channel][token] = [user |-> event.user, at |-> event.at]]
  BY DEF RegisterDevice, UpsertDevice, Event
<1>2. /\ channel \in PushChannels /\ event.user \in Users /\ token \in Tokens
      /\ event.at \in Nat
  BY DEF Events
<1>3. /\ n \in Nat /\ DOMAIN handled = 1..n /\ DOMAIN handled' = 1..n + 1
      /\ \A i \in 1..n : handled'[i] = handled[i] /\ i < n + 1 /\ i \in 1..n + 1
      /\ n + 1 \in 1..n + 1 /\ handled'[n + 1] = event
      /\ \A i \in 1..n + 1 : i \in 1..n \/ i = n + 1
      /\ \A i \in 1..n + 1 : ~(i > n + 1)
  BY <1>0, <1>1, HandledWith DEF AccountsTypeOK
<1>4. \A i \in 1..n : Live(i)' <=>
         Live(i) /\ ~(channel = handled[i].channel /\ token = handled[i].arg)
  BY <1>1, <1>3, LiveWith DEF AccountsTypeOK
<1>5. /\ devices'[channel][token] = [user |-> event.user, at |-> event.at]
      /\ \A ch \in PushChannels, t \in Tokens :
            ch # channel \/ t # token => devices'[ch][t] = devices[ch][t]
  BY <1>1, <1>2 DEF AccountsTypeOK
<1>6. devices' \in [PushChannels -> [Tokens -> [user: Users \cup {Nobody}, at: Nat]]]
  <2>1. [user |-> event.user, at |-> event.at] \in [user: Users \cup {Nobody}, at: Nat]
    BY <1>2
  <2> QED
    BY <1>1, <1>2, <2>1 DEF AccountsTypeOK
<1>7. Held(channel, token)'
  <2>1. Live(n + 1)'
    BY <1>1, <1>3 DEF Live
  <2> QED
    BY <1>3, <1>5, <2>1 DEF Held
<1>8. ASSUME NEW ch \in PushChannels, NEW t \in Tokens, ch # channel \/ t # token
      PROVE  Held(ch, t)'
  <2>1. devices'[ch][t] = devices[ch][t]
    BY <1>5, <1>8
  <2>2. CASE /\ devices[ch][t] = NoDevice
             /\ \A i \in DOMAIN handled : handled[i].channel = ch /\ handled[i].arg = t => ~Live(i)
    <3>1. \A i \in 1..n + 1 : handled'[i].channel = ch /\ handled'[i].arg = t => ~Live(i)'
      BY <1>3, <1>4, <1>8, <2>2
    <3> QED
      BY <1>3, <2>1, <2>2, <3>1 DEF Held, NoDevice
  <2>3. CASE \E i \in DOMAIN handled :
                /\ Live(i) /\ handled[i].channel = ch /\ handled[i].arg = t
                /\ devices[ch][t] = [user |-> handled[i].user, at |-> handled[i].at]
    <3>1. PICK i \in 1..n : /\ Live(i) /\ handled[i].channel = ch /\ handled[i].arg = t
                            /\ devices[ch][t] = [user |-> handled[i].user, at |-> handled[i].at]
      BY <1>3, <2>3
    <3>2. i \in 1..n + 1 /\ handled'[i] = handled[i] /\ Live(i)'
      BY <1>3, <1>4, <1>8, <3>1
    <3> QED
      BY <1>3, <2>1, <3>1, <3>2 DEF Held
  <2> QED
    BY <2>2, <2>3 DEF DevicesAreHeld, Held
<1> QED
  BY <1>6, <1>7, <1>8 DEF DevicesAreHeld

\* RemoveDevice: a logout ends the login of its own user, and no other.
LEMMA DeleteHolds ==
    ASSUME AccountsTypeOK, DevicesAreHeld, NEW h \in Handlers, NEW event,
           event = Event(handlers[h].call, 0), event \in Events, DeleteDevice(h)
    PROVE  /\ DevicesAreHeld'
           /\ devices' \in [PushChannels -> [Tokens -> [user: Users \cup {Nobody}, at: Nat]]]
<1> DEFINE channel == event.channel
           token == event.arg
<1>0. PICK n : n = Len(handled)
  OBVIOUS
<1>1. /\ event.op = "delete" /\ handled' = Append(handled, event)
      /\ devices' = [devices EXCEPT ![channel][token] =
                        IF @.user = event.user THEN NoDevice ELSE @]
  BY DEF DeleteDevice, RemoveDevice, Event
<1>2. /\ channel \in PushChannels /\ event.user \in Users /\ token \in Tokens
      /\ event.user # Nobody
  BY AccessAssumption DEF Events
<1>3. /\ n \in Nat /\ DOMAIN handled = 1..n /\ DOMAIN handled' = 1..n + 1
      /\ \A i \in 1..n : handled'[i] = handled[i] /\ i < n + 1 /\ i \in 1..n + 1
      /\ n + 1 \in 1..n + 1 /\ handled'[n + 1] = event
      /\ \A i \in 1..n + 1 : i \in 1..n \/ i = n + 1
  BY <1>0, <1>1, HandledWith DEF AccountsTypeOK
<1>4. \A i \in 1..n : Live(i)' <=>
         /\ Live(i)
         /\ channel = handled[i].channel /\ token = handled[i].arg
              => event.user # handled[i].user
  BY <1>1, <1>3, LiveWith DEF AccountsTypeOK
<1>5. /\ devices'[channel][token] = IF devices[channel][token].user = event.user
                                    THEN NoDevice ELSE devices[channel][token]
      /\ \A ch \in PushChannels, t \in Tokens :
            ch # channel \/ t # token => devices'[ch][t] = devices[ch][t]
  BY <1>1, <1>2 DEF AccountsTypeOK
<1>6. devices' \in [PushChannels -> [Tokens -> [user: Users \cup {Nobody}, at: Nat]]]
  <2>1. NoDevice \in [user: Users \cup {Nobody}, at: Nat]
    BY DEF NoDevice
  <2> QED
    BY <1>1, <1>2, <2>1 DEF AccountsTypeOK
<1>7. ~Live(n + 1)'
  BY <1>1, <1>3 DEF Live
<1>8. ASSUME NEW ch \in PushChannels, NEW t \in Tokens
      PROVE  Held(ch, t)'
  <2>1. \A i \in 1..n : Live(i)' =>  Live(i)
    BY <1>4
  <2>2. CASE /\ devices[ch][t] = NoDevice
             /\ \A i \in DOMAIN handled : handled[i].channel = ch /\ handled[i].arg = t => ~Live(i)
    <3>1. \A i \in 1..n + 1 : handled'[i].channel = ch /\ handled'[i].arg = t => ~Live(i)'
      BY <1>3, <1>7, <2>1, <2>2
    <3>2. devices'[ch][t] = NoDevice
      BY <1>2, <1>5, <2>2 DEF NoDevice
    <3> QED
      BY <1>3, <3>1, <3>2 DEF Held, NoDevice
  <2>3. CASE \E i \in DOMAIN handled :
                /\ Live(i) /\ handled[i].channel = ch /\ handled[i].arg = t
                /\ devices[ch][t] = [user |-> handled[i].user, at |-> handled[i].at]
    <3>1. PICK i \in 1..n : /\ Live(i) /\ handled[i].channel = ch /\ handled[i].arg = t
                            /\ devices[ch][t] = [user |-> handled[i].user, at |-> handled[i].at]
      BY <1>3, <2>3
    <3>2. devices[ch][t].user = handled[i].user
      BY <3>1
    <3>3. CASE ch = channel /\ t = token /\ handled[i].user = event.user
      <4>1. devices'[ch][t] = NoDevice
        BY <1>5, <3>2, <3>3
      <4>2. ASSUME NEW k \in 1..n + 1, handled'[k].channel = ch, handled'[k].arg = t
            PROVE  ~Live(k)'
        <5>1. CASE k \in 1..n
          <6>1. SUFFICES ASSUME Live(k) PROVE ~Live(k)'
            BY <2>1, <5>1
          <6>2. handled'[k] = handled[k]
            BY <1>3, <5>1
          <6>3. k = i
            BY <1>3, <3>1, <4>2, <5>1, <6>1, <6>2, LiveIsUnique DEF AccountsTypeOK
          <6> QED
            BY <1>4, <3>1, <3>3, <6>3
        <5> QED
          BY <1>3, <1>7, <4>2, <5>1
      <4> QED
        BY <1>3, <4>1, <4>2 DEF Held, NoDevice
    <3>4. CASE ~(ch = channel /\ t = token /\ handled[i].user = event.user)
      <4>1. devices'[ch][t] = devices[ch][t]
        BY <1>5, <3>2, <3>4
      <4>2. i \in 1..n + 1 /\ handled'[i] = handled[i] /\ Live(i)'
        BY <1>3, <1>4, <3>1, <3>4
      <4> QED
        BY <1>3, <3>1, <4>1, <4>2 DEF Held
    <3> QED
      BY <3>3, <3>4
  <2> QED
    BY <2>2, <2>3 DEF DevicesAreHeld, Held
<1> QED
  BY <1>6, <1>8 DEF DevicesAreHeld

\* The logins that count are those that hold a token.
LEMMA LoginsHoldTokens ==
    ASSUME AccountsTypeOK, DevicesAreHeld, NEW u \in Users, NEW ch \in PushChannels
    PROVE  /\ \A i \in Logins(u, ch) :
                 /\ i \in DOMAIN handled /\ handled[i].at \in Nat /\ Dated(i)
                 /\ handled[i].arg \in DevicesForUser(u, ch)
                 /\ devices[ch][handled[i].arg].at = handled[i].at
           /\ \A t \in DevicesForUser(u, ch) :
                 \E i \in Logins(u, ch) :
                    handled[i].arg = t /\ devices[ch][t].at = handled[i].at
<1>1. u # Nobody
  BY AccessAssumption
<1>2. \A i \in DOMAIN handled :
        i \in Logins(u, ch) <=> Live(i) /\ handled[i].user = u /\ handled[i].channel = ch
  BY DEF Logins, Live
<1>3. \A i \in Logins(u, ch) : i \in DOMAIN handled /\ handled[i].at \in Nat /\ Dated(i)
  BY TokenTypes DEF Logins, Dated
<1>4. ASSUME NEW i \in Logins(u, ch)
      PROVE  /\ handled[i].arg \in DevicesForUser(u, ch)
             /\ devices[ch][handled[i].arg].at = handled[i].at
  <2>1. i \in DOMAIN handled /\ Live(i) /\ handled[i].user = u /\ handled[i].channel = ch
    BY <1>2, <1>3
  <2> DEFINE t == handled[i].arg
  <2>2. t \in Tokens
    BY <2>1, TokenTypes
  <2>3. Held(ch, t)
    BY <2>2 DEF DevicesAreHeld
  <2>4. PICK k \in DOMAIN handled :
            /\ Live(k) /\ handled[k].channel = ch /\ handled[k].arg = t
            /\ devices[ch][t] = [user |-> handled[k].user, at |-> handled[k].at]
    BY <2>1, <2>3 DEF Held
  <2>5. k = i
    BY <2>1, <2>4, LiveIsUnique DEF AccountsTypeOK
  <2>6. devices[ch][t].user = u /\ devices[ch][t].at = handled[i].at
    BY <2>1, <2>4, <2>5
  <2> QED
    BY <2>2, <2>6 DEF DevicesForUser
<1>5. ASSUME NEW t \in DevicesForUser(u, ch)
      PROVE  \E i \in Logins(u, ch) : handled[i].arg = t /\ devices[ch][t].at = handled[i].at
  <2>1. t \in Tokens /\ devices[ch][t].user = u
    BY DEF DevicesForUser
  <2>2. devices[ch][t] # NoDevice
    BY <1>1, <2>1 DEF NoDevice
  <2>3. PICK k \in DOMAIN handled :
            /\ Live(k) /\ handled[k].channel = ch /\ handled[k].arg = t
            /\ devices[ch][t] = [user |-> handled[k].user, at |-> handled[k].at]
    BY <2>1, <2>2 DEF DevicesAreHeld, Held
  <2>4. handled[k].user = u /\ devices[ch][t].at = handled[k].at
    BY <2>1, <2>3
  <2> QED
    BY <1>2, <2>3, <2>4
<1> QED
  BY <1>3, <1>4, <1>5

\* The device of the last login comes first.
LEMMA LastLoginIsNewest ==
    ASSUME AccountsTypeOK, DevicesInv, NEW u \in Users, NEW ch \in PushChannels,
           NEW i \in Logins(u, ch), \A j \in Logins(u, ch) : handled[j].at <= handled[i].at
    PROVE  NewestDevice(u, ch) = handled[i].arg
<1> DEFINE newest(t) == \A s \in DevicesForUser(u, ch) : devices[ch][s].at <= devices[ch][t].at
           token == handled[i].arg
<1>1. /\ token \in DevicesForUser(u, ch) /\ devices[ch][token].at = handled[i].at
      /\ \A t \in DevicesForUser(u, ch) :
            \E k \in Logins(u, ch) :
               handled[k].arg = t /\ devices[ch][t].at = handled[k].at
      /\ \A k \in Logins(u, ch) :
            k \in DOMAIN handled /\ handled[k].at \in Nat /\ Dated(k)
  BY LoginsHoldTokens DEF DevicesInv
<1>2. newest(token)
  BY <1>1
<1>3. ASSUME NEW t \in DevicesForUser(u, ch), newest(t)
      PROVE  t = token
  <2>1. PICK k \in Logins(u, ch) : handled[k].arg = t /\ devices[ch][t].at = handled[k].at
    BY <1>1
  <2>2. handled[k].at <= handled[i].at /\ handled[i].at <= handled[k].at
    BY <1>1, <1>3, <2>1
  <2>3. handled[k].at = handled[i].at
    BY <1>1, <2>2
  <2>4. k = i
    BY <1>1, <2>3 DEF DevicesInv, TimesDiffer
  <2> QED
    BY <2>1, <2>4
<1>4. NewestDevice(u, ch) \in DevicesForUser(u, ch) /\ newest(NewestDevice(u, ch))
  BY <1>1, <1>2 DEF NewestDevice
<1> QED
  BY <1>3, <1>4

\* One of the logins that count is the last.
LEMMA LastLoginExists ==
    ASSUME AccountsTypeOK, DevicesInv, NEW u \in Users, NEW ch \in PushChannels,
           Logins(u, ch) # {}
    PROVE  \E i \in Logins(u, ch) : \A j \in Logins(u, ch) : handled[j].at <= handled[i].at
<1> DEFINE S == Logins(u, ch)
           R == {e \in S \X S : handled[e[1]].at > handled[e[2]].at}
<1>1. \A i \in S : i \in DOMAIN handled /\ handled[i].at \in Nat /\ Dated(i)
  BY LoginsHoldTokens DEF DevicesInv
<1>2. IsFiniteSet(S)
  <2>1. DOMAIN handled = 1..Len(handled) /\ Len(handled) \in Nat
    BY DEF AccountsTypeOK
  <2>2. IsFiniteSet(1..Len(handled))
    BY <2>1, FS_Interval
  <2> QED
    BY <1>1, <2>1, <2>2, FS_Subset
<1>3. \A i, j \in S : handled[i].at = handled[j].at => i = j
  BY <1>1 DEF DevicesInv, TimesDiffer
<1>4. S # {}
  OBVIOUS
<1> HIDE DEF S
<1>5. \A i, j \in S : <<i, j>> \in R <=> handled[i].at > handled[j].at
  OBVIOUS
<1> HIDE DEF R
<1>6. \E i \in S : \A j \in S \ {i} : <<i, j>> \in R
  <2>1. /\ \A i \in S : ~(handled[i].at > handled[i].at)
        /\ \A i, j \in S : i # j => handled[i].at > handled[j].at \/ handled[j].at > handled[i].at
        /\ \A i, j, k \in S : handled[i].at > handled[j].at /\ handled[j].at > handled[k].at
                                => handled[i].at > handled[k].at
    BY <1>1, <1>3
  <2>2. /\ \A i \in S : <<i, i>> \notin R
        /\ \A i, j \in S : i # j => <<i, j>> \in R \/ <<j, i>> \in R
        /\ \A i, j, k \in S : <<i, j>> \in R /\ <<j, k>> \in R => <<i, k>> \in R
    BY <1>5, <2>1
  <2> QED
    BY <1>2, <1>4, <2>2, FiniteMinimum, SMTT(60)
<1>7. PICK i \in S : \A j \in S \ {i} : <<i, j>> \in R
  BY <1>6
<1>8. \A j \in S : j # i => handled[i].at > handled[j].at
  BY <1>5, <1>7
<1>9. \A j \in S : handled[j].at <= handled[i].at
  BY <1>1, <1>8
<1> QED
  BY <1>9 DEF S

LEMMA HeldReachesLastLogin ==
    ASSUME AccountsTypeOK, DevicesInv
    PROVE  PushReachesLastLogin
<1> SUFFICES ASSUME NEW u \in Users, NEW ch \in PushChannels
             PROVE  /\ Logins(u, ch) = {} <=> DevicesForUser(u, ch) = {}
                    /\ \A i \in Logins(u, ch) :
                          (\A j \in Logins(u, ch) : handled[j].at <= handled[i].at)
                             => NewestDevice(u, ch) = handled[i].arg
  BY DEF PushReachesLastLogin
<1>1. Logins(u, ch) = {} <=> DevicesForUser(u, ch) = {}
  BY LoginsHoldTokens DEF DevicesInv
<1> QED
  BY <1>1, LastLoginIsNewest

\* A user with a device has one that comes first.
LEMMA NewestIsToken ==
    ASSUME AccountsTypeOK, DevicesInv, NEW u \in Users, NEW ch \in PushChannels,
           DevicesForUser(u, ch) # {}
    PROVE  NewestDevice(u, ch) \in Tokens
<1>1. Logins(u, ch) # {}
  BY LoginsHoldTokens DEF DevicesInv
<1>2. PICK i \in Logins(u, ch) : \A j \in Logins(u, ch) : handled[j].at <= handled[i].at
  BY <1>1, LastLoginExists
<1>3. handled[i].arg \in DevicesForUser(u, ch)
  BY LoginsHoldTokens DEF DevicesInv
<1> QED
  BY <1>2, <1>3, LastLoginIsNewest DEF DevicesForUser

\* Handlers that free themselves, or have no login to write, leave the times alone.
LEMMA TimesStay ==
    ASSUME TimesDiffer, handled' = handled, logins' = logins,
           \A h \in Handlers : Upserting(h)' => Upserting(h) /\ SameLogin(h)
    PROVE  TimesDiffer'
BY DEF TimesDiffer, SameLogin, Dated, Upserting, PushOnly

\* NOW() is later than all that was read before it.
LEMMA LoginTimeDates ==
    ASSUME AccountsTypeOK, TimesDiffer, NEW h \in Handlers, LoginTime(h)
    PROVE  TimesDiffer' /\ logins' \in Nat
<1>1. /\ logins \in Nat /\ logins' = logins + 1 /\ handled' = handled
      /\ handlers[h].call.op = "register" /\ PushOnly(handlers[h].call)
  BY DEF LoginTime, AccountsTypeOK
<1>2. /\ handlers'[h].at = logins + 1 /\ handlers'[h].call = handlers[h].call
      /\ \A g \in Handlers : g # h => handlers'[g] = handlers[g]
  <2>1. handlers' = [handlers EXCEPT ![h] = [handlers[h] EXCEPT !.pc = "upserting",
                                                                !.at = logins + 1]]
    BY DEF LoginTime, AccountsTypeOK
  <2>2. handlers[h] \in HandlerStates
    BY DEF AccountsTypeOK
  <2> QED
    BY <2>1, <2>2 DEF AccountsTypeOK, HandlerStates
<1>3. /\ \A i \in DOMAIN handled : handled[i].at \in Nat
      /\ \A g \in Handlers : handlers[g].at \in Nat
  <2>1. \A i \in DOMAIN handled : handled[i] \in Events
    BY DEF AccountsTypeOK
  <2>2. \A g \in Handlers : handlers[g] \in HandlerStates
    BY DEF AccountsTypeOK
  <2> QED
    BY <2>1, <2>2 DEF Events, HandlerStates
<1>4. \A i \in DOMAIN handled : Dated(i)' <=> Dated(i)
  BY <1>1 DEF Dated
<1>5. \A g \in Handlers : g # h => (Upserting(g)' <=> Upserting(g))
  BY <1>2 DEF Upserting
<1>6. /\ \A i \in DOMAIN handled : Dated(i) => handled[i].at <= logins' /\ handled[i].at # logins'
      /\ \A g \in Handlers : Upserting(g) => handlers[g].at <= logins' /\ handlers[g].at # logins'
  BY <1>1, <1>3 DEF TimesDiffer
<1>7. ASSUME NEW g \in Handlers, Upserting(g)'
      PROVE  /\ handlers'[g].at <= logins'
             /\ handlers'[g].call.op = "register" /\ PushOnly(handlers[g].call)'
             /\ \A i \in DOMAIN handled : Dated(i) => handled[i].at # handlers'[g].at
             /\ \A k \in Handlers : Upserting(k)' /\ handlers'[k].at = handlers'[g].at => k = g
  <2>1. CASE g = h
    BY <1>1, <1>2, <1>5, <1>6, <2>1 DEF PushOnly
  <2>2. CASE g # h
    <3>1. Upserting(g) /\ handlers'[g] = handlers[g]
      BY <1>2, <1>5, <1>7, <2>2
    <3> QED
      BY <1>1, <1>2, <1>5, <1>6, <3>1 DEF TimesDiffer, PushOnly
  <2> QED
    BY <2>1, <2>2
<1> QED
  BY <1>1, <1>4, <1>6, <1>7 DEF TimesDiffer

\* A login that is written keeps its time, a logout has none.
LEMMA EventKeepsTimes ==
    ASSUME AccountsTypeOK, TimesDiffer, NEW h \in Handlers, NEW event \in Events,
           handled' = Append(handled, event), handlers' = [handlers EXCEPT ![h] = Free],
           logins' = logins,
           event.op = "register" => Upserting(h) /\ event.at = handlers[h].at
    PROVE  TimesDiffer'
<1>0. PICK n : n = Len(handled)
  OBVIOUS
<1>1. /\ n \in Nat /\ DOMAIN handled = 1..n /\ DOMAIN handled' = 1..n + 1
      /\ \A i \in 1..n : handled'[i] = handled[i] /\ i < n + 1 /\ i \in 1..n + 1
      /\ n + 1 \in 1..n + 1 /\ handled'[n + 1] = event
      /\ \A i \in 1..n + 1 : i \in 1..n \/ i = n + 1
  BY <1>0, HandledWith DEF AccountsTypeOK
<1>2. /\ \A i \in 1..n : Dated(i)' <=> Dated(i)
      /\ Dated(n + 1)' => Upserting(h) /\ handled'[n + 1].at = handlers[h].at
  BY <1>1 DEF Dated
<1>3. /\ ~Upserting(h)'
      /\ \A g \in Handlers : g # h =>
            handlers'[g] = handlers[g] /\ (Upserting(g)' <=> Upserting(g))
  BY FreeTypes DEF AccountsTypeOK, Upserting
<1>4. \A i \in 1..n + 1 : Dated(i)' => handled'[i].at <= logins
  BY <1>1, <1>2 DEF TimesDiffer
<1>5. ASSUME NEW i \in 1..n + 1, NEW j \in 1..n + 1, Dated(i)', Dated(j)',
             handled'[i].at = handled'[j].at
      PROVE  i = j
  BY <1>1, <1>2, <1>5 DEF TimesDiffer
<1>6. ASSUME NEW g \in Handlers, Upserting(g)', NEW i \in 1..n + 1, Dated(i)'
      PROVE  handled'[i].at # handlers'[g].at
  BY <1>1, <1>2, <1>3, <1>6 DEF TimesDiffer
<1>7. ASSUME NEW g \in Handlers, Upserting(g)'
      PROVE  /\ handlers'[g].at <= logins
             /\ handlers'[g].call.op = "register" /\ PushOnly(handlers[g].call)'
             /\ \A k \in Handlers : Upserting(k)' /\ handlers'[k].at = handlers'[g].at => k = g
  BY <1>3, <1>7 DEF TimesDiffer, PushOnly
<1> QED
  BY <1>1, <1>4, <1>5, <1>6, <1>7 DEF TimesDiffer

-----------------------------------------------------------------------------
\* The steps of Accounts

LEMMA AccountsStart ==
    ASSUME AccountsInit
    PROVE  AccountsInv
<1>1. AccountsTypeOK
  <2>1. /\ inbox = {} /\ handled = <<>> /\ logins = 0 /\ clock = 0
        /\ handlers = [h \in Handlers |-> Free]
        /\ settings = [u \in Users |-> [ch \in Channels |-> "none"]]
        /\ told = [u \in Users |-> [ch \in Channels |-> "unsure"]]
        /\ devices = [ch \in PushChannels |-> [t \in Tokens |-> NoDevice]]
    BY DEF AccountsInit
  <2>2. handlers \in [Handlers -> HandlerStates]
    BY <2>1, FreeTypes
  <2>3. devices \in [PushChannels -> [Tokens -> [user: Users \cup {Nobody}, at: Nat]]]
    BY <2>1 DEF NoDevice
  <2> QED
    BY <2>1, <2>2, <2>3, AccountsAssumption DEF AccountsTypeOK
<1>2. \A h \in Handlers : handlers[h].pc = "free" /\ handlers[h].says = Silence
  BY FreeTypes DEF AccountsInit
<1>3. SettingsAreSettled
  BY DEF AccountsInit, SettingsAreSettled
<1>4. AnswersAreStored /\ AdmittedIsOwn
  BY <1>2, FreeTypes DEF AnswersAreStored, AdmittedIsOwn
<1>5. DevicesAreHeld /\ TimesDiffer
  <2>1. handled = <<>> /\ DOMAIN handled = {}
    BY DEF AccountsInit
  <2> QED
    BY <1>2, <2>1 DEF AccountsInit, DevicesAreHeld, Held, NoDevice, TimesDiffer, Upserting
<1> QED
  BY <1>1, <1>3, <1>4, <1>5 DEF AccountsInv, SettingsInv, DevicesInv

LEMMA DevicesStill ==
    ASSUME DevicesAreHeld, devices' = devices, handled' = handled
    PROVE  DevicesAreHeld'
BY DEF DevicesAreHeld, Held, Live, NoDevice

\* What users knew before, they may count on still.
LEMMA ToldSettles ==
    ASSUME SettingsAreSettled,
           \A u \in Users, ch \in Channels :
              /\ \A value : Settled(u, ch, value) => Settled(u, ch, value)'
              /\ \/ told'[u][ch] = told[u][ch]
                 \/ told'[u][ch] = "unsure"
                 \/ Settled(u, ch, told'[u][ch])
    PROVE  SettingsAreSettled'
<1> SUFFICES ASSUME NEW u \in Users, NEW ch \in Channels, NEW value,
                    value = told'[u][ch], value # "unsure"
             PROVE  Settled(u, ch, value)'
  BY DEF SettingsAreSettled, Settled, GetSetting
<1>1. Settled(u, ch, value)
  BY DEF SettingsAreSettled
<1> QED
  BY <1>1

\* A user who asks for another value counts on nothing until an answer comes.
LEMMA SendKeeps ==
    ASSUME AccountsInv, NEW call \in Calls, Send(call)
    PROVE  /\ AccountsInv'
           /\ \A u \in Users, ch \in Channels : \A value :
                 Settled(u, ch, value) /\ ~Own(call, u, ch) => Settled(u, ch, value)'
<1> DEFINE q == [call |-> call, stamp |-> clock]
           own == call.op = "setting" /\ Own(call, call.user, call.channel)
<1>1. /\ AccountsTypeOK /\ SettingsAreSettled /\ AnswersAreStored /\ AdmittedIsOwn
      /\ DevicesAreHeld /\ TimesDiffer
  BY DEF AccountsInv, SettingsInv, DevicesInv
<1>2. /\ inbox' = inbox \cup {q} /\ q.call = call
      /\ told' = IF own THEN [told EXCEPT ![call.user][call.channel] = "unsure"] ELSE told
      /\ clock' = clock /\ handlers' = handlers /\ settings' = settings
      /\ devices' = devices /\ logins' = logins /\ handled' = handled
  BY DEF Send
<1>3. inbox' \in SUBSET Requests
  <2>1. clock \in 0..MaxTime /\ inbox \in SUBSET Requests
    BY <1>1 DEF AccountsTypeOK
  <2> QED
    BY <1>2, <2>1 DEF Requests
<1> HIDE DEF q
<1>4. own => call.user \in Users /\ call.channel \in Channels
  BY CallTypes
<1>5. told' \in [Users -> [Channels -> Answers \cup {"unsure"}]]
  <2>1. told \in [Users -> [Channels -> Answers \cup {"unsure"}]]
    BY <1>1 DEF AccountsTypeOK
  <2> HIDE DEF own
  <2> QED
    BY <1>2, <1>4, <2>1
<1>6. AccountsTypeOK'
  BY <1>1, <1>2, <1>3, <1>5 DEF AccountsTypeOK
<1>7. ASSUME NEW u \in Users, NEW ch \in Channels, NEW value,
             Settled(u, ch, value), ~Own(call, u, ch)
      PROVE  Settled(u, ch, value)'
  BY <1>2, <1>7 DEF Settled, ChangeUnderWay, GetSetting, Pending
<1>8. SettingsAreSettled'
  <2> SUFFICES ASSUME NEW u \in Users, NEW ch \in Channels, NEW value,
                      value = told'[u][ch], value # "unsure"
               PROVE  Settled(u, ch, value)'
    BY DEF SettingsAreSettled, Settled, GetSetting
  <2>1. told \in [Users -> [Channels -> Answers \cup {"unsure"}]]
    BY <1>1 DEF AccountsTypeOK
  <2>2. Own(call, u, ch) => own /\ u = call.user /\ ch = call.channel
    BY DEF Own
  <2> HIDE DEF own
  <2>3. value = told[u][ch] /\ ~Own(call, u, ch)
    BY <1>2, <1>4, <2>1, <2>2
  <2> QED
    BY <1>1, <1>7, <2>3 DEF SettingsAreSettled
<1>9. AnswersAreStored' /\ AdmittedIsOwn'
  BY <1>1, <1>2 DEF AnswersAreStored, AdmittedIsOwn, GetSetting
<1>10. TimesDiffer'
  BY <1>1, <1>2, TimesStay DEF Upserting, SameLogin
<1> QED
  BY <1>1, <1>2, <1>6, <1>7, <1>8, <1>9, <1>10, DevicesStill
     DEF AccountsInv, SettingsInv, DevicesInv

\* The rest of what is to be shown of a step that keeps the answers and does not
\* unsettle a setting.
LEMMA StepKeeps ==
    ASSUME AccountsInv, inbox' \subseteq inbox, clock' \in 0..MaxTime,
           handlers' \in [Handlers -> HandlerStates],
           settings' \in [Users -> [Channels -> Answers \cup {"none"}]],
           devices' \in [PushChannels -> [Tokens -> [user: Users \cup {Nobody}, at: Nat]]],
           logins' \in Nat, handled' \in Seq(Events),
           AnswersAreStored', AdmittedIsOwn',
           \A u \in Users, ch \in Channels : \A value :
              Settled(u, ch, value) => Settled(u, ch, value)',
           told' = told \/ (\E h \in Handlers : Reply(h)),
           DevicesAreHeld', TimesDiffer'
    PROVE  AccountsInv'
<1>1. AccountsTypeOK /\ SettingsAreSettled /\ SettingsInv
  BY DEF AccountsInv, SettingsInv
<1>2. /\ told' \in [Users -> [Channels -> Answers \cup {"unsure"}]]
      /\ \A u \in Users, ch \in Channels :
            \/ told'[u][ch] = told[u][ch]
            \/ told'[u][ch] = "unsure"
            \/ Settled(u, ch, told'[u][ch])
  <2>1. CASE told' = told
    BY <1>1, <2>1 DEF AccountsTypeOK
  <2>2. CASE \E h \in Handlers : Reply(h)
    BY <1>1, <2>2, ReplySettles
  <2> QED
    BY <2>1, <2>2
<1>3. SettingsAreSettled'
  BY <1>1, <1>2, ToldSettles
<1>4. inbox' \in SUBSET Requests
  BY <1>1 DEF AccountsTypeOK
<1>5. AccountsTypeOK'
  BY <1>2, <1>4 DEF AccountsTypeOK
<1> QED
  BY <1>3, <1>5 DEF AccountsInv, SettingsInv, DevicesInv

\* Steps that leave devices alone, and start no login.
LEMMA OtherStepKeeps ==
    ASSUME AccountsInv, inbox' \subseteq inbox, clock' \in 0..MaxTime,
           handlers' \in [Handlers -> HandlerStates],
           settings' \in [Users -> [Channels -> Answers \cup {"none"}]],
           AnswersAreStored', AdmittedIsOwn',
           \A u \in Users, ch \in Channels : \A value :
              Settled(u, ch, value) => Settled(u, ch, value)',
           told' = told \/ (\E h \in Handlers : Reply(h)),
           UNCHANGED <<devices, logins, handled>>,
           \A h \in Handlers : Upserting(h)' => Upserting(h) /\ SameLogin(h)
    PROVE  AccountsInv'
<1>1. AccountsTypeOK /\ DevicesAreHeld /\ TimesDiffer
  BY DEF AccountsInv, DevicesInv
<1>2. DevicesAreHeld' /\ TimesDiffer'
  BY <1>1, DevicesStill, TimesStay
<1>3. /\ devices' \in [PushChannels -> [Tokens -> [user: Users \cup {Nobody}, at: Nat]]]
      /\ logins' \in Nat /\ handled' \in Seq(Events)
  BY <1>1 DEF AccountsTypeOK
<1> QED
  BY <1>2, <1>3, StepKeeps

LEMMA TickKeeps ==
    ASSUME AccountsInv, Tick
    PROVE  /\ AccountsInv'
           /\ \A u \in Users, ch \in Channels : \A value :
                 Settled(u, ch, value) => Settled(u, ch, value)'
<1>1. AccountsTypeOK /\ AnswersAreStored /\ AdmittedIsOwn
  BY DEF AccountsInv, SettingsInv
<1>2. clock' \in 0..MaxTime /\ clock' \in Nat /\ clock' >= clock
  <2>1. clock \in 0..MaxTime /\ clock < MaxTime /\ clock' = clock + 1
    BY <1>1 DEF AccountsTypeOK, Tick
  <2> QED
    BY <2>1, AccountsAssumption
<1>3. /\ inbox' = inbox /\ handlers' = handlers /\ settings' = settings /\ told' = told
      /\ UNCHANGED <<devices, logins, handled>>
  BY DEF Tick
<1>4. \A u \in Users, ch \in Channels : \A value :
         Settled(u, ch, value) => Settled(u, ch, value)'
  BY <1>1, <1>2, <1>3, SettledStays
<1>5. AnswersAreStored' /\ AdmittedIsOwn'
  BY <1>1, <1>3 DEF AnswersAreStored, AdmittedIsOwn, GetSetting
<1>6. \A h \in Handlers : Upserting(h)' => Upserting(h) /\ SameLogin(h)
  BY <1>3 DEF Upserting, SameLogin
<1>7. /\ handlers' \in [Handlers -> HandlerStates]
      /\ settings' \in [Users -> [Channels -> Answers \cup {"none"}]]
  BY <1>1, <1>3 DEF AccountsTypeOK
<1> QED
  BY <1>2, <1>3, <1>4, <1>5, <1>6, <1>7, OtherStepKeeps

\* A request that fails is gone.
LEMMA FailKeeps ==
    ASSUME AccountsInv, NEW q \in inbox, Fail(q)
    PROVE  /\ AccountsInv'
           /\ \A u \in Users, ch \in Channels : \A value :
                 Settled(u, ch, value) => Settled(u, ch, value)'
<1>1. AccountsTypeOK /\ AnswersAreStored /\ AdmittedIsOwn
  BY DEF AccountsInv, SettingsInv
<1>2. /\ inbox' \subseteq inbox /\ clock' = clock /\ handlers' = handlers
      /\ settings' = settings /\ told' = told
      /\ UNCHANGED <<devices, logins, handled>>
  BY DEF Fail
<1>3. clock' \in 0..MaxTime /\ clock' \in Nat /\ clock' >= clock
  <2>1. clock \in 0..MaxTime
    BY <1>1 DEF AccountsTypeOK
  <2> QED
    BY <1>2, <2>1, AccountsAssumption
<1>4. \A u \in Users, ch \in Channels : \A value :
         Settled(u, ch, value) => Settled(u, ch, value)'
  BY <1>1, <1>2, <1>3, SettledStays
<1>5. AnswersAreStored' /\ AdmittedIsOwn'
  BY <1>1, <1>2 DEF AnswersAreStored, AdmittedIsOwn, GetSetting
<1>6. \A h \in Handlers : Upserting(h)' => Upserting(h) /\ SameLogin(h)
  BY <1>2 DEF Upserting, SameLogin
<1>7. /\ handlers' \in [Handlers -> HandlerStates]
      /\ settings' \in [Users -> [Channels -> Answers \cup {"none"}]]
  BY <1>1, <1>2 DEF AccountsTypeOK
<1> QED
  BY <1>2, <1>3, <1>4, <1>5, <1>6, <1>7, OtherStepKeeps

\* A handler goes on, and neither settings nor devices change.
LEMMA HandlerGoesOn ==
    ASSUME AccountsInv, NEW h \in Handlers, NEW s \in HandlerStates,
           handlers' = [handlers EXCEPT ![h] = s],
           inbox' \subseteq inbox, clock' = clock, settings' = settings,
           UNCHANGED <<devices, logins, handled>>,
           told' = told \/ Reply(h),
           s.pc # "upserting",
           s.pc = "admitted" => \E q \in inbox : Permitted(q) /\ s.call = q.call,
           \A ch \in Channels : s.says[ch] \in Answers => GetSetting(s.call.user, ch) = s.says[ch]
    PROVE  /\ AccountsInv'
           /\ \A u \in Users, ch \in Channels : \A value :
                 Settled(u, ch, value) => Settled(u, ch, value)'
<1>1. AccountsTypeOK /\ SettingsInv
  BY DEF AccountsInv
<1>2. /\ handlers' \in [Handlers -> HandlerStates]
      /\ AnswersAreStored' /\ AdmittedIsOwn'
      /\ \A u \in Users, ch \in Channels : \A value :
            Settled(u, ch, value) => Settled(u, ch, value)'
  BY <1>1, GoesOnSettles
<1>3. \A g \in Handlers : Upserting(g)' => Upserting(g) /\ SameLogin(g)
  BY <1>1 DEF AccountsTypeOK, Upserting, SameLogin
<1>4. clock' \in 0..MaxTime /\ settings' \in [Users -> [Channels -> Answers \cup {"none"}]]
  BY <1>1 DEF AccountsTypeOK
<1> QED
  BY <1>2, <1>3, <1>4, OtherStepKeeps

\* A request that is let through, for the first time or again.
LEMMA AdmitKeeps ==
    ASSUME AccountsInv, NEW h \in Handlers, NEW q \in inbox,
           Receive(h, q) \/ ReceiveCopy(h, q)
    PROVE  /\ AccountsInv'
           /\ \A u \in Users, ch \in Channels : \A value :
                 Settled(u, ch, value) => Settled(u, ch, value)'
<1> DEFINE s == [Free EXCEPT !.pc = "admitted", !.call = q.call]
<1>1. /\ Permitted(q) /\ handlers' = [handlers EXCEPT ![h] = s]
      /\ inbox' \subseteq inbox /\ clock' = clock /\ settings' = settings /\ told' = told
      /\ UNCHANGED <<devices, logins, handled>>
  BY DEF Receive, ReceiveCopy, Admit
<1>2. q.call \in Calls
  BY DEF AccountsInv, AccountsTypeOK, Requests
<1>3. /\ s \in HandlerStates /\ s.pc = "admitted" /\ s.call = q.call
      /\ \A ch \in Channels : s.says[ch] \notin Answers
  BY <1>2, FreeTypes DEF HandlerStates
<1> HIDE DEF s
<1> QED
  BY <1>1, <1>3, HandlerGoesOn

LEMMA DropKeeps ==
    ASSUME AccountsInv, NEW h \in Handlers, Drop(h)
    PROVE  /\ AccountsInv'
           /\ \A u \in Users, ch \in Channels : \A value :
                 Settled(u, ch, value) => Settled(u, ch, value)'
<1>1. /\ handlers' = [handlers EXCEPT ![h] = Free]
      /\ inbox' = inbox /\ clock' = clock /\ settings' = settings /\ told' = told
      /\ UNCHANGED <<devices, logins, handled>>
  BY DEF Drop
<1> QED
  BY <1>1, FreeTypes, HandlerGoesOn

LEMMA ReplyKeeps ==
    ASSUME AccountsInv, NEW h \in Handlers, Reply(h)
    PROVE  /\ AccountsInv'
           /\ \A u \in Users, ch \in Channels : \A value :
                 Settled(u, ch, value) => Settled(u, ch, value)'
<1>1. /\ handlers' = [handlers EXCEPT ![h] = Free]
      /\ inbox' = inbox /\ clock' = clock /\ settings' = settings
      /\ UNCHANGED <<devices, logins, handled>>
  BY DEF Reply
<1> QED
  BY <1>1, FreeTypes, HandlerGoesOn

\* ListSettings tells what GetSetting finds.
LEMMA GetSettingsKeeps ==
    ASSUME AccountsInv, NEW h \in Handlers, GetSettings(h)
    PROVE  /\ AccountsInv'
           /\ \A u \in Users, ch \in Channels : \A value :
                 Settled(u, ch, value) => Settled(u, ch, value)'
<1> DEFINE user == handlers[h].call.user
           s == [handlers[h] EXCEPT !.pc = "answering", !.says = ListSettings(user)]
<1>1. /\ handlers[h] \in HandlerStates /\ handlers \in [Handlers -> HandlerStates]
      /\ settings \in [Users -> [Channels -> Answers \cup {"none"}]]
  BY DEF AccountsInv, AccountsTypeOK
<1>2. /\ handlers' = [handlers EXCEPT ![h] = s]
      /\ inbox' = inbox /\ clock' = clock /\ settings' = settings /\ told' = told
      /\ UNCHANGED <<devices, logins, handled>>
  BY <1>1 DEF GetSettings
<1>3. user \in Users
  BY <1>1, CallTypes DEF HandlerStates
<1>4. \A ch \in Channels : /\ ListSettings(user)[ch] = GetSetting(user, ch)
                           /\ ListSettings(user)[ch] \in Answers
  BY <1>1, <1>3 DEF ListSettings, GetSetting, Answers
<1>5. ListSettings(user) \in [Channels -> Answers \cup {"unsure", "nothing"}]
  <2>1. ListSettings(user) = [ch \in Channels |-> ListSettings(user)[ch]]
    BY DEF ListSettings
  <2> QED
    BY <1>4, <2>1
<1>6. /\ s \in HandlerStates /\ s.pc = "answering" /\ s.call.user = user
      /\ s.says = ListSettings(user)
  <2> HIDE DEF user
  <2> QED
    BY <1>1, <1>5 DEF HandlerStates, user
<1>7. \A ch \in Channels : s.says[ch] \in Answers => GetSetting(s.call.user, ch) = s.says[ch]
  BY <1>4, <1>6
<1> HIDE DEF s
<1> QED
  BY <1>2, <1>6, <1>7, HandlerGoesOn

LEMMA UpdateSettingKeeps ==
    ASSUME AccountsInv, NEW h \in Handlers, UpdateSetting(h)
    PROVE  /\ AccountsInv'
           /\ \A u \in Users, ch \in Channels : \A value :
                 Settled(u, ch, value) => Settled(u, ch, value)'
<1>1. AccountsTypeOK /\ SettingsInv
  BY DEF AccountsInv
<1>2. /\ handlers' \in [Handlers -> HandlerStates]
      /\ settings' \in [Users -> [Channels -> Answers \cup {"none"}]]
      /\ \A g \in Handlers : Upserting(g)' => Upserting(g) /\ SameLogin(g)
      /\ AnswersAreStored' /\ AdmittedIsOwn'
      /\ \A u \in Users, ch \in Channels : \A value :
            Settled(u, ch, value) => Settled(u, ch, value)'
  BY <1>1, UpdateSettingSettles
<1>3. /\ inbox' = inbox /\ clock' = clock /\ told' = told
      /\ UNCHANGED <<devices, logins, handled>>
  BY DEF UpdateSetting
<1>4. clock' \in 0..MaxTime
  BY <1>1, <1>3 DEF AccountsTypeOK
<1> QED
  BY <1>2, <1>3, <1>4, OtherStepKeeps

\* A handler that reads NOW(), or writes a device, leaves the settings alone.
LEMMA DeviceStepKeeps ==
    ASSUME AccountsInv, NEW h \in Handlers,
           LoginTime(h) \/ RegisterDevice(h) \/ DeleteDevice(h)
    PROVE  /\ AccountsInv'
           /\ \A u \in Users, ch \in Channels : \A value :
                 Settled(u, ch, value) => Settled(u, ch, value)'
<1>1. AccountsTypeOK /\ SettingsInv /\ DevicesAreHeld /\ TimesDiffer
  BY DEF AccountsInv, DevicesInv
<1>2. /\ inbox' = inbox /\ clock' = clock /\ settings' = settings /\ told' = told
      /\ clock' \in 0..MaxTime
      /\ settings' \in [Users -> [Channels -> Answers \cup {"none"}]]
  BY <1>1 DEF LoginTime, RegisterDevice, DeleteDevice, AccountsTypeOK
<1>3. /\ handlers[h] \in HandlerStates /\ handlers[h].call \in Calls
      /\ handlers \in [Handlers -> HandlerStates] /\ logins \in Nat
  <2>1. handlers[h] \in HandlerStates
    BY <1>1 DEF AccountsTypeOK
  <2> QED
    BY <1>1, <2>1 DEF AccountsTypeOK, HandlerStates
<1>4. /\ handlers' \in [Handlers -> HandlerStates]
      /\ AnswersAreStored' /\ AdmittedIsOwn'
      /\ \A u \in Users, ch \in Channels : \A value :
            Settled(u, ch, value) => Settled(u, ch, value)'
  <2>1. CASE handlers' = [handlers EXCEPT ![h] = Free]
    BY <1>1, <1>2, <2>1, FreeTypes, GoesOnSettles
  <2>2. CASE LoginTime(h)
    <3>0. PICK s : s = [handlers[h] EXCEPT !.pc = "upserting", !.at = logins + 1]
      OBVIOUS
    <3>1. handlers' = [handlers EXCEPT ![h] = s]
      BY <1>3, <2>2, <3>0 DEF LoginTime
    <3>2. /\ s \in HandlerStates /\ s.pc = "upserting"
          /\ s.call = handlers[h].call /\ s.says = handlers[h].says
      <4>1. logins + 1 \in Nat
        BY <1>3
      <4> QED
        BY <1>3, <3>0, <4>1 DEF HandlerStates
    <3>3. \A ch \in Channels : s.says[ch] \in Answers => GetSetting(s.call.user, ch) = s.says[ch]
      BY <1>1, <3>2 DEF SettingsInv, AnswersAreStored
    <3> QED
      BY <1>1, <1>2, <3>1, <3>2, <3>3, GoesOnSettles
  <2> QED
    BY <2>1, <2>2 DEF RegisterDevice, DeleteDevice
<1>5. /\ DevicesAreHeld' /\ TimesDiffer'
      /\ devices' \in [PushChannels -> [Tokens -> [user: Users \cup {Nobody}, at: Nat]]]
      /\ logins' \in Nat /\ handled' \in Seq(Events)
  <2>1. CASE LoginTime(h)
    <3>1. devices' = devices /\ handled' = handled
      BY <2>1 DEF LoginTime
    <3> QED
      BY <1>1, <2>1, <3>1, LoginTimeDates, DevicesStill DEF AccountsTypeOK
  <2>2. CASE RegisterDevice(h)
    <3>1. PICK event : event = Event(handlers[h].call, handlers[h].at)
      OBVIOUS
    <3>2. /\ Upserting(h) /\ logins' = logins /\ handlers' = [handlers EXCEPT ![h] = Free]
          /\ handled' = Append(handled, event)
      BY <2>2, <3>1 DEF RegisterDevice, Upserting
    <3>3. handlers[h].call.op = "register" /\ handlers[h].call.channel \in PushChannels
      BY <1>1, <3>2 DEF TimesDiffer, PushOnly
    <3>4. handlers[h].at \in Nat
      BY <1>3 DEF HandlerStates
    <3>5. event \in Events /\ event.op = "register" /\ event.at = handlers[h].at
      BY <1>3, <3>1, <3>3, <3>4, CallTypes DEF Event, Events
    <3> QED
      BY <1>1, <1>3, <2>2, <3>1, <3>2, <3>5, RegisterHolds, EventKeepsTimes, HandledWith
         DEF AccountsTypeOK
  <2>3. CASE DeleteDevice(h)
    <3>1. PICK event : event = Event(handlers[h].call, 0)
      OBVIOUS
    <3>2. /\ logins' = logins /\ handlers' = [handlers EXCEPT ![h] = Free]
          /\ handled' = Append(handled, event)
          /\ handlers[h].call.op = "delete" /\ handlers[h].call.channel \in PushChannels
      BY <2>3, <3>1 DEF DeleteDevice, PushOnly
    <3>3. event \in Events /\ event.op = "delete"
      BY <1>3, <3>1, <3>2, CallTypes DEF Event, Events
    <3> QED
      BY <1>1, <1>3, <2>3, <3>1, <3>2, <3>3, DeleteHolds, EventKeepsTimes, HandledWith
         DEF AccountsTypeOK
  <2> QED
    BY <2>1, <2>2, <2>3
<1> QED
  BY <1>2, <1>4, <1>5, StepKeeps

\* A step of the accounts unsettles no setting.
LEMMA HandlersKeep ==
    ASSUME AccountsInv,
           AccountStep \/ (\E h \in Handlers, q \in inbox : ReceiveCopy(h, q))
    PROVE  /\ AccountsInv'
           /\ \A u \in Users, ch \in Channels : \A value :
                 Settled(u, ch, value) => Settled(u, ch, value)'
<1>1. CASE \E q \in inbox : Fail(q)
  BY <1>1, FailKeeps
<1>2. CASE \E h \in Handlers, q \in inbox : Receive(h, q) \/ ReceiveCopy(h, q)
  BY <1>2, AdmitKeeps
<1>3. CASE \E h \in Handlers : UpdateSetting(h)
  BY <1>3, UpdateSettingKeeps
<1>4. CASE \E h \in Handlers : GetSettings(h)
  BY <1>4, GetSettingsKeeps
<1>5. CASE \E h \in Handlers : Reply(h)
  BY <1>5, ReplyKeeps
<1>6. CASE \E h \in Handlers : Drop(h)
  BY <1>6, DropKeeps
<1>7. CASE \E h \in Handlers : LoginTime(h) \/ RegisterDevice(h) \/ DeleteDevice(h)
  BY <1>7, DeviceStepKeeps
<1> QED
  BY <1>1, <1>2, <1>3, <1>4, <1>5, <1>6, <1>7 DEF AccountStep, HandlerStep

-----------------------------------------------------------------------------
\* Submissions

LEMMA NoSubmitTypes == NoSubmit \in Submits
BY AccountsAssumption DEF NoSubmit, Submits, Destinations

\* Settings that are settled stay so while the accounts change elsewhere.
LEMMA SubmitsStill ==
    ASSUME submits \in [Clients -> Submits], SubmitsAreStopped, submits' = submits,
           \A u \in Users, ch \in Channels : \A value :
              Settled(u, ch, value) => Settled(u, ch, value)'
    PROVE  SubmitsAreStopped'
<1> SUFFICES ASSUME NEW c \in Clients, NEW u, NEW ch,
                    u = submits[c].user, ch = submits[c].channel
             PROVE  /\ submits[c].pc \in {"checking", "hydrating"} => u \in Users
                    /\ submits[c].certain =>
                          submits[c].pc = "checking" /\ Settled(u, ch, "out")'
  BY DEF SubmitsAreStopped, Settled, GetSetting, ChangeUnderWay
<1>1. submits[c].channel \in Channels
  BY DEF Submits
<1> QED
  BY <1>1 DEF SubmitsAreStopped

LEMMA SettledStill ==
    ASSUME UNCHANGED accountVars, NEW u, NEW ch, NEW value
    PROVE  Settled(u, ch, value)' <=> Settled(u, ch, value)
BY DEF accountVars, Settled, GetSetting, ChangeUnderWay, Pending

\* An answer ends the submission; the others go on.
LEMMA AnswerKeeps ==
    ASSUME submits \in [Clients -> Submits], SubmitsAreStopped, NEW c \in Clients,
           Answer(c), UNCHANGED accountVars
    PROVE  submits' \in [Clients -> Submits] /\ SubmitsAreStopped'
<1>1. /\ submits' = [submits EXCEPT ![c] = NoSubmit]
      /\ NoSubmit.certain = FALSE
      /\ NoSubmit.pc = "idle"
  BY DEF Answer, NoSubmit
<1>2. submits' \in [Clients -> Submits]
  BY <1>1, NoSubmitTypes
<1>3. \A d \in Clients : submits'[d] = IF d = c THEN NoSubmit ELSE submits[d]
  BY <1>1
<1>4. SubmitsAreStopped'
  <2> SUFFICES ASSUME NEW d \in Clients, NEW u, NEW ch,
                      u = submits'[d].user, ch = submits'[d].channel
               PROVE  /\ submits'[d].pc \in {"checking", "hydrating"} => u \in Users
                      /\ submits'[d].certain =>
                            submits'[d].pc = "checking" /\ Settled(u, ch, "out")'
    BY DEF SubmitsAreStopped, Settled, GetSetting, ChangeUnderWay
  <2> QED
    BY <1>1, <1>3, SettledStill DEF SubmitsAreStopped
<1> QED
  BY <1>2, <1>4

\* A submission that goes on, and of which the user is not certain, is one of any.
LEMMA GoesOnKeeps ==
    ASSUME submits \in [Clients -> Submits], SubmitsAreStopped, NEW c \in Clients,
           NEW s \in Submits, ~s.certain, s.pc = "persisting" \/ s.user \in Users,
           submits' = [submits EXCEPT ![c] = s], UNCHANGED accountVars
    PROVE  submits' \in [Clients -> Submits] /\ SubmitsAreStopped'
<1>1. \A d \in Clients : submits'[d] = IF d = c THEN s ELSE submits[d]
  OBVIOUS
<1>2. SubmitsAreStopped'
  <2> SUFFICES ASSUME NEW d \in Clients, NEW u, NEW ch,
                      u = submits'[d].user, ch = submits'[d].channel
               PROVE  /\ submits'[d].pc \in {"checking", "hydrating"} => u \in Users
                      /\ submits'[d].certain =>
                            submits'[d].pc = "checking" /\ Settled(u, ch, "out")'
    BY DEF SubmitsAreStopped, Settled, GetSetting, ChangeUnderWay
  <2> QED
    BY <1>1, SettledStill DEF SubmitsAreStopped
<1> QED
  BY <1>2

LEMMA BeginKeeps ==
    ASSUME AccountsInv, submits \in [Clients -> Submits], SubmitsAreStopped,
           NEW c \in Clients, NEW call \in Submissions, Begin(c, call)
    PROVE  submits' \in [Clients -> Submits] /\ SubmitsAreStopped'
<1> DEFINE s == [pc |-> IF call.user = Nobody THEN "persisting" ELSE "checking",
                 user |-> call.user, channel |-> call.channel, given |-> call.given,
                 began |-> clock, to |-> IF call.given THEN "given" ELSE "none",
                 certain |-> call.user # Nobody /\ told[call.user][call.channel] = "out"]
<1>1. submits' = [submits EXCEPT ![c] = s] /\ UNCHANGED accountVars
  BY DEF Begin
<1>2. /\ call.user \in Users \cup {Nobody} /\ call.channel \in Channels
      /\ call.given \in BOOLEAN
  BY ApiAssumption
<1>3. clock \in 0..MaxTime
  BY DEF AccountsInv, AccountsTypeOK
<1>4. s \in Submits
  BY <1>2, <1>3 DEF Submits, Destinations
<1>5. /\ s.certain => s.pc = "checking" /\ Settled(s.user, s.channel, "out")
      /\ s.pc \in {"checking", "hydrating"} => s.user \in Users
  BY <1>2 DEF AccountsInv, SettingsInv, SettingsAreSettled
<1> HIDE DEF s
<1>6. \A d \in Clients : submits'[d] = IF d = c THEN s ELSE submits[d]
  BY <1>1
<1>7. SubmitsAreStopped'
  <2> SUFFICES ASSUME NEW d \in Clients, NEW u, NEW ch,
                      u = submits'[d].user, ch = submits'[d].channel
               PROVE  /\ submits'[d].pc \in {"checking", "hydrating"} => u \in Users
                      /\ submits'[d].certain =>
                            submits'[d].pc = "checking" /\ Settled(u, ch, "out")'
    BY DEF SubmitsAreStopped, Settled, GetSetting, ChangeUnderWay
  <2> QED
    BY <1>1, <1>5, <1>6, SettledStill DEF SubmitsAreStopped
<1> QED
  BY <1>1, <1>4, <1>7

\* Only a submission whose user was not certain gets past the look at the setting.
LEMMA CheckOptInKeeps ==
    ASSUME AccountsInv, submits \in [Clients -> Submits], SubmitsAreStopped,
           NEW c \in Clients, CheckOptIn(c), UNCHANGED accountVars
    PROVE  submits' \in [Clients -> Submits] /\ SubmitsAreStopped'
<1>1. CASE GetSetting(submits[c].user, submits[c].channel) = "out"
  BY <1>1, AnswerKeeps DEF CheckOptIn
<1>2. CASE GetSetting(submits[c].user, submits[c].channel) # "out"
  <2> DEFINE s == [submits[c] EXCEPT !.pc = "hydrating"]
  <2>1. submits' = [submits EXCEPT ![c] = s]
    BY <1>2 DEF CheckOptIn
  <2>2. submits[c] \in Submits /\ submits[c].user \in Users
    BY DEF CheckOptIn, SubmitsAreStopped
  <2>3. s \in Submits /\ s.certain = submits[c].certain /\ s.user \in Users
    BY <2>2 DEF Submits
  <2>4. ~submits[c].certain
    BY <1>2 DEF SubmitsAreStopped, Settled
  <2> HIDE DEF s
  <2> QED
    BY <2>1, <2>3, <2>4, GoesOnKeeps
<1> QED
  BY <1>1, <1>2

LEMMA HydrateKeeps ==
    ASSUME AccountsInv, submits \in [Clients -> Submits], SubmitsAreStopped,
           NEW c \in Clients, Hydrate(c), UNCHANGED accountVars
    PROVE  submits' \in [Clients -> Submits] /\ SubmitsAreStopped'
<1>1. submits[c] \in Submits /\ submits[c].pc = "hydrating" /\ ~submits[c].certain
  BY DEF Hydrate, SubmitsAreStopped
<1>2. CASE submits' = [submits EXCEPT ![c].pc = "persisting", ![c].to = "given"]
  <2>1. PICK s : s = [submits[c] EXCEPT !.pc = "persisting", !.to = "given"]
    OBVIOUS
  <2>2. submits' = [submits EXCEPT ![c] = s]
    BY <1>2, <2>1
  <2>3. "given" \in Destinations
    BY DEF Destinations
  <2>4. s \in Submits /\ ~s.certain /\ s.pc = "persisting"
    BY <1>1, <2>1, <2>3 DEF Submits
  <2> QED
    BY <2>2, <2>4, GoesOnKeeps
<1>3. CASE submits' = [submits EXCEPT ![c].pc = "persisting", ![c].to = "address"]
  <2>1. PICK s : s = [submits[c] EXCEPT !.pc = "persisting", !.to = "address"]
    OBVIOUS
  <2>2. submits' = [submits EXCEPT ![c] = s]
    BY <1>3, <2>1
  <2>3. "address" \in Destinations
    BY DEF Destinations
  <2>4. s \in Submits /\ ~s.certain /\ s.pc = "persisting"
    BY <1>1, <2>1, <2>3 DEF Submits
  <2> QED
    BY <2>2, <2>4, GoesOnKeeps
<1>4. CASE Answer(c)
  BY <1>4, AnswerKeeps
<1>5. CASE /\ submits[c].channel \in PushChannels
           /\ DevicesForUser(submits[c].user, submits[c].channel) # {}
           /\ submits' = [submits EXCEPT ![c].pc = "persisting",
                 ![c].to = NewestDevice(submits[c].user, submits[c].channel)]
  <2>1. submits[c].user \in Users
    BY <1>1 DEF SubmitsAreStopped
  <2>2. NewestDevice(submits[c].user, submits[c].channel) \in Tokens
    BY <1>5, <2>1, NewestIsToken DEF AccountsInv
  <2>3. NewestDevice(submits[c].user, submits[c].channel) \in Destinations
    BY <2>2 DEF Destinations
  <2>4. PICK s : s = [submits[c] EXCEPT !.pc = "persisting",
                         !.to = NewestDevice(submits[c].user, submits[c].channel)]
    OBVIOUS
  <2>5. submits' = [submits EXCEPT ![c] = s]
    BY <1>5, <2>4
  <2>6. s \in Submits /\ ~s.certain /\ s.pc = "persisting"
    BY <1>1, <2>3, <2>4 DEF Submits
  <2> QED
    BY <2>5, <2>6, GoesOnKeeps
<1> QED
  BY <1>2, <1>3, <1>4, <1>5 DEF Hydrate

-----------------------------------------------------------------------------
\* Every step

LEMMA ListingStill ==
    ASSUME ListingTypeOK, Walked, UNCHANGED listVars
    PROVE  ListingTypeOK' /\ Walked'
BY DEF listVars, ListingTypeOK, Walked, Shown, Stored, Key, Matches, Log

LEMMA AccountsStill ==
    ASSUME AccountsInv, UNCHANGED accountVars
    PROVE  AccountsInv'
<1>1. AccountsTypeOK'
  BY DEF accountVars, AccountsInv, AccountsTypeOK
<1>2. SettingsInv'
  BY DEF accountVars, AccountsInv, SettingsInv, SettingsAreSettled, AnswersAreStored,
         AdmittedIsOwn, Settled, GetSetting, ChangeUnderWay, Pending
<1>3. DevicesInv'
  BY DevicesStill, TimesStay DEF accountVars, AccountsInv, DevicesInv, Upserting, SameLogin
<1> QED
  BY <1>1, <1>2, <1>3 DEF AccountsInv

LEMMA BudgetKeeps ==
    ASSUME budget \in [Loads -> Nat], NEW load \in Loads, Spend(load)
    PROVE  budget' \in [Loads -> Nat]
BY DEF Spend

\* What a submission stores, the user had not been told to be switched off.
LEMMA PersistKeeps ==
    ASSUME ApiInv, NEW c \in Clients, Persist(c), UNCHANGED <<accountVars, walk, budget>>
    PROVE  ApiInv'
<1> DEFINE s == submits[c]
<1>1. /\ AccountsInv /\ ListingTypeOK /\ Walked /\ SubmitsAreStopped /\ OptOutIsRespected
      /\ submits \in [Clients -> Submits] /\ budget \in [Loads -> Nat]
  BY DEF ApiInv, TypeOK, AccountsInv
<1>2. Answer(c) /\ s.pc = "persisting" /\ s \in Submits /\ ~s.certain
  BY <1>1 DEF Persist, SubmitsAreStopped
<1>3. submits' \in [Clients -> Submits] /\ SubmitsAreStopped'
  BY <1>1, <1>2, AnswerKeeps
<1>4. ListingTypeOK' /\ Walked' /\ OptOutIsRespected'
  <2>1. CASE UNCHANGED log
    BY <1>1, <2>1, ListingStill DEF listVars, OptOutIsRespected, Stored
  <2>2. CASE \E i \in Ids \ Stored, now \in s.began .. clock :
                log' = [log EXCEPT ![i] = NewNotification(s, now)]
    <3>1. PICK i \in Ids \ Stored, now \in s.began .. clock :
                log' = [log EXCEPT ![i] = NewNotification(s, now)]
      BY <2>2
    <3> DEFINE row == NewNotification(s, now)
    <3>0. now \in 0..MaxTime
      <4>1. s.began \in 0..MaxTime /\ clock \in 0..MaxTime
        BY <1>1, <1>2 DEF Submits, AccountsInv, AccountsTypeOK
      <4> QED
        BY <4>1, AccountsAssumption
    <3>2. /\ row \in [user: Users \cup {Nobody}, channel: Channels, to: Destinations,
                      created: 0..MaxTime, status: Statuses, certain: BOOLEAN]
          /\ ~row.certain
      BY <1>2, <3>0 DEF NewNotification, Submits, Statuses
    <3> HIDE DEF row
    <3>3. ListingTypeOK' /\ Walked' /\ Stored' = Stored \cup {i}
      BY <1>1, <3>1, <3>2, InsertKeeps DEF row
    <3>4. \A j \in Stored' : ~log'[j].certain
      <4>1. log'[i] = row /\ \A j \in Stored : log'[j] = log[j]
        BY <1>1, <3>1 DEF ListingTypeOK, Log, Stored, row
      <4> QED
        BY <1>1, <3>2, <3>3, <4>1 DEF OptOutIsRespected
    <3> QED
      BY <3>3, <3>4 DEF OptOutIsRespected
  <2> QED
    BY <2>1, <2>2 DEF Persist
<1>5. AccountsInv' /\ budget' = budget
  BY <1>1, AccountsStill
<1> QED
  BY <1>1, <1>3, <1>4, <1>5 DEF ApiInv, TypeOK, AccountsInv

LEMMA SubmitStepKeeps ==
    ASSUME ApiInv, NEW c \in Clients, SubmitStep(c)
    PROVE  ApiInv'
<1>1. /\ AccountsInv /\ ListingTypeOK /\ Walked /\ SubmitsAreStopped /\ OptOutIsRespected
      /\ submits \in [Clients -> Submits] /\ budget \in [Loads -> Nat]
  BY DEF ApiInv, TypeOK, AccountsInv
<1>2. CASE /\ CheckOptIn(c) \/ Hydrate(c) \/ Abandon(c)
           /\ UNCHANGED <<accountVars, listVars, budget>>
  <2>1. submits' \in [Clients -> Submits] /\ SubmitsAreStopped'
    BY <1>1, <1>2, CheckOptInKeeps, HydrateKeeps, AnswerKeeps DEF Abandon
  <2>2. ListingTypeOK' /\ Walked' /\ AccountsInv' /\ budget' = budget
    BY <1>1, <1>2, ListingStill, AccountsStill
  <2>3. OptOutIsRespected'
    BY <1>1, <1>2 DEF listVars, OptOutIsRespected, Stored
  <2> QED
    BY <1>1, <2>1, <2>2, <2>3 DEF ApiInv, TypeOK, AccountsInv
<1>3. CASE Persist(c) /\ UNCHANGED <<accountVars, walk, budget>>
  BY <1>3, PersistKeeps
<1> QED
  BY <1>2, <1>3 DEF SubmitStep

\* The user expects something else now of the submissions under way.
LEMMA SendRequestKeeps ==
    ASSUME ApiInv, NEW call \in Calls, SendRequest(call)
    PROVE  ApiInv'
<1>1. /\ AccountsInv /\ ListingTypeOK /\ Walked /\ SubmitsAreStopped /\ OptOutIsRespected
      /\ submits \in [Clients -> Submits] /\ budget \in [Loads -> Nat]
  BY DEF ApiInv, TypeOK, AccountsInv
<1>2. /\ AccountsInv'
      /\ \A u \in Users, ch \in Channels : \A value :
            Settled(u, ch, value) /\ ~Own(call, u, ch) => Settled(u, ch, value)'
  BY <1>1, SendKeeps DEF SendRequest
<1>3. budget' \in [Loads -> Nat]
  BY <1>1, BudgetKeeps DEF SendRequest, Load, Loads
<1>4. ListingTypeOK' /\ Walked' /\ OptOutIsRespected'
  BY <1>1, ListingStill DEF SendRequest, listVars, OptOutIsRespected, Stored
<1>5. submits' = [c \in Clients |-> [submits[c] EXCEPT !.certain =
                      @ /\ ~Own(call, submits[c].user, submits[c].channel)]]
  BY DEF SendRequest
<1>6. ASSUME NEW c \in Clients
      PROVE  /\ submits'[c] \in Submits
             /\ submits'[c].pc = submits[c].pc /\ submits'[c].user = submits[c].user
             /\ submits'[c].channel = submits[c].channel
             /\ submits'[c].certain =>
                   submits[c].certain /\ ~Own(call, submits[c].user, submits[c].channel)
  <2>1. submits[c] \in Submits
    BY <1>1
  <2>2. submits'[c] = [submits[c] EXCEPT !.certain =
                          submits[c].certain /\ ~Own(call, submits[c].user, submits[c].channel)]
    BY <1>5
  <2> QED
    BY <2>1, <2>2 DEF Submits
<1>7. submits' \in [Clients -> Submits]
  BY <1>5, <1>6
<1>8. SubmitsAreStopped'
  <2> SUFFICES ASSUME NEW c \in Clients, NEW u, NEW ch,
                      u = submits'[c].user, ch = submits'[c].channel
               PROVE  /\ submits'[c].pc \in {"checking", "hydrating"} => u \in Users
                      /\ submits'[c].certain =>
                            submits'[c].pc = "checking" /\ Settled(u, ch, "out")'
    BY DEF SubmitsAreStopped, Settled, GetSetting, ChangeUnderWay
  <2>1. ch \in Channels
    BY <1>1, <1>6 DEF Submits
  <2> QED
    BY <1>1, <1>2, <1>6, <2>1 DEF SubmitsAreStopped
<1> QED
  BY <1>2, <1>3, <1>4, <1>7, <1>8 DEF ApiInv, TypeOK, AccountsInv

\* No other step of the accounts unsettles what users know.
LEMMA AccountStepKeeps ==
    ASSUME ApiInv, UNCHANGED <<listVars, submits>>, budget' \in [Loads -> Nat],
           AccountStep \/ (\E h \in Handlers, q \in inbox : ReceiveCopy(h, q)) \/ Tick
    PROVE  ApiInv'
<1>1. /\ AccountsInv /\ ListingTypeOK /\ Walked /\ SubmitsAreStopped /\ OptOutIsRespected
      /\ submits \in [Clients -> Submits]
  BY DEF ApiInv, TypeOK
<1>2. /\ AccountsInv'
      /\ \A u \in Users, ch \in Channels : \A value :
            Settled(u, ch, value) => Settled(u, ch, value)'
  BY <1>1, TickKeeps, HandlersKeep
<1>3. SubmitsAreStopped' /\ submits' = submits
  BY <1>1, <1>2, SubmitsStill
<1>4. ListingTypeOK' /\ Walked' /\ OptOutIsRespected'
  BY <1>1, ListingStill DEF listVars, OptOutIsRespected, Stored
<1> QED
  BY <1>1, <1>2, <1>3, <1>4 DEF ApiInv, TypeOK, AccountsInv

\* The steps of the list change nothing else.
LEMMA ListingStepKeeps ==
    ASSUME ApiInv, UNCHANGED <<accountVars, submits>>, budget' \in [Loads -> Nat],
           ListingTypeOK', Walked',
           log' = log \/ (\E i \in Ids : Sent(i))
    PROVE  ApiInv'
<1>1. /\ AccountsInv /\ ListingTypeOK /\ SubmitsAreStopped /\ OptOutIsRespected
      /\ submits \in [Clients -> Submits]
  BY DEF ApiInv, TypeOK, AccountsInv
<1>2. AccountsInv' /\ SubmitsAreStopped'
  BY <1>1, AccountsStill, SubmitsStill, SettledStill
<1>3. OptOutIsRespected'
  <2>1. CASE log' = log
    BY <1>1, <2>1 DEF OptOutIsRespected, Stored
  <2>2. CASE \E i \in Ids : Sent(i)
    <3>1. PICK i \in Ids : Sent(i)
      BY <2>2
    <3>2. /\ log[i].status = "enqueued" /\ log \in Log
          /\ log' = [log EXCEPT ![i] = [log[i] EXCEPT !.status = "sent"]]
      BY <1>1, <3>1 DEF Sent, ListingTypeOK
    <3>3. \A j \in Ids : /\ log'[j].certain = log[j].certain
                         /\ log'[j].status # "absent" => log[j].status # "absent"
      BY <3>2 DEF Log
    <3> QED
      BY <1>1, <3>3 DEF OptOutIsRespected, Stored
  <2> QED
    BY <2>1, <2>2
<1> QED
  BY <1>1, <1>2, <1>3 DEF ApiInv, TypeOK, AccountsInv

LEMMA ApiInvStarts == Init => ApiInv
<1> SUFFICES ASSUME Init PROVE ApiInv
  OBVIOUS
<1>1. AccountsInv
  BY AccountsStart DEF Init
<1>2. ListingTypeOK /\ Walked
  BY ListingStarts, AccountsAssumption DEF Init
<1>3. submits \in [Clients -> Submits] /\ SubmitsAreStopped
  <2>1. submits = [c \in Clients |-> NoSubmit]
    BY DEF Init
  <2>2. NoSubmit.pc = "idle" /\ NoSubmit.certain = FALSE
    BY DEF NoSubmit
  <2> QED
    BY <2>1, <2>2, NoSubmitTypes DEF SubmitsAreStopped
<1>4. budget \in [Loads -> Nat]
  BY ApiAssumption DEF Init
<1>5. OptOutIsRespected
  <2>1. Stored = {}
    BY DEF Init, ListingInit, Stored
  <2> QED
    BY <2>1 DEF OptOutIsRespected
<1> QED
  BY <1>1, <1>2, <1>3, <1>4, <1>5 DEF ApiInv, TypeOK, AccountsInv

LEMMA ApiInvKeeps == ApiInv /\ [Next]_vars => ApiInv'
<1> SUFFICES ASSUME ApiInv, [Next]_vars PROVE ApiInv'
  OBVIOUS
<1>1. /\ AccountsInv /\ ListingTypeOK /\ Walked /\ SubmitsAreStopped /\ OptOutIsRespected
      /\ submits \in [Clients -> Submits] /\ budget \in [Loads -> Nat]
  BY DEF ApiInv, TypeOK, AccountsInv
<1>2. \A load \in Loads : Spend(load) => budget' \in [Loads -> Nat]
  BY <1>1, BudgetKeeps
<1>3. ASSUME NEW call \in Calls, SendRequest(call)
      PROVE  ApiInv'
  BY <1>3, SendRequestKeeps
<1>4. CASE AccountStep /\ UNCHANGED <<listVars, submits, budget>>
  BY <1>1, <1>4, AccountStepKeeps
<1>5. ASSUME NEW h \in Handlers, NEW q \in inbox, ReceiveCopy(h, q), Spend("copy"),
             UNCHANGED <<listVars, submits>>
      PROVE  ApiInv'
  BY <1>2, <1>5, AccountStepKeeps DEF Loads
<1>6. CASE Tick /\ Spend("tick") /\ UNCHANGED <<listVars, submits>>
  BY <1>2, <1>6, AccountStepKeeps DEF Loads
<1>7. ASSUME NEW c \in Clients, NEW call \in Submissions, Begin(c, call)
      PROVE  ApiInv'
  <2>1. submits' \in [Clients -> Submits] /\ SubmitsAreStopped'
    BY <1>1, <1>7, BeginKeeps
  <2>2. AccountsInv' /\ ListingTypeOK' /\ Walked' /\ budget' \in [Loads -> Nat]
    BY <1>1, <1>2, <1>7, AccountsStill, ListingStill DEF Begin, Loads
  <2>3. OptOutIsRespected'
    BY <1>1, <1>7 DEF Begin, listVars, OptOutIsRespected, Stored
  <2> QED
    BY <2>1, <2>2, <2>3 DEF ApiInv, TypeOK, AccountsInv
<1>8. ASSUME NEW c \in Clients, SubmitStep(c)
      PROVE  ApiInv'
  BY <1>8, SubmitStepKeeps
<1>9. ASSUME NEW u \in Users, NEW f \in Filters,
             StartWalk([kind |-> "service", behalf |-> u], f), Spend("walk"),
             UNCHANGED <<accountVars, submits>>
      PROVE  ApiInv'
  <2> DEFINE id == [kind |-> "service", behalf |-> u]
  <2>1. id \in [kind: Kinds, behalf: Users \cup {Nobody}]
    BY DEF Kinds
  <2>2. log' = log /\ budget' \in [Loads -> Nat]
    BY <1>2, <1>9 DEF StartWalk, Loads
  <2>3. ListingTypeOK' /\ Walked'
    <3> HIDE DEF id
    <3> QED
      BY <1>1, <1>9, <2>1, StartWalkKeeps DEF id
  <2> QED
    BY <1>9, <2>2, <2>3, ListingStepKeeps
<1>10. ASSUME NEW n \in Limits, ListNotifications(n),
              UNCHANGED <<accountVars, submits, budget>>
       PROVE  ApiInv'
  <2>1. log' = log
    BY <1>10 DEF ListNotifications
  <2> QED
    BY <1>1, <1>10, <2>1, ListNotificationsKeeps, ListingStepKeeps
<1>11. ASSUME NEW i \in Ids, Sent(i), Spend("sent"), UNCHANGED <<accountVars, submits>>
       PROVE  ApiInv'
  BY <1>1, <1>2, <1>11, SentKeeps, ListingStepKeeps DEF Loads
<1>12. CASE UNCHANGED vars
  <2>1. /\ UNCHANGED accountVars /\ UNCHANGED listVars /\ submits' = submits
        /\ budget' = budget
    BY <1>12 DEF vars
  <2>2. ListingTypeOK' /\ Walked' /\ log' = log
    BY <1>1, <2>1, ListingStill DEF listVars
  <2> QED
    BY <1>1, <2>1, <2>2, ListingStepKeeps
<1> QED
  BY <1>3, <1>4, <1>5, <1>6, <1>7, <1>8, <1>9, <1>10, <1>11, <1>12 DEF Next

LEMMA ApiInvHolds == Spec => []ApiInv
BY ApiInvStarts, ApiInvKeeps, PTL DEF Spec

-----------------------------------------------------------------------------
\* What the API promises

\* Every variable has its type: an answer always finds the device it looks for.
\* (NewestDevice, the cursor of List)
THEOREM Typing == Spec => []TypeOK
<1>1. ApiInv => TypeOK
  BY DEF ApiInv
<1> QED
  BY <1>1, ApiInvHolds, PTL

\* A setting that a user was told of is in force until the user asks for another,
\* if nothing that the user had asked for before could still be accepted or was
\* being handled: no late, copied or foreign request changes it, however long a
\* handler takes from the check of the signature to its write. (Verify,
\* RequireUserOwnership, UpsertSetting)
THEOREM SettingsHold == Spec => []SettingsAreAsTold
<1>1. ApiInv => SettingsAreAsTold
  BY DEF ApiInv, AccountsInv, SettingsInv, SettingsAreSettled, Settled, SettingsAreAsTold
<1> QED
  BY <1>1, ApiInvHolds, PTL

\* No notification is made on a channel that its user knows to be switched off,
\* whatever else runs at the same time. (Execute, GetSetting)
THEOREM OptOutHolds == Spec => []OptOutIsRespected
<1>1. ApiInv => OptOutIsRespected
  BY DEF ApiInv
<1> QED
  BY <1>1, ApiInvHolds, PTL

\* A submission that looks for a device finds the one on which its user logged in
\* last, after any history of logins, takeovers and logouts, in whatever order
\* their statements wrote. (UpsertDevice, DeleteDevice, DevicesForUser)
THEOREM LastLoginHolds == Spec => []PushReachesLastLogin
<1>1. ApiInv => PushReachesLastLogin
  BY HeldReachesLastLogin DEF ApiInv, AccountsInv
<1> QED
  BY <1>1, ApiInvHolds, PTL

\* A walk through the pages misses no row that was there throughout and shows none
\* twice, for any page sizes, with rows inserted and sent meanwhile. (List)
THEOREM WalkIsComplete == Spec => []PagesAreComplete
<1>1. ApiInv => PagesAreComplete
  BY WalkedIsComplete DEF ApiInv, TypeOK
<1> QED
  BY <1>1, ApiInvHolds, PTL
=============================================================================
