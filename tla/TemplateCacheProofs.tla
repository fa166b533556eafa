------------------------ MODULE TemplateCacheProofs ------------------------
(***************************************************************************)
(* A replaced template goes out of use, in the renderers and in what       *)
(* requests are given, for any number of renderers and writers and any     *)
(* TTLs.                                                                   *)
(***************************************************************************)
EXTENDS TemplateCache, TLAPS

\* What a request that will store its content carries was read from MongoDB
\* after the request began.
FreshlyLoaded ==
    \A c \in Callers :
        pc[c] \in {"storing", "caching"} => held[c] <= age[c] + 1

\* The copy in Redis was stored by a request that had run for MaxCall at most.
RedisIsYoung ==
    Live(redis, RedisTTL) => redis.stale <= redis.age + MaxCall + 1

\* What a request got was in Redis, not yet expired, after the request began.
GotIsYoung ==
    \A c \in Callers :
        pc[c] = "got" => held[c] <= RedisTTL + MaxCall + age[c]

\* A compiled copy is out of date for no longer than what it was compiled from
\* could be, and its own age.
LocalIsYoung ==
    \A c \in Renderers :
        Live(local[c], LocalTTL) =>
            local[c].stale <= RedisTTL + 2 * MaxCall + local[c].age

Young == TypeOK /\ FreshlyLoaded /\ RedisIsYoung /\ GotIsYoung /\ LocalIsYoung

-----------------------------------------------------------------------------
\* Storing what a request carries keeps the copy in Redis young. (TemplateCache.set)
LEMMA SetIsYoung ==
    ASSUME Young, NEW c \in Callers, pc[c] \in {"storing", "caching"}, Set(c)
    PROVE  redis' \in CopyOf(RedisTTL) /\ RedisIsYoung'
BY TemplateAssumption DEF Young, TypeOK, FreshlyLoaded, RedisIsYoung, Set, CopyOf,
    NewCopy, Live

\* Replacing or deleting the document outdates every copy by at most one.
\* (Update, Delete)
LEMMA OutdatingIsYoung ==
    ASSUME Young, NEW c \in Callers, OutdateCopies,
           age' = age, NEW next \in {"caching", "dropping"},
           pc' = [pc EXCEPT ![c] = next],
           held' = [d \in Callers |-> IF d = c THEN 0 ELSE Outdate(d)]
    PROVE  /\ redis' \in CopyOf(RedisTTL) /\ local' \in [Renderers -> CopyOf(LocalTTL)]
           /\ held' \in [Callers -> Nat]
           /\ FreshlyLoaded' /\ RedisIsYoung' /\ GotIsYoung' /\ LocalIsYoung'
<1> USE TemplateAssumption DEF Young, TypeOK, CopyOf
<1>1. redis' \in CopyOf(RedisTTL) /\ RedisIsYoung'
  BY DEF OutdateCopies, Outdated, Older, Live, RedisIsYoung
<1>2. local' \in [Renderers -> CopyOf(LocalTTL)] /\ LocalIsYoung'
  <2>1. \A d \in Renderers :
          /\ local'[d].age = local[d].age
          /\ local'[d] \in CopyOf(LocalTTL)
          /\ Live(local[d], LocalTTL) =>
               local'[d].stale = local[d].stale \/ local'[d].stale = 1
    BY DEF OutdateCopies, Outdated, Older, Live
  <2>2. local' \in [Renderers -> CopyOf(LocalTTL)]
    BY <2>1 DEF OutdateCopies
  <2>3. ASSUME NEW d \in Renderers, Live(local'[d], LocalTTL)
        PROVE  local'[d].stale <= RedisTTL + 2 * MaxCall + local'[d].age
    BY <2>1, <2>3 DEF LocalIsYoung, Live
  <2> QED
    BY <2>2, <2>3 DEF LocalIsYoung
<1>3. \A d \in Callers : held'[d] \in Nat /\ (held'[d] = held[d] \/ held'[d] <= 1)
  BY DEF Outdate, Carries, Older
<1>4. held' \in [Callers -> Nat]
  BY <1>3 DEF Outdate, Older
<1>5. FreshlyLoaded' /\ GotIsYoung'
  BY <1>3 DEF FreshlyLoaded, GotIsYoung
<1> QED
  BY <1>1, <1>2, <1>4, <1>5

\* Everything ages together. (the clock that both TTLs are measured with)
LEMMA TickIsYoung ==
    ASSUME Young, Tick
    PROVE  Young'
<1> USE TemplateAssumption DEF Young, TypeOK, CopyOf, Tick, Aged
<1>1. redis' \in CopyOf(RedisTTL) /\ RedisIsYoung'
  BY DEF AgedCopy, NoCopy, Live, RedisIsYoung
<1>2. local' \in [Renderers -> CopyOf(LocalTTL)] /\ LocalIsYoung'
  BY DEF AgedCopy, NoCopy, Live, LocalIsYoung
<1>3. held' \in [Callers -> Nat] /\ age' \in [Callers -> 0..MaxCall]
  OBVIOUS
<1>4. FreshlyLoaded' /\ GotIsYoung'
  BY <1>3 DEF FreshlyLoaded, GotIsYoung
<1> QED
  BY <1>1, <1>2, <1>3, <1>4

LEMMA YoungInit == Init => Young
BY TemplateAssumption DEF Init, Young, TypeOK, CopyOf, NoCopy, Live, FreshlyLoaded,
    RedisIsYoung, GotIsYoung, LocalIsYoung

LEMMA YoungStep == Young /\ [Next]_vars => Young'
<1> SUFFICES ASSUME Young, [Next]_vars PROVE Young'
  OBVIOUS
<1> USE TemplateAssumption DEF Young
<1>1. ASSUME NEW c \in Callers, Begin(c) PROVE Young'
  BY <1>1 DEF Begin, Goto, TypeOK, FreshlyLoaded, GotIsYoung, RedisIsYoung, LocalIsYoung
<1>2. ASSUME NEW c \in Callers, Read(c) PROVE Young'
  BY <1>2 DEF Read, Goto, Carry, TypeOK, CopyOf, Live, FreshlyLoaded, GotIsYoung,
      RedisIsYoung, LocalIsYoung
<1>3. ASSUME NEW c \in Callers, Load(c) PROVE Young'
  BY <1>3 DEF Load, Carry, Finish, TypeOK, FreshlyLoaded, GotIsYoung, RedisIsYoung,
      LocalIsYoung
<1>4. ASSUME NEW c \in Callers, Store(c) PROVE Young'
  <2>1. redis' \in CopyOf(RedisTTL) /\ RedisIsYoung'
    BY <1>4, SetIsYoung DEF Store
  <2>2. held[c] <= RedisTTL + MaxCall + age[c]
    BY <1>4 DEF Store, FreshlyLoaded, TypeOK
  <2> QED
    BY <1>4, <2>1, <2>2 DEF Store, Goto, TypeOK, FreshlyLoaded, GotIsYoung, LocalIsYoung
<1>5. ASSUME NEW c \in Callers, Compile(c) PROVE Young'
  <2>1. local' \in [Renderers -> CopyOf(LocalTTL)] /\ LocalIsYoung'
    BY <1>5 DEF Compile, NewCopy, CopyOf, Live, TypeOK, GotIsYoung, LocalIsYoung
  <2> QED
    BY <1>5, <2>1 DEF Compile, Finish, TypeOK, FreshlyLoaded, GotIsYoung, RedisIsYoung
<1>6. ASSUME NEW c \in Callers, Answer(c) \/ Abort(c) PROVE Young'
  BY <1>6 DEF Answer, Abort, Finish, TypeOK, FreshlyLoaded, GotIsYoung, RedisIsYoung,
      LocalIsYoung
<1>7. ASSUME NEW c \in Callers, Create(c) PROVE Young'
  BY <1>7 DEF Create, InsertOne, Carry, TypeOK, FreshlyLoaded, GotIsYoung, RedisIsYoung, LocalIsYoung
<1>8. ASSUME NEW c \in Callers, Update(c) PROVE Young'
  <2>1. pc' \in [Callers -> {"idle", "reading", "missed", "bypassing", "storing",
                             "got", "caching", "dropping"}]
    BY <1>8 DEF Update, UpdateOne, Written, TypeOK
  <2> QED
    BY <1>8, <2>1, OutdatingIsYoung DEF Update, UpdateOne, Written, TypeOK
<1>9. ASSUME NEW c \in Callers, WriteThrough(c) PROVE Young'
  <2>1. redis' \in CopyOf(RedisTTL) /\ RedisIsYoung'
    BY <1>9, SetIsYoung DEF WriteThrough
  <2> QED
    BY <1>9, <2>1 DEF WriteThrough, Finish, TypeOK, FreshlyLoaded, GotIsYoung, LocalIsYoung
<1>10. ASSUME NEW c \in Callers, Delete(c) PROVE Young'
  <2>1. /\ pc' \in [Callers -> {"idle", "reading", "missed", "bypassing", "storing",
                                "got", "caching", "dropping"}]
        /\ db' \in {"never", "exists", "deleted"}
    BY <1>10 DEF Delete, DeleteOne, Written, TypeOK
  <2> QED
    BY <1>10, <2>1, OutdatingIsYoung DEF Delete, DeleteOne, Written, TypeOK
<1>11. ASSUME NEW c \in Callers, Drop(c) PROVE Young'
  BY <1>11 DEF Drop, Finish, NoCopy, Live, CopyOf, TypeOK, FreshlyLoaded, GotIsYoung,
      RedisIsYoung, LocalIsYoung
<1>12. ASSUME NEW c \in Callers, Restart(c) PROVE Young'
  BY <1>12 DEF Restart, Finish, NoCopy, Live, CopyOf, TypeOK, FreshlyLoaded, GotIsYoung,
      RedisIsYoung, LocalIsYoung
<1>13. CASE Evict
  BY <1>13 DEF Evict, NoCopy, Live, CopyOf, TypeOK, FreshlyLoaded, GotIsYoung,
      RedisIsYoung, LocalIsYoung
<1>14. CASE Tick
  BY <1>14, TickIsYoung
<1>15. CASE UNCHANGED vars
  BY <1>15 DEF vars, TypeOK, FreshlyLoaded, GotIsYoung, RedisIsYoung, LocalIsYoung,
      Live
<1> QED
  BY <1>1, <1>2, <1>3, <1>4, <1>5, <1>6, <1>7, <1>8, <1>9, <1>10, <1>11, <1>12, <1>13,
     <1>14, <1>15 DEF Next

\* However loads, write-backs, updates and deletions overtake each other, a
\* renderer stops using a replaced content after the two TTLs and two calls.
\* (TemplateCache.Get, Renderer.lookup)
THEOREM ReplacedTemplatesExpire == Spec => []StalenessIsBounded
<1>1. Young => StalenessIsBounded
  BY TemplateAssumption DEF Young, TypeOK, CopyOf, Live, LocalIsYoung, StalenessIsBounded
<1> QED
  BY <1>1, YoungInit, YoungStep, PTL DEF Spec

\* The same induction types the module's variables. (TemplateCache, Renderer)
THEOREM TemplateTypes == Spec => []TypeOK
<1>1. Young => TypeOK
  BY DEF Young
<1> QED
  BY <1>1, YoungInit, YoungStep, PTL DEF Spec

\* What a GET answers with, and what an update or delete is checked against, was
\* replaced or deleted at most one TTL and two calls ago, however late the copy
\* in Redis was written. (TemplateCache.Get)
THEOREM ReadTemplatesAreRecent == Spec => []ReadsAreRecent
<1>1. Young => ReadsAreRecent
  BY TemplateAssumption DEF Young, TypeOK, GotIsYoung, ReadsAreRecent
<1> QED
  BY <1>1, YoungInit, YoungStep, PTL DEF Spec
=============================================================================
