--------------------------- MODULE TemplateCache ---------------------------
(***************************************************************************)
(* One template in MongoDB, its copy in Redis                              *)
(* (infrastructure/redis/template_cache.go) and its compiled copies in the *)
(* renderers of the API processes (infrastructure/rendering/renderer.go),  *)
(* with the requests that create, render, update and delete it. Every      *)
(* access to MongoDB and Redis is a step of its own.                       *)
(***************************************************************************)
EXTENDS Integers

CONSTANTS
    Renderers,  \* API processes, one singleflight lookup each
    Writers,    \* concurrent requests that update or delete the template
    LocalTTL,   \* the renderer's ttl
    RedisTTL,   \* TemplateCache.ttl
    MaxCall     \* bound: the longest request; no code enforces one

Callers == Renderers \cup Writers

ASSUME TemplateAssumption ==
    /\ Renderers \cap Writers = {}
    /\ LocalTTL \in Nat
    /\ RedisTTL \in Nat \ {0}  \* go-redis takes 0 for "no expiry"
    /\ MaxCall \in Nat

\* A content is known by how long it has been out of date: 0 for the content in
\* MongoDB, 1 for one replaced since the last tick of the clock, and so on. A
\* copy is a content and the time since it was stored.
VARIABLES
    db,         \* whether the template was never created, exists, or is deleted
    redis,      \* the copy in Redis
    local,      \* the compiled copy of each renderer
    pc, held,   \* where each request is, and the content it carries
    age         \* how long it has been running

vars == <<db, redis, local, pc, held, age>>

NoCopy(ttl) == [stale |-> 0, age |-> ttl]

NewCopy(x) == [stale |-> x, age |-> 0]

Live(copy, ttl) == copy.age < ttl

Goto(c, next) ==
    /\ pc' = [pc EXCEPT ![c] = next]
    /\ UNCHANGED <<held, age>>

Carry(c, x, next) ==
    /\ pc' = [pc EXCEPT ![c] = next]
    /\ held' = [held EXCEPT ![c] = x]
    /\ UNCHANGED age

Finish(c) ==
    /\ pc' = [pc EXCEPT ![c] = "idle"]
    /\ held' = [held EXCEPT ![c] = 0]
    /\ age' = [age EXCEPT ![c] = 0]

-----------------------------------------------------------------------------
\* TemplateCache.Get, for a renderer's lookup and for the check that precedes
\* a write

\* A lookup that finds no live compiled copy, or a write request. With the
\* circuit open Redis is passed by.
Begin(c) ==
    /\ pc[c] = "idle"
    /\ db # "never"
    /\ c \in Renderers => ~Live(local[c], LocalTTL)
    /\ \E next \in {"reading", "bypassing"} : Goto(c, next)
    /\ UNCHANGED <<db, redis, local>>

\* Mutant: a hit is written back, as if it had been loaded.
ReadRefreshes(c) ==
    /\ pc[c] = "reading"
    /\ IF Live(redis, RedisTTL) THEN Carry(c, redis.stale, "storing")
                               ELSE Goto(c, "missed")
    /\ UNCHANGED <<db, redis, local>>

\* A hit, a miss that will be written back, or an error, when nothing will.
Read(c) ==
    /\ pc[c] = "reading"
    /\ \/ Live(redis, RedisTTL) /\ Carry(c, redis.stale, "got")
       \/ ~Live(redis, RedisTTL) /\ Goto(c, "missed")
       \/ Goto(c, "bypassing")
    /\ UNCHANGED <<db, redis, local>>

\* The repository's Get; ErrNotFound or any other error ends the request.
Load(c) ==
    /\ pc[c] \in {"missed", "bypassing"}
    /\ \/ /\ db = "exists"
          /\ Carry(c, 0, IF pc[c] = "missed" THEN "storing" ELSE "got")
       \/ Finish(c)
    /\ UNCHANGED <<db, redis, local>>

\* Mutant: the copy lives for twice its TTL.
SetTooLong(c) == redis' \in {redis, [NewCopy(held[c]) EXCEPT !.age = -RedisTTL]}

\* TemplateCache.set, whose error only the breaker counts.
Set(c) == redis' \in {redis, NewCopy(held[c])}

\* The write-back of a miss.
Store(c) ==
    /\ pc[c] = "storing"
    /\ Set(c)
    /\ Goto(c, "got")
    /\ UNCHANGED <<db, local>>

-----------------------------------------------------------------------------
\* What the requests do with it

\* Mutant: the lookup leaves the new copy the expiry of the old one, so that it
\* is never refreshed.
CompileForGood(c) ==
    /\ c \in Renderers
    /\ pc[c] = "got"
    /\ local' = [local EXCEPT ![c] = [stale |-> held[c], age |-> -LocalTTL]]
    /\ Finish(c)
    /\ UNCHANGED <<db, redis>>

\* The renderer compiles the content and keeps it; a parse error leaves the
\* expired copy.
Compile(c) ==
    /\ c \in Renderers
    /\ pc[c] = "got"
    /\ local' \in {local, [local EXCEPT ![c] = NewCopy(held[c])]}
    /\ Finish(c)
    /\ UNCHANGED <<db, redis>>

\* GetTemplate answers with what it got; UpdateTemplate and DeleteTemplate refuse
\* a stranger or invalid fields, or their write finds nothing (ErrNotFound).
Answer(c) ==
    /\ c \in Writers
    /\ pc[c] = "got"
    /\ Finish(c)
    /\ UNCHANGED <<db, redis, local>>

\* The content in MongoDB is replaced: what was current is out of date.
Older(x) == IF x = 0 THEN 1 ELSE x

Outdated(copy, ttl) ==
    IF Live(copy, ttl) THEN [copy EXCEPT !.stale = Older(@)] ELSE copy

\* Only these requests carry a content.
Carries(c) == pc[c] \in {"storing", "got", "caching"}

Outdate(c) == IF Carries(c) THEN Older(held[c]) ELSE held[c]

OutdateCopies ==
    /\ redis' = Outdated(redis, RedisTTL)
    /\ local' = [c \in Renderers |-> Outdated(local[c], LocalTTL)]

\* The request of c has written the content, and goes on to the cache.
Written(c, next) ==
    /\ OutdateCopies
    /\ pc' = [pc EXCEPT ![c] = next]
    /\ held' = [d \in Callers |-> IF d = c THEN 0 ELSE Outdate(d)]
    /\ UNCHANGED age

\* The three statements of the repository. InsertOne meets no template of the
\* same id; UpdateOne sets every mutable field and is no upsert.
InsertOne == db = "never" /\ db' = "exists"

UpdateOne == db = "exists" /\ db' = "exists"

DeleteOne == db = "exists" /\ db' = "deleted"

\* CreateTemplate makes a fresh id, which nobody else knows yet.
Create(c) ==
    /\ c \in Writers
    /\ pc[c] = "idle"
    /\ InsertOne
    /\ Carry(c, 0, "caching")
    /\ UNCHANGED <<redis, local>>

\* UpdateTemplate, whose owner check and UpdateFields have passed.
Update(c) ==
    /\ c \in Writers
    /\ pc[c] = "got"
    /\ UpdateOne
    /\ Written(c, "caching")

\* The write-through of Create and Update; an open circuit skips it.
WriteThrough(c) ==
    /\ pc[c] = "caching"
    /\ Set(c)
    /\ Finish(c)
    /\ UNCHANGED <<db, local>>

\* DeleteTemplate
Delete(c) ==
    /\ c \in Writers
    /\ pc[c] = "got"
    /\ DeleteOne
    /\ Written(c, "dropping")

Drop(c) ==
    /\ pc[c] = "dropping"
    /\ redis' \in {redis, NoCopy(RedisTTL)}
    /\ Finish(c)
    /\ UNCHANGED <<db, local>>

\* The client gives up, which cancels the request's context between any two of
\* its steps.
Abort(c) ==
    /\ pc[c] # "idle"
    /\ Finish(c)
    /\ UNCHANGED <<db, redis, local>>

\* The process restarts with an empty map of compiled copies.
Restart(c) ==
    /\ c \in Renderers
    /\ local' = [local EXCEPT ![c] = NoCopy(LocalTTL)]
    /\ Finish(c)
    /\ UNCHANGED <<db, redis>>

\* Redis evicts the key or restarts.
Evict ==
    /\ redis' = NoCopy(RedisTTL)
    /\ UNCHANGED <<db, local, pc, held, age>>

-----------------------------------------------------------------------------
\* Time

Aged(x) == IF x = 0 THEN 0 ELSE x + 1

AgedCopy(copy, ttl) ==
    IF copy.age + 1 < ttl THEN [stale |-> Aged(copy.stale), age |-> copy.age + 1]
                          ELSE NoCopy(ttl)

\* The clock ticks; no request takes longer than MaxCall.
Tick ==
    /\ \A c \in Callers : pc[c] # "idle" => age[c] < MaxCall
    /\ redis' = AgedCopy(redis, RedisTTL)
    /\ local' = [c \in Renderers |-> AgedCopy(local[c], LocalTTL)]
    /\ held' = [c \in Callers |-> Aged(held[c])]
    /\ age' = [c \in Callers |-> IF pc[c] = "idle" THEN 0 ELSE age[c] + 1]
    /\ UNCHANGED <<db, pc>>

-----------------------------------------------------------------------------
Init ==
    /\ db = "never"
    /\ redis = NoCopy(RedisTTL)
    /\ local = [c \in Renderers |-> NoCopy(LocalTTL)]
    /\ pc = [c \in Callers |-> "idle"]
    /\ held = [c \in Callers |-> 0]
    /\ age = [c \in Callers |-> 0]

Next ==
    \/ \E c \in Callers :
         \/ Begin(c) \/ Read(c) \/ Load(c) \/ Store(c) \/ Compile(c) \/ Answer(c)
         \/ Create(c) \/ Update(c) \/ WriteThrough(c) \/ Delete(c) \/ Drop(c)
         \/ Abort(c) \/ Restart(c)
    \/ Evict
    \/ Tick

Spec == Init /\ [][Next]_vars

-----------------------------------------------------------------------------
CopyOf(ttl) == [stale : Nat, age : 0..ttl]

TypeOK ==
    /\ db \in {"never", "exists", "deleted"}
    /\ redis \in CopyOf(RedisTTL)
    /\ local \in [Renderers -> CopyOf(LocalTTL)]
    /\ pc \in [Callers -> {"idle", "reading", "missed", "bypassing", "storing",
                           "got", "caching", "dropping"}]
    /\ held \in [Callers -> Nat]
    /\ age \in [Callers -> 0..MaxCall]

\* However updates, deletions and write-backs overtake each other, a content is
\* rendered for at most the two TTLs and two calls after it was replaced.
\* (TemplateCache.Get's write-back, Renderer.lookup's expiresAt.)
StalenessIsBounded ==
    \A c \in Renderers :
        Live(local[c], LocalTTL) =>
            local[c].stale < LocalTTL + RedisTTL + 2 * MaxCall

\* What a request works with, for a GET's answer, for the owner check of an
\* update or delete or for a lookup, was replaced or deleted one TTL and two
\* calls ago at most, though a write-back may follow the key's deletion.
\* (TemplateCache.Get after Update or Delete.)
ReadsAreRecent ==
    \A c \in Callers : pc[c] = "got" => held[c] <= RedisTTL + 2 * MaxCall
=============================================================================
