----------------------------- MODULE RateLimiter -----------------------------
(***************************************************************************)
(* One token bucket of infrastructure/redis/ratelimit.go: the Lua script,  *)
(* the decimal rate it is given, the key's expiry, and a Redis clock that  *)
(* may be set back (a failover to a server with another clock). Redis runs *)
(* one script at a time, so a call is one step. The calls that fail open   *)
(* do not reach the bucket.                                                *)
(***************************************************************************)
EXTENDS Integers

CONSTANTS
    Limit,      \* capacity of the bucket, in tokens
    Window,     \* RateLimitWindow, in seconds
    Micro,      \* a token in units of the last decimal of %f
    Steps,      \* amounts by which the clock moves
    Horizon,    \* bound: the highest reading of the clock
    Mishaps     \* bound: clock setbacks and lost keys

\* rate = limit/window, printed with six decimals.
Rate == (2 * Limit * Micro + Window) \div (2 * Window)

Cap == Limit * Micro

\* The last part says that the rounding does not halve the rate: Window may be
\* up to Limit * Micro seconds.
ASSUME LimiterAssumption ==
    /\ Limit \in Nat \ {0}
    /\ Window \in Nat \ {0}
    /\ Micro \in Nat \ {0}
    /\ Steps \subseteq Nat
    /\ Horizon \in Nat
    /\ Mishaps \in Nat
    /\ Rate \in Nat
    /\ 2 * Window * Rate >= Cap

VARIABLES
    held,       \* the key is in Redis
    tokens, ts, \* its fields
    now,        \* the Redis clock
    granted,    \* calls allowed since the observation began
    forward,    \* seconds the clock moved forward since then
    lost,       \* keys lost since then
    lastGrant,  \* clock at the last allowed call
    mishaps     \* setbacks and losses so far

bucket == <<held, tokens, ts>>

vars == <<bucket, now, granted, forward, lost, lastGrant, mishaps>>

-----------------------------------------------------------------------------
\* The script

Elapsed == IF now > ts THEN now - ts ELSE 0

\* PEXPIRE 2 * window: an expired key reads as none.
Present == held /\ now - ts < 2 * Window

\* Mutant: tokens above the capacity are kept.
RefilledUncapped == IF Present THEN tokens + Elapsed * Rate ELSE Cap

\* The tokens a call finds after the refill.
Refilled ==
    IF Present /\ tokens + Elapsed * Rate < Cap
    THEN tokens + Elapsed * Rate ELSE Cap

\* Mutant: a refused call stores its refill and not its time.
AllowKeepsTime ==
    /\ held' = TRUE
    /\ IF Refilled >= Micro
       THEN /\ tokens' = Refilled - Micro /\ ts' = now
            /\ granted' = granted + 1
            /\ lastGrant' = now
       ELSE /\ tokens' = Refilled
            /\ ts' = IF held THEN ts ELSE now
            /\ UNCHANGED <<granted, lastGrant>>
    /\ UNCHANGED <<now, forward, lost, mishaps>>

\* Mutant: a refused call stores its time and not its refill.
AllowDropsRefill ==
    /\ held' = TRUE
    /\ ts' = now
    /\ IF Refilled >= Micro
       THEN /\ tokens' = Refilled - Micro
            /\ granted' = granted + 1
            /\ lastGrant' = now
       ELSE /\ UNCHANGED <<tokens, granted, lastGrant>>
    /\ UNCHANGED <<now, forward, lost, mishaps>>

\* RateLimiter.Allow: a call is granted if a whole token is there.
Allow ==
    /\ held' = TRUE
    /\ ts' = now
    /\ IF Refilled >= Micro
       THEN /\ tokens' = Refilled - Micro
            /\ granted' = granted + 1
            /\ lastGrant' = now
       ELSE /\ tokens' = Refilled
            /\ UNCHANGED <<granted, lastGrant>>
    /\ UNCHANGED <<now, forward, lost, mishaps>>

-----------------------------------------------------------------------------
\* Redis and its clock

Tick(d) ==
    /\ now + d <= Horizon
    /\ now' = now + d
    /\ forward' = forward + d
    /\ UNCHANGED <<bucket, granted, lost, lastGrant, mishaps>>

SetBack(d) ==
    /\ mishaps < Mishaps
    /\ mishaps' = mishaps + 1
    /\ now' = now - d
    /\ UNCHANGED <<bucket, granted, forward, lost, lastGrant>>

Gone == held' = FALSE /\ tokens' = 0 /\ ts' = 0

\* An expired key is deleted.
Expire ==
    /\ held
    /\ ~Present
    /\ Gone
    /\ UNCHANGED <<now, granted, forward, lost, lastGrant, mishaps>>

\* The key is evicted, or lost with its server.
Lose ==
    /\ held
    /\ mishaps < Mishaps
    /\ mishaps' = mishaps + 1
    /\ Gone
    /\ lost' = lost + 1
    /\ UNCHANGED <<now, granted, forward, lastGrant>>

\* The observation may begin anywhere: the counters are those of an interval.
Observe ==
    /\ forward > 0 \/ granted > 0 \/ lost > 0
    /\ granted' = 0
    /\ forward' = 0
    /\ lost' = 0
    /\ UNCHANGED <<bucket, now, lastGrant, mishaps>>

-----------------------------------------------------------------------------
Init ==
    /\ held = FALSE
    /\ tokens = 0
    /\ ts = 0
    /\ now = 0
    /\ granted = 0
    /\ forward = 0
    /\ lost = 0
    /\ lastGrant = 0
    /\ mishaps = 0

Next ==
    \/ Allow
    \/ \E d \in Steps : Tick(d) \/ SetBack(d)
    \/ Expire \/ Lose \/ Observe

Spec == Init /\ [][Next]_vars

-----------------------------------------------------------------------------
TypeOK ==
    /\ held \in BOOLEAN
    /\ tokens \in 0..Cap
    /\ ts \in Int /\ now \in Int /\ lastGrant \in Int
    /\ granted \in Nat /\ forward \in Nat /\ lost \in Nat
    /\ mishaps \in 0..Mishaps

\* In any interval the bucket grants at most its capacity plus what the rate
\* yields in the seconds the clock moved forward, one capacity more for every
\* key that was lost; refused calls, expiry and clock setbacks give nothing
\* away. (The claim of the comment on RateLimiter, against a fixed window's
\* twofold burst.)
RateIsBounded == granted * Micro <= Cap + lost * Cap + forward * Rate

\* Refused calls cost nothing: once the clock has moved far enough from the
\* last granted call for one token, a call is granted. (HMSET stores the
\* refilled fraction with the time it was computed at.)
NobodyStarves == Refilled < Micro => (now - lastGrant) * Rate < Micro

\* Seconds until the clock is again where the last call stored it.
Behind == IF held /\ now < ts THEN ts - now ELSE 0

Promise == INSTANCE TokenBucket
           WITH Token <- Micro, Capacity <- Cap, level <- Refilled, behind <- Behind

\* The script's lazy refill with its expiring key grants and refuses exactly as a
\* bucket that is refilled by the clock: as long as the clock is not set back, a
\* call finds neither more nor less. (HMGET to PEXPIRE of rateLimitScript.)
RefillIsExact == Promise!Spec
=============================================================================
