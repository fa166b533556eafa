--------------------------- MODULE CircuitBreaker ---------------------------
(***************************************************************************)
(* The circuit breaker that the deduper, the rate limiter and the template *)
(* cache of one API process share (infrastructure/redis/circuit_breaker.go)*)
(* and the calls they make through it. Allow, the Redis operation and the  *)
(* record of its result are separate steps: the mutex covers one method    *)
(* call, never the three.                                                  *)
(***************************************************************************)
EXTENDS Naturals

CONSTANTS
    Callers,        \* concurrent requests of the process
    Threshold,      \* consecutive failures that open the circuit
    Outages,        \* how often Redis may change between up and down
    Cancellations   \* how many calls a client may abort

ASSUME BreakerAssumption ==
    /\ Threshold \in Nat \ {0}
    /\ Outages \in Nat
    /\ Cancellations \in Nat

VARIABLES
    breaker,  \* state, failures, and whether openTimeout has passed
    call,     \* where each caller is between Allow and the record
    redis,    \* whether Redis answers
    flips,    \* changes of redis so far
    aborted   \* calls aborted so far

vars == <<breaker, call, redis, flips, aborted>>

-----------------------------------------------------------------------------
\* CircuitBreaker's methods, as functions of its fields

New == [state |-> "closed", failures |-> 0, expired |-> FALSE]

Admits(cb) == cb.state = "open" => cb.expired

\* Allow: the first call after the timeout moves an open circuit to half-open,
\* which lets every later call pass until a result is recorded.
AfterAllow(cb) ==
    IF cb.state = "open" THEN [cb EXCEPT !.state = "half_open"] ELSE cb

\* Mutant: a success resets the counter and leaves the state.
SuccessOnlyResets(cb) == [cb EXCEPT !.failures = 0]

\* RecordSuccess
AfterSuccess(cb) == [cb EXCEPT !.state = "closed", !.failures = 0]

\* Mutant: the threshold is not looked at.
FailureOfProbeOnly(cb) ==
    IF cb.state = "half_open"
    THEN [state |-> "open", failures |-> 0, expired |-> FALSE]
    ELSE cb

\* Mutant: the counter is not reset when the circuit opens.
FailureKeepsCount(cb) ==
    IF cb.state = "half_open" \/ cb.failures + 1 >= Threshold
    THEN [state |-> "open", failures |-> cb.failures + 1, expired |-> FALSE]
    ELSE [cb EXCEPT !.failures = @ + 1]

\* RecordFailure, which also restarts the timeout of an open circuit.
AfterFailure(cb) ==
    IF cb.state = "half_open" \/ cb.failures + 1 >= Threshold
    THEN [state |-> "open", failures |-> 0, expired |-> FALSE]
    ELSE [cb EXCEPT !.failures = @ + 1]

-----------------------------------------------------------------------------
\* Calls

\* A caller that Allow turns away uses its fallback and changes nothing.
Ask(c) ==
    /\ call[c] = "idle"
    /\ Admits(breaker)
    /\ breaker' = AfterAllow(breaker)
    /\ call' = [call EXCEPT ![c] = "reading"]
    /\ UNCHANGED <<redis, flips, aborted>>

Reply(c) ==
    /\ call[c] \in {"reading", "writing"}
    /\ call' = [call EXCEPT ![c] = IF redis = "up" THEN "ok" ELSE "failed"]
    /\ UNCHANGED <<breaker, redis, flips, aborted>>

\* Mutant: isRedisError takes a miss for a failure.
MissCounted(c) ==
    /\ call[c] = "reading"
    /\ redis = "up"
    /\ call' = [call EXCEPT ![c] = "failed"]
    /\ UNCHANGED <<breaker, redis, flips, aborted>>

\* TemplateCache.Get: a miss (redis.Nil) is not recorded, and the write-back
\* goes to Redis on the permission of the same Allow.
Miss(c) ==
    /\ call[c] = "reading"
    /\ redis = "up"
    /\ call' = [call EXCEPT ![c] = "writing"]
    /\ UNCHANGED <<breaker, redis, flips, aborted>>

\* context.Canceled is not recorded either; nor is a miss whose template MongoDB
\* does not have, after which Get returns without the write-back.
Cancel(c) ==
    /\ call[c] \in {"reading", "writing"}
    /\ aborted < Cancellations
    /\ aborted' = aborted + 1
    /\ call' = [call EXCEPT ![c] = "idle"]
    /\ UNCHANGED <<breaker, redis, flips>>

Record(c) ==
    /\ \/ call[c] = "ok" /\ breaker' = AfterSuccess(breaker)
       \/ call[c] = "failed" /\ breaker' = AfterFailure(breaker)
    /\ call' = [call EXCEPT ![c] = "idle"]
    /\ UNCHANGED <<redis, flips, aborted>>

\* openTimeout has passed since openedAt.
OpenTimeout ==
    /\ breaker.state = "open"
    /\ ~breaker.expired
    /\ breaker' = [breaker EXCEPT !.expired = TRUE]
    /\ UNCHANGED <<call, redis, flips, aborted>>

Flip ==
    /\ flips < Outages
    /\ flips' = flips + 1
    /\ redis' = IF redis = "up" THEN "down" ELSE "up"
    /\ UNCHANGED <<breaker, call, aborted>>

-----------------------------------------------------------------------------
Init ==
    /\ breaker = New
    /\ call = [c \in Callers |-> "idle"]
    /\ redis = "up"
    /\ flips = 0
    /\ aborted = 0

Next ==
    \/ \E c \in Callers : Ask(c) \/ Reply(c) \/ Miss(c) \/ Cancel(c) \/ Record(c)
    \/ OpenTimeout
    \/ Flip

Spec == Init /\ [][Next]_vars

\* Every Redis operation ends (the client has timeouts), its result is
\* recorded in the same request, and time passes. Requests keep arriving: the
\* breaker has no timer of its own and recovers only when it is asked.
Fairness ==
    /\ \A c \in Callers : WF_vars(Ask(c)) /\ WF_vars(Reply(c)) /\ WF_vars(Record(c))
    /\ WF_vars(OpenTimeout)

FairSpec == Spec /\ Fairness

-----------------------------------------------------------------------------
TypeOK ==
    /\ breaker \in [state : {"closed", "open", "half_open"},
                    failures : 0..(Threshold - 1), expired : BOOLEAN]
    /\ call \in [Callers -> {"idle", "reading", "writing", "ok", "failed"}]
    /\ redis \in {"up", "down"}
    /\ flips \in 0..Outages
    /\ aborted \in 0..Cancellations

\* As long as Redis has always answered, the circuit is closed: neither misses nor
\* the calls that clients give up count as failures, in any number and order.
\* (isRedisError, and RecordFailure as the only way to open.)
OpensInOutagesOnly == flips = 0 => breaker.state = "closed"

\* Once Redis is back for good the circuit closes and stays closed, whatever
\* results of calls from the outage are still recorded. (RecordSuccess, and
\* Allow's move to half-open.)
Recovers == <>[](redis = "up") => <>[](breaker.state = "closed")

\* Once Redis is down for good the circuit opens and never closes again,
\* whatever successes from before are still recorded. (RecordFailure.)
Trips == <>[](redis = "down") => <>[](breaker.state # "closed")
=============================================================================
