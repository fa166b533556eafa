------------------------ MODULE CircuitBreakerProofs ------------------------
(***************************************************************************)
(* The breaker counts no higher than its threshold and opens only in an    *)
(* outage, for any number of requests, any threshold, and any number of    *)
(* outages and of calls given up.                                          *)
(***************************************************************************)
EXTENDS CircuitBreaker, TLAPS

Breakers == [state : {"closed", "open", "half_open"},
             failures : 0..(Threshold - 1), expired : BOOLEAN]

\* Before the first outage nothing has failed, and no failure is still to be
\* recorded.
NothingFailed ==
    flips = 0 => /\ redis = "up"
                 /\ breaker.state = "closed"
                 /\ \A c \in Callers : call[c] # "failed"

BreakerInv == TypeOK /\ NothingFailed

-----------------------------------------------------------------------------
\* What the methods make of a breaker: RecordFailure reaches the threshold only to
\* start again from zero, Allow and RecordSuccess leave a closed circuit closed.
LEMMA MethodTypes ==
    ASSUME NEW cb \in Breakers
    PROVE  /\ AfterAllow(cb) \in Breakers
           /\ AfterSuccess(cb) \in Breakers
           /\ AfterFailure(cb) \in Breakers
           /\ cb.state = "closed" => AfterAllow(cb).state = "closed"
           /\ AfterSuccess(cb).state = "closed"
<1>1. AfterAllow(cb) \in Breakers /\ (cb.state = "closed" => AfterAllow(cb).state = "closed")
  BY DEF AfterAllow, Breakers
<1>2. AfterSuccess(cb) \in Breakers /\ AfterSuccess(cb).state = "closed"
  <2>1. 0 \in 0..(Threshold - 1)
    BY BreakerAssumption
  <2>2. QED
    BY <2>1 DEF AfterSuccess, Breakers
<1>3. AfterFailure(cb) \in Breakers
  <2>1. cb.failures \in 0..(Threshold - 1) /\ Threshold \in Nat \ {0}
    BY BreakerAssumption DEF Breakers
  <2>2. CASE cb.state = "half_open" \/ cb.failures + 1 >= Threshold
    BY <2>1, <2>2 DEF AfterFailure, Breakers
  <2>3. CASE ~(cb.state = "half_open" \/ cb.failures + 1 >= Threshold)
    <3>1. cb.failures + 1 \in 0..(Threshold - 1)
      BY <2>1, <2>3
    <3>2. QED
      BY <2>3, <3>1 DEF AfterFailure, Breakers
  <2>4. QED
    BY <2>2, <2>3
<1>4. QED
  BY <1>1, <1>2, <1>3

LEMMA BreakerAtInit == Init => BreakerInv
<1> SUFFICES ASSUME Init
             PROVE  BreakerInv
  OBVIOUS
<1>1. TypeOK
  BY BreakerAssumption DEF Init, TypeOK, New
<1>2. NothingFailed
  BY DEF Init, NothingFailed, New
<1>3. QED
  BY <1>1, <1>2 DEF BreakerInv

\* Every step of a request, of the clock and of Redis.
LEMMA BreakerInvStays ==
    ASSUME BreakerInv, [Next]_vars
    PROVE  BreakerInv'
<1>1. /\ breaker \in Breakers
      /\ call \in [Callers -> {"idle", "reading", "writing", "ok", "failed"}]
      /\ redis \in {"up", "down"} /\ flips \in 0..Outages /\ aborted \in 0..Cancellations
      /\ NothingFailed
  BY DEF BreakerInv, TypeOK, Breakers
<1>2. ASSUME breaker' \in Breakers,
             call' \in [Callers -> {"idle", "reading", "writing", "ok", "failed"}],
             redis' \in {"up", "down"}, flips' \in 0..Outages, aborted' \in 0..Cancellations,
             NothingFailed'
      PROVE  BreakerInv'
  BY <1>2 DEF BreakerInv, TypeOK, Breakers
<1>3. ASSUME NEW c \in Callers, Ask(c)
      PROVE  BreakerInv'
  <2>1. /\ breaker' \in Breakers
        /\ breaker.state = "closed" => breaker'.state = "closed"
    BY <1>1, <1>3, MethodTypes DEF Ask
  <2>2. QED
    BY <1>1, <1>2, <1>3, <2>1 DEF Ask, NothingFailed
<1>4. ASSUME NEW c \in Callers, Reply(c) \/ Miss(c)
      PROVE  BreakerInv'
  BY <1>1, <1>2, <1>4 DEF Reply, Miss, NothingFailed
<1>5. ASSUME NEW c \in Callers, Cancel(c)
      PROVE  BreakerInv'
  <2>1. aborted' \in 0..Cancellations
    BY <1>1, <1>5, BreakerAssumption DEF Cancel
  <2>2. QED
    BY <1>1, <1>2, <1>5, <2>1 DEF Cancel, NothingFailed
<1>6. ASSUME NEW c \in Callers, Record(c)
      PROVE  BreakerInv'
  <2>1. /\ breaker' \in Breakers
        /\ call[c] # "failed" => breaker'.state = "closed"
    BY <1>1, <1>6, MethodTypes DEF Record
  <2>2. QED
    BY <1>1, <1>2, <1>6, <2>1 DEF Record, NothingFailed
<1>7. CASE OpenTimeout
  <2>1. breaker' \in Breakers /\ breaker'.state = breaker.state
    BY <1>1, <1>7 DEF OpenTimeout, Breakers
  <2>2. QED
    BY <1>1, <1>2, <1>7, <2>1 DEF OpenTimeout, NothingFailed
<1>8. CASE Flip
  <2>1. flips' \in 0..Outages /\ flips' # 0
    BY <1>1, <1>8, BreakerAssumption DEF Flip
  <2>2. QED
    BY <1>1, <1>2, <1>8, <2>1 DEF Flip, NothingFailed
<1>9. CASE UNCHANGED vars
  BY <1>1, <1>2, <1>9 DEF vars, NothingFailed
<1>10. QED
  BY <1>3, <1>4, <1>5, <1>6, <1>7, <1>8, <1>9 DEF Next

\* The failure counter stays below the threshold, whatever the order in which
\* results are recorded. (RecordFailure's reset on opening.)
THEOREM BreakerTypes == Spec => []TypeOK
<1>1. BreakerInv => TypeOK
  BY DEF BreakerInv
<1>2. QED
  BY <1>1, BreakerAtInit, BreakerInvStays, PTL DEF Spec

\* Without an outage the circuit never opens, whatever is missed and given up.
\* (isRedisError.)
THEOREM OpensOnlyThen == Spec => []OpensInOutagesOnly
<1>1. BreakerInv => OpensInOutagesOnly
  BY DEF BreakerInv, NothingFailed, OpensInOutagesOnly
<1>2. QED
  BY <1>1, BreakerAtInit, BreakerInvStays, PTL DEF Spec
=============================================================================
