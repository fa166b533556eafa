-------------------------- MODULE RateLimiterProofs --------------------------
(***************************************************************************)
(* The bucket keeps its two promises for every limit, window, precision    *)
(* and clock. What has been granted and what a call would find now are     *)
(* paid for together; and a bucket that is not full holds at least what    *)
(* the rate yielded since the last granted call.                           *)
(***************************************************************************)
EXTENDS RateLimiter, TLAPS

\* Granted tokens and those in the bucket come from the capacity, a lost key
\* or the rate.
Paid == granted * Micro + Refilled <= Cap + lost * Cap + forward * Rate

\* Refused calls have kept their refill.
Kept == held /\ tokens < Cap => (ts - lastGrant) * Rate <= tokens

Inv == TypeOK /\ Paid /\ Kept

-----------------------------------------------------------------------------
\* Arithmetic of products, which the provers do not find by themselves.
LEMMA Distributes ==
    ASSUME NEW a \in Int, NEW b \in Int, NEW c \in Int
    PROVE  (a + b) * c = a * c + b * c
BY SMT

LEMMA Grows ==
    ASSUME NEW a \in Int, NEW b \in Int, NEW c \in Nat, a <= b
    PROVE  a * c <= b * c
<1>1. PICK k \in Nat : b = a + k
  <2>1. b - a \in Nat /\ b = a + (b - a)
    BY SMT
  <2> QED BY <2>1
<1>2. k * c >= 0
  BY SMT
<1>3. b * c = a * c + k * c
  BY <1>1, Distributes
<1>4. a * c \in Int /\ k * c \in Int
  BY SMT
<1> QED BY <1>2, <1>3, <1>4, SMT

\* A bucket holds at least one token when full.
LEMMA CapIsAToken ==
    Cap \in Nat /\ Rate \in Nat /\ Micro \in Nat /\ Cap >= Micro /\ Micro >= 1
<1>1. Limit \in Int /\ 1 \in Int /\ 1 <= Limit /\ Micro \in Nat
  BY LimiterAssumption, SMT
<1>2. 1 * Micro <= Limit * Micro
  BY <1>1, Grows
<1>3. Limit * Micro \in Nat
  BY <1>1, <1>2, SMT
<1> QED BY <1>1, <1>2, <1>3, LimiterAssumption, SMT DEF Cap

\* What a call finds is a number of tokens up to the capacity.
LEMMA RefilledInCap ==
    ASSUME TypeOK
    PROVE  /\ Elapsed \in Nat
           /\ Elapsed * Rate \in Nat
           /\ Refilled \in 0..Cap
<1>1. Elapsed \in Nat
  BY SMT DEF TypeOK, Elapsed
<1>2. Elapsed * Rate \in Nat
  <2>1. 0 * Rate <= Elapsed * Rate
    BY <1>1, CapIsAToken, Grows
  <2> QED BY <1>1, <2>1, CapIsAToken, SMT
<1>3. Refilled \in 0..Cap
  BY <1>2, CapIsAToken, SMT DEF TypeOK, Refilled
<1> QED BY <1>1, <1>2, <1>3

\* What a call finds covers the seconds since the last granted call, or is full.
LEMMA RefilledCovers ==
    ASSUME TypeOK, Kept, Refilled < Cap
    PROVE  (now - lastGrant) * Rate <= Refilled
<1>1. Present /\ Refilled = tokens + Elapsed * Rate
  BY CapIsAToken DEF Refilled
<1>2. held /\ tokens < Cap
  BY <1>1, RefilledInCap, CapIsAToken, SMT DEF TypeOK, Present
<1>3. (ts - lastGrant) * Rate <= tokens
  BY <1>2 DEF Kept
<1>4. now - ts <= Elapsed
  BY SMT DEF TypeOK, Elapsed
<1>5. (now - ts) * Rate <= Elapsed * Rate
  BY <1>4, RefilledInCap, CapIsAToken, Grows, SMT DEF TypeOK
<1>6. (now - lastGrant) * Rate = (now - ts) * Rate + (ts - lastGrant) * Rate
  <2>1. now - ts \in Int /\ ts - lastGrant \in Int /\ Rate \in Int
        /\ now - lastGrant = (now - ts) + (ts - lastGrant)
    BY CapIsAToken, SMT DEF TypeOK
  <2> QED BY <2>1, Distributes
<1>7. (now - ts) * Rate \in Int /\ (ts - lastGrant) * Rate \in Int
  BY CapIsAToken, SMT DEF TypeOK
<1> QED BY <1>1, <1>3, <1>5, <1>6, <1>7, RefilledInCap, SMT DEF TypeOK

-----------------------------------------------------------------------------
\* A call moves one token from the bucket to the granted ones.
LEMMA AllowStays == ASSUME Inv, Allow PROVE Inv'
<1> USE DEF Inv
<1>1. /\ Refilled \in 0..Cap /\ Cap \in Nat /\ Micro \in Nat /\ Micro >= 1
      /\ Micro <= Cap /\ 2 * Window > 0
  BY RefilledInCap, CapIsAToken, LimiterAssumption, SMT
<1>2. tokens' \in 0..Cap
  BY <1>1, SMT DEF Allow
<1>3. TypeOK'
  BY <1>1, <1>2, SMT DEF Allow, TypeOK
<1>4. Refilled' = tokens'
  <2>1. Elapsed' = 0 /\ Present'
    BY <1>1, <1>3, SMT DEF Allow, TypeOK, Elapsed, Present
  <2>2. Elapsed' * Rate = 0
    BY <2>1, CapIsAToken, SMT
  <2> QED BY <1>2, <1>1, <2>1, <2>2, SMT DEF Refilled
<1>5. Paid'
  <2>1. CASE Refilled >= Micro
    <3>1. granted' = granted + 1 /\ tokens' = Refilled - Micro
          /\ forward' = forward /\ lost' = lost
      BY <2>1 DEF Allow
    <3>2. (granted + 1) * Micro = granted * Micro + 1 * Micro
      BY <1>1, Distributes, SMT DEF TypeOK
    <3>3. granted * Micro \in Int /\ lost * Cap \in Int /\ forward * Rate \in Int
      BY <1>1, CapIsAToken, SMT DEF TypeOK
    <3> QED BY <1>1, <1>4, <3>1, <3>2, <3>3, SMT DEF Paid
  <2>2. CASE ~(Refilled >= Micro)
    BY <1>4, <2>2 DEF Allow, Paid
  <2> QED BY <2>1, <2>2
<1>6. Kept'
  <2>1. CASE Refilled >= Micro
    <3>1. ts' - lastGrant' = 0
      BY <2>1, <1>3, SMT DEF Allow, TypeOK
    <3> QED BY <3>1, <1>2, CapIsAToken, SMT DEF Kept
  <2>2. CASE ~(Refilled >= Micro)
    <3>1. (now - lastGrant) * Rate <= Refilled
      BY <2>2, <1>1, RefilledCovers, SMT
    <3> QED BY <2>2, <3>1 DEF Allow, Kept
  <2> QED BY <2>1, <2>2
<1> QED BY <1>3, <1>5, <1>6

\* Time yields no more than the rate does, an expired key included.
LEMMA TickStays == ASSUME Inv, NEW d \in Steps, Tick(d) PROVE Inv'
<1> USE DEF Inv
<1>1. d \in Nat /\ now' = now + d /\ forward' = forward + d /\ UNCHANGED <<held, tokens, ts, granted, lost, lastGrant, mishaps>>
  BY LimiterAssumption DEF Tick, bucket
<1>2. TypeOK'
  BY <1>1, SMT DEF TypeOK
<1>3. Refilled' <= Refilled + d * Rate /\ Refilled' \in 0..Cap
  <2>1. /\ Cap' = Cap /\ Cap \in Nat /\ Rate \in Nat /\ d * Rate \in Nat
        /\ Elapsed \in Nat /\ Refilled \in 0..Cap /\ Refilled' \in 0..Cap
        /\ Elapsed * Rate \in Nat
    <3>1. Refilled' \in 0..Cap
      <4>1. Elapsed' \in Nat /\ Elapsed' \in Int
        BY <1>1, <1>2, SMT DEF TypeOK, Elapsed
      <4>2. PICK e \in Nat : e = Elapsed'
        BY <4>1
      <4>3. 0 * Rate <= e * Rate /\ e * Rate \in Nat
        <5>1. 0 * Rate <= e * Rate
          BY CapIsAToken, Grows
        <5> QED BY <5>1, CapIsAToken, SMT
      <4>4. Refilled' = IF Present' /\ tokens + e * Rate < Cap
                        THEN tokens + e * Rate ELSE Cap
        BY <1>1, <4>2 DEF Refilled
      <4>5. tokens \in 0..Cap
        BY DEF TypeOK
      <4>6. CASE Present' /\ tokens + e * Rate < Cap
        BY <4>3, <4>4, <4>5, <4>6, CapIsAToken, SMT
      <4>7. CASE ~(Present' /\ tokens + e * Rate < Cap)
        BY <4>4, <4>7, CapIsAToken, SMT
      <4> QED BY <4>6, <4>7
    <3>2. d * Rate \in Nat
      <4>1. 0 * Rate <= d * Rate
        BY <1>1, CapIsAToken, Grows
      <4> QED BY <4>1, <1>1, CapIsAToken, SMT
    <3> QED BY <3>1, <3>2, RefilledInCap, CapIsAToken
  <2>2. CASE ~Present
    BY <2>1, <2>2, SMT DEF Refilled
  <2>3. CASE Present /\ Present'
    <3>1. /\ Elapsed' <= Elapsed + d /\ Elapsed' \in Nat
          /\ Elapsed' \in Int /\ Elapsed + d \in Int
      BY <1>1, <1>2, <2>1, SMT DEF TypeOK, Elapsed
    <3>2. Elapsed' * Rate <= (Elapsed + d) * Rate
      BY <3>1, <2>1, Grows
    <3>3. (Elapsed + d) * Rate = Elapsed * Rate + d * Rate
      BY <2>1, <1>1, Distributes
    <3>4. Elapsed' * Rate \in Int
      BY <3>1, <2>1, SMT
    <3>5. tokens' + Elapsed' * Rate <= tokens + Elapsed * Rate + d * Rate
      BY <1>1, <2>1, <3>2, <3>3, <3>4, SMT DEF TypeOK
    <3> QED BY <2>1, <2>3, <3>4, <3>5, <1>1, <1>2, SMT DEF Refilled, TypeOK
  <2>4. CASE Present /\ ~Present'
    <3>1. 2 * Window <= Elapsed + d
      BY <1>1, <1>2, <2>4, LimiterAssumption, SMT DEF Present, Elapsed, TypeOK
    <3>2. 2 * Window * Rate <= (Elapsed + d) * Rate
      <4>1. 2 * Window \in Int
        BY LimiterAssumption, SMT
      <4> QED BY <3>1, <4>1, <2>1, <1>1, Grows, SMT
    <3>3. (Elapsed + d) * Rate = Elapsed * Rate + d * Rate
      BY <2>1, <1>1, Distributes
    <3>4. 2 * Window * Rate >= Cap
      BY LimiterAssumption
    <3>5. Cap <= Elapsed * Rate + d * Rate
      <4>1. 2 * Window * Rate \in Int
        BY LimiterAssumption, <2>1, SMT
      <4> QED BY <3>2, <3>3, <3>4, <4>1, <2>1, SMT
    <3> QED BY <2>1, <2>4, <3>5, <1>1, <1>2, SMT DEF Refilled, TypeOK
  <2> QED BY <2>1, <2>2, <2>3, <2>4
<1>4. Paid'
  <2>1. (forward + d) * Rate = forward * Rate + d * Rate
    BY <1>1, CapIsAToken, Distributes, SMT DEF TypeOK
  <2>2. granted * Micro \in Int /\ lost * Cap \in Int /\ forward * Rate \in Int /\ d * Rate \in Int
    BY <1>1, CapIsAToken, SMT DEF TypeOK
  <2>3. Refilled \in Int /\ Refilled' \in Int
    BY <1>3, RefilledInCap, CapIsAToken, SMT
  <2>4. Paid /\ Cap \in Int
    BY CapIsAToken, SMT
  <2> QED BY <1>1, <1>3, <2>1, <2>2, <2>3, <2>4, SMT DEF Paid
<1>5. Kept'
  BY <1>1 DEF Kept
<1> QED BY <1>2, <1>4, <1>5

\* A clock that is set back refills nothing.
LEMMA SetBackStays == ASSUME Inv, NEW d \in Steps, SetBack(d) PROVE Inv'
<1> USE DEF Inv
<1>1. d \in Nat /\ now' = now - d /\ UNCHANGED <<held, tokens, ts, granted, forward, lost, lastGrant>>
  BY LimiterAssumption DEF SetBack, bucket
<1>2. TypeOK'
  BY <1>1, LimiterAssumption, SMT DEF TypeOK, SetBack
<1>3. Refilled' <= Refilled /\ Refilled' \in Int
  <2>1. Elapsed' <= Elapsed /\ Elapsed' \in Nat
    BY <1>1, <1>2, SMT DEF TypeOK, Elapsed
  <2>2. Elapsed' * Rate <= Elapsed * Rate /\ Elapsed' * Rate \in Int
    BY <2>1, RefilledInCap, CapIsAToken, Grows, SMT
  <2>3. Present => Present'
    BY <1>1, <1>2, LimiterAssumption, SMT DEF TypeOK, Present
  <2> QED BY <1>1, <1>2, <2>2, <2>3, RefilledInCap, CapIsAToken, SMT DEF Refilled, TypeOK
<1>4. Paid'
  <2>1. granted * Micro \in Int /\ lost * Cap \in Int /\ forward * Rate \in Int
    BY CapIsAToken, SMT DEF TypeOK
  <2> QED BY <1>1, <1>3, <2>1, RefilledInCap, CapIsAToken, SMT DEF Paid
<1>5. Kept'
  BY <1>1 DEF Kept
<1> QED BY <1>2, <1>4, <1>5

\* A key that is gone reads as a full bucket: nothing new if it had expired,
\* one capacity more if it was lost.
LEMMA GoneStays == ASSUME Inv, Expire \/ Lose PROVE Inv'
<1> USE DEF Inv
<1>1. /\ held' = FALSE /\ tokens' = 0 /\ ts' = 0
      /\ UNCHANGED <<now, granted, forward, lastGrant>>
      /\ mishaps' \in 0..Mishaps
      /\ lost' \in Nat
  BY LimiterAssumption, SMT DEF Expire, Lose, Gone, TypeOK
<1>2. TypeOK'
  <2>1. 0 \in 0..Cap /\ 0 \in Int
    BY CapIsAToken, SMT
  <2> QED BY <1>1, <2>1, Zenon DEF TypeOK
<1>3. Refilled' = Cap
  BY <1>1 DEF Refilled, Present
<1>4. /\ granted * Micro \in Int /\ lost * Cap \in Int /\ forward * Rate \in Int
      /\ Refilled \in 0..Cap /\ Cap \in Int
  BY CapIsAToken, RefilledInCap, SMT DEF TypeOK
<1>5. Paid'
  <2>1. CASE Expire
    <3>1. Refilled = Cap /\ lost' = lost
      BY <2>1 DEF Expire, Refilled
    <3> QED BY <1>1, <1>3, <3>1, <1>4, SMT DEF Paid
  <2>2. CASE Lose
    <3>1. lost' = lost + 1
      BY <2>2 DEF Lose
    <3>2. (lost + 1) * Cap = lost * Cap + 1 * Cap
      BY CapIsAToken, Distributes, SMT DEF TypeOK
    <3> QED BY <1>1, <1>3, <1>4, <3>1, <3>2, SMT DEF Paid
  <2> QED BY <2>1, <2>2
<1>6. Kept'
  BY <1>1 DEF Kept
<1> QED BY <1>2, <1>5, <1>6

\* A new observation begins with a bucket of at most its capacity.
LEMMA ObserveStays == ASSUME Inv, Observe PROVE Inv'
<1> USE DEF Inv
<1>1. /\ granted' = 0 /\ forward' = 0 /\ lost' = 0
      /\ UNCHANGED <<held, tokens, ts, now, lastGrant, mishaps>>
  BY DEF Observe, bucket
<1>2. TypeOK'
  BY <1>1, SMT DEF TypeOK
<1>3. Refilled' = Refilled
  BY <1>1 DEF Refilled, Present, Elapsed
<1>4. 0 * Micro = 0 /\ 0 * Cap = 0 /\ 0 * Rate = 0
  BY CapIsAToken, SMT
<1>5. Paid'
  BY <1>1, <1>3, <1>4, RefilledInCap, CapIsAToken, SMT DEF Paid
<1>6. Kept'
  BY <1>1 DEF Kept
<1> QED BY <1>2, <1>5, <1>6

-----------------------------------------------------------------------------
\* The invariant of the token bucket script: it holds in every state, for every
\* limit and window whose rate survives the six decimals.
THEOREM BucketInvariant == Spec => []Inv
<1>1. Init => Inv
  <2> SUFFICES ASSUME Init PROVE Inv
    OBVIOUS
  <2>1. TypeOK
    <3>1. 0 \in 0..Cap /\ 0 \in 0..Mishaps /\ 0 \in Int /\ 0 \in Nat
      BY LimiterAssumption, CapIsAToken, SMT
    <3> QED BY <3>1, Zenon DEF Init, TypeOK
  <2>2. Refilled = Cap
    BY DEF Init, Refilled, Present
  <2>3. 0 * Micro = 0 /\ 0 * Cap = 0 /\ 0 * Rate = 0
    BY CapIsAToken, SMT
  <2>4. Paid
    BY <2>2, <2>3, CapIsAToken, SMT DEF Init, Paid
  <2>5. Kept
    BY DEF Init, Kept
  <2> QED BY <2>1, <2>4, <2>5 DEF Inv
<1>2. Inv /\ [Next]_vars => Inv'
  <2> SUFFICES ASSUME Inv, [Next]_vars PROVE Inv'
    OBVIOUS
  <2>1. CASE Allow
    BY <2>1, AllowStays
  <2>2. ASSUME NEW d \in Steps, Tick(d) PROVE Inv'
    BY <2>2, TickStays
  <2>3. ASSUME NEW d \in Steps, SetBack(d) PROVE Inv'
    BY <2>3, SetBackStays
  <2>4. CASE Expire \/ Lose
    BY <2>4, GoneStays
  <2>5. CASE Observe
    BY <2>5, ObserveStays
  <2>6. CASE UNCHANGED vars
    BY <2>6 DEF vars, bucket, Inv, TypeOK, Paid, Kept, Refilled, Present, Elapsed
  <2> QED BY <2>1, <2>2, <2>3, <2>4, <2>5, <2>6 DEF Next
<1> QED BY <1>1, <1>2, PTL DEF Spec

\* The tokens that the script stores never leave 0..capacity, whatever the
\* clock of the server does.
THEOREM BucketTypes == Spec => []TypeOK
<1>1. Inv => TypeOK
  BY DEF Inv
<1> QED BY <1>1, BucketInvariant, PTL

\* No interval grants more than the capacity, the rate and the lost keys
\* account for (the reason RateLimiter gives for a token bucket).
THEOREM BurstsAreBounded == Spec => []RateIsBounded
<1>1. Inv => RateIsBounded
  <2> SUFFICES ASSUME Inv PROVE RateIsBounded
    OBVIOUS
  <2>1. /\ granted * Micro \in Int /\ lost * Cap \in Int /\ forward * Rate \in Int
        /\ Refilled \in 0..Cap /\ Cap \in Int
    BY CapIsAToken, RefilledInCap, SMT DEF Inv, TypeOK
  <2> QED BY <2>1, SMT DEF Inv, Paid, RateIsBounded
<1> QED BY <1>1, BucketInvariant, PTL

\* Refused calls do not put off the next granted one (the HMSET of Allow's
\* script stores the refilled fraction also when it refuses).
THEOREM RefusalsAreFree == Spec => []NobodyStarves
<1>1. Inv => NobodyStarves
  <2> SUFFICES ASSUME Inv, Refilled < Micro PROVE (now - lastGrant) * Rate < Micro
    BY DEF NobodyStarves
  <2>1. Refilled < Cap /\ Refilled \in Int
    BY CapIsAToken, RefilledInCap, SMT DEF Inv
  <2>2. (now - lastGrant) * Rate <= Refilled
    BY <2>1, RefilledCovers DEF Inv
  <2>3. (now - lastGrant) * Rate \in Int
    BY CapIsAToken, SMT DEF Inv, TypeOK
  <2> QED BY <2>1, <2>2, <2>3, CapIsAToken, SMT
<1> QED BY <1>1, BucketInvariant, PTL

-----------------------------------------------------------------------------
\* The refinement of the bucket that time refills

\* The seconds that the clock is behind.
LEMMA BehindIsNat == ASSUME TypeOK PROVE Behind \in Nat
BY SMT DEF TypeOK, Behind

\* A call sees the bucket as it was left: nothing has been refilled since.
LEMMA AllowIsACall == ASSUME Inv, Inv', Allow PROVE Promise!Grant \/ Promise!Refuse
<1>1. /\ Refilled \in 0..Cap /\ Cap \in Nat /\ Micro \in Nat /\ Micro >= 1 /\ 2 * Window > 0
  BY RefilledInCap, CapIsAToken, LimiterAssumption, SMT DEF Inv
<1>2. /\ held' = TRUE /\ ts' = now /\ now' = now /\ mishaps' = mishaps
      /\ tokens' \in 0..Cap /\ now \in Int
  BY DEF Allow, Inv, TypeOK
<1>3. Behind' = 0
  BY <1>2, SMT DEF Behind
<1>4. Refilled' = tokens'
  <2>1. Elapsed' = 0 /\ Present'
    BY <1>1, <1>2, SMT DEF Elapsed, Present
  <2>2. Elapsed' * Rate = 0
    BY <2>1, CapIsAToken, SMT
  <2> QED BY <1>1, <1>2, <2>1, <2>2, SMT DEF Refilled
<1>5. CASE Refilled >= Micro
  BY <1>2, <1>3, <1>4, <1>5 DEF Allow, Promise!Grant
<1>6. CASE ~(Refilled >= Micro)
  <2>1. Refilled < Micro
    BY <1>1, <1>6, SMT
  <2> QED BY <1>2, <1>3, <1>4, <1>6, <2>1 DEF Allow, Promise!Refuse
<1> QED BY <1>5, <1>6

\* The script's elapsed seconds are those the clock has added since the last call;
\* when the key expires they have filled the bucket.
LEMMA TickIsAPass == ASSUME Inv, NEW d \in Steps, Tick(d) PROVE Promise!Pass(d)
<1> DEFINE x == Promise!Above(d - Behind)
<1>1. /\ d \in Nat /\ now' = now + d
      /\ UNCHANGED <<held, tokens, ts, granted, mishaps>>
  BY LimiterAssumption DEF Tick, bucket
<1>2. /\ now \in Int /\ ts \in Int /\ tokens \in 0..Cap /\ held \in BOOLEAN
      /\ Cap \in Nat /\ Rate \in Nat /\ 2 * Window \in Nat
  BY CapIsAToken, LimiterAssumption, SMT DEF Inv, TypeOK
<1>3. Behind \in Nat /\ x \in Nat /\ Behind' = Promise!Above(Behind - d)
  BY <1>1, <1>2, SMT DEF Behind, Promise!Above
<1>4. Refilled' = Promise!UpTo(Cap, Refilled + x * Rate)
  <2> HIDE DEF x
  <2>1. x * Rate \in Nat
    <3>1. 0 * Rate <= x * Rate
      BY <1>2, <1>3, Grows, SMT
    <3> QED BY <1>2, <1>3, <3>1, SMT
  <2>2. CASE ~Present
    <3>1. ~Present' /\ Refilled = Cap
      BY <1>1, <1>2, <2>2, SMT DEF Present, Refilled
    <3>2. Refilled' = Cap
      BY <3>1 DEF Refilled
    <3> QED BY <1>2, <2>1, <3>1, <3>2, SMT DEF Promise!UpTo
  <2>3. CASE Present
    <3>1. Elapsed \in Nat /\ Elapsed' = Elapsed + x
      BY <1>1, <1>2, <2>3, SMT DEF Elapsed, Behind, Present, Promise!Above, x
    <3>2. Elapsed' * Rate = Elapsed * Rate + x * Rate
      BY <1>2, <1>3, <3>1, Distributes, SMT
    <3>3. Elapsed * Rate \in Nat /\ Refilled \in 0..Cap
      BY RefilledInCap DEF Inv
    <3>4. CASE Present'
      <4>1. Refilled' = Promise!UpTo(Cap, tokens + Elapsed * Rate + x * Rate)
        <5>1. Refilled' = IF tokens + Elapsed' * Rate < Cap
                          THEN tokens + Elapsed' * Rate ELSE Cap
          BY <1>1, <3>4 DEF Refilled
        <5> QED BY <1>2, <2>1, <3>2, <3>3, <5>1, SMT DEF Promise!UpTo
      <4>2. Refilled = Promise!UpTo(Cap, tokens + Elapsed * Rate)
        BY <2>3 DEF Refilled, Promise!UpTo
      <4> QED BY <1>2, <2>1, <3>3, <4>1, <4>2, SMT DEF Promise!UpTo
    <3>5. CASE ~Present'
      <4>1. Refilled' = Cap
        BY <3>5 DEF Refilled
      <4>2. 2 * Window <= Elapsed + x
        BY <1>1, <1>2, <2>3, <3>1, <3>5, SMT DEF Present, Elapsed
      <4>3. 2 * Window * Rate <= Elapsed * Rate + x * Rate
        <5>1. 2 * Window * Rate <= (Elapsed + x) * Rate
          BY <1>2, <1>3, <3>1, <4>2, Grows, SMT
        <5> QED BY <3>1, <3>2, <5>1
      <4>4. 2 * Window * Rate >= Cap /\ 2 * Window * Rate \in Int
        BY <1>2, LimiterAssumption, SMT
      <4>5. Cap <= Elapsed * Rate + x * Rate
        BY <1>2, <2>1, <3>3, <4>3, <4>4, SMT
      <4>6. Refilled = Promise!UpTo(Cap, tokens + Elapsed * Rate)
        BY <2>3 DEF Refilled, Promise!UpTo
      <4> QED BY <1>2, <2>1, <3>3, <4>1, <4>5, <4>6, SMT DEF Promise!UpTo
    <3> QED BY <3>4, <3>5
  <2> QED BY <2>2, <2>3
<1> QED BY <1>1, <1>3, <1>4 DEF Promise!Pass

\* A clock that is set back takes back what it had added since the last call.
LEMMA SetBackIsOne == ASSUME Inv, Inv', NEW d \in Steps, SetBack(d) PROVE Promise!SetBack(d)
<1>1. /\ d \in Nat /\ now' = now - d /\ mishaps' = mishaps + 1
      /\ UNCHANGED <<held, tokens, ts, granted>>
  BY LimiterAssumption DEF SetBack, bucket
<1>2. /\ now \in Int /\ ts \in Int /\ tokens \in 0..Cap /\ held \in BOOLEAN
      /\ Cap \in Nat /\ Rate \in Nat /\ 2 * Window \in Nat
  BY CapIsAToken, LimiterAssumption, SMT DEF Inv, TypeOK
<1>3. Behind' \in Behind..(Behind + d)
  BY <1>1, <1>2, SMT DEF Behind
<1>4. Refilled' \in 0..Refilled
  <2>1. Elapsed \in Nat /\ Elapsed' \in Nat /\ Elapsed' <= Elapsed
    BY <1>1, <1>2, SMT DEF Elapsed
  <2>2. 0 * Rate <= Elapsed' * Rate /\ Elapsed' * Rate <= Elapsed * Rate
        /\ Elapsed' * Rate \in Int
    <3>1. PICK e \in Nat : e = Elapsed'
      BY <2>1
    <3>2. 0 * Rate <= e * Rate
      BY <1>2, Grows
    <3>3. e * Rate <= Elapsed * Rate
      <4>1. e \in Int /\ Elapsed \in Int /\ e <= Elapsed
        BY <2>1, <3>1
      <4> QED BY <1>2, <4>1, Grows
    <3>4. e * Rate \in Int
      BY <1>2, SMT
    <3> QED BY <3>1, <3>2, <3>3, <3>4
  <2>3. Elapsed * Rate \in Nat /\ Refilled \in 0..Cap
    BY RefilledInCap DEF Inv
  <2>4. Present => Present'
    BY <1>1, <1>2, SMT DEF Present
  <2>5. Refilled' = IF Present' /\ tokens + Elapsed' * Rate < Cap
                    THEN tokens + Elapsed' * Rate ELSE Cap
    BY <1>1 DEF Refilled
  <2>6. Refilled = IF Present /\ tokens + Elapsed * Rate < Cap
                   THEN tokens + Elapsed * Rate ELSE Cap
    BY DEF Refilled
  <2> QED BY <1>2, <2>2, <2>3, <2>4, <2>5, <2>6, SMT
<1> QED BY <1>1, <1>3, <1>4 DEF Promise!SetBack

\* A key that has expired was full; one that is lost becomes full.
LEMMA GoneIsFull ==
    ASSUME Inv, Expire \/ Lose
    PROVE  Promise!Replace \/ UNCHANGED Promise!vars
<1>1. Refilled' = Cap /\ Behind' = 0 /\ UNCHANGED <<now, granted>>
  BY DEF Expire, Lose, Gone, Refilled, Present, Behind
<1>2. CASE Expire
  <2>1. held /\ now - ts >= 2 * Window /\ mishaps' = mishaps
    BY <1>2, LimiterAssumption, SMT DEF Expire, Present, Inv, TypeOK
  <2>2. Behind = 0
    BY <2>1, LimiterAssumption, SMT DEF Behind, Inv, TypeOK
  <2>3. Refilled = Cap
    BY <1>2 DEF Expire, Refilled
  <2> QED BY <1>1, <2>1, <2>2, <2>3 DEF Promise!vars
<1>3. CASE Lose
  BY <1>1, <1>3 DEF Lose, Promise!Replace
<1> QED BY <1>2, <1>3

\* The lazily refilled bucket with its expiring key is a bucket that the clock
\* refills: no call finds more or less because of when others came, and an
\* expired key is never seen. (rateLimitScript as a whole.)
THEOREM RefillIsLazy == Spec => RefillIsExact
<1>1. Init => Promise!Init
  <2> SUFFICES ASSUME Init PROVE Promise!Init
    OBVIOUS
  <2> QED BY DEF Init, Promise!Init, Refilled, Present, Behind
<1>2. Inv /\ Inv' /\ [Next]_vars => [Promise!Next]_(Promise!vars)
  <2> SUFFICES ASSUME Inv, Inv', [Next]_vars
               PROVE  Promise!Next \/ UNCHANGED Promise!vars
    OBVIOUS
  <2>1. CASE Allow
    BY <2>1, AllowIsACall DEF Promise!Next
  <2>2. ASSUME NEW d \in Steps, Tick(d) PROVE Promise!Next
    BY <2>2, TickIsAPass DEF Promise!Next
  <2>3. ASSUME NEW d \in Steps, SetBack(d) PROVE Promise!Next
    BY <2>3, SetBackIsOne DEF Promise!Next
  <2>4. CASE Expire \/ Lose
    BY <2>4, GoneIsFull DEF Promise!Next
  <2>5. CASE Observe
    BY <2>5 DEF Observe, bucket, Promise!Next, Promise!CountAnew,
                Refilled, Present, Elapsed, Behind
  <2>6. CASE UNCHANGED vars
    BY <2>6 DEF vars, bucket, Promise!vars, Refilled, Present, Elapsed, Behind
  <2> QED BY <2>1, <2>2, <2>3, <2>4, <2>5, <2>6 DEF Next
<1> QED BY <1>1, <1>2, BucketInvariant, PTL DEF Spec, RefillIsExact, Promise!Spec
=============================================================================
