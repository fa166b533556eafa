--------------------------- MODULE PipelineProofs ---------------------------
(***************************************************************************)
(* What holds of the pipeline for every number of notifications, relays,   *)
(* worker slots and janitors, every retry limit and every fault budget:    *)
(* the types are right, the log claims nothing that did not happen, and    *)
(* every attempt a message carries is paid for by a failure.               *)
(***************************************************************************)
EXTENDS Pipeline, TLAPS

-----------------------------------------------------------------------------
\* Lemmas on the operators the actions are built from.

\* The retry limit is a number, and capping keeps a number an attempt.
LEMMA AttemptsType ==
    /\ RetryLimit \in Nat
    /\ 0 \in Attempts
    /\ \A a \in Nat : Capped(a) \in Attempts
    /\ \A a \in Attempts : Capped(a + 1) \in Attempts
BY PipelineAssumption DEF RetryLimit, Attempts, Capped

\* The entity decoded by the worker walks through the life cycle: each Mark*
\* call of Execute and of Submit is a move that status.go allows.
LEMMA EntityStatuses ==
    /\ TransitionTo("received", "enqueued") = "enqueued"
    /\ InFlight = "in_flight"
    /\ CanTransitionTo(Decoded, "in_flight")
    /\ After("sent") = "sent"
    /\ After("retrying") = "retrying"
    /\ After("dead_letter") = "dead_letter"
BY DEF TransitionTo, CanTransitionTo, ValidTransitions, InFlight, After, Decoded

\* Putting a message into a queue keeps what the queue holds and adds it.
LEMMA PutMessage ==
    ASSUME NEW q \in [Msg -> Nat], NEW m \in Msg
    PROVE  /\ Put(q, m) \in [Msg -> Nat]
           /\ \A n \in Notifications : Holds(q, n) => Holds(Put(q, m), n)
           /\ Holds(Put(q, m), m.n)
<1>1. Put(q, m) \in [Msg -> Nat]
  BY DEF Put
<1>2. \A x \in Msg : q[x] > 0 => Put(q, m)[x] > 0
  BY DEF Put
<1>3. Put(q, m)[m] > 0
  BY DEF Put
<1>4. ASSUME NEW n \in Notifications, Holds(q, n)
      PROVE  Holds(Put(q, m), n)
  BY <1>2, <1>4 DEF Holds, Msg
<1>5. Holds(Put(q, m), m.n)
  <2>1. m.attempt \in Attempts /\ m = [n |-> m.n, attempt |-> m.attempt]
    BY DEF Msg
  <2>2. QED
    BY <1>3, <2>1 DEF Holds
<1>6. QED
  BY <1>1, <1>4, <1>5

\* Taking a message out of a queue affects only its own notification.
LEMMA TakeMessage ==
    ASSUME NEW q \in [Msg -> Nat], NEW m \in Msg, q[m] > 0
    PROVE  /\ Take(q, m) \in [Msg -> Nat]
           /\ \A n \in Notifications :
                Holds(q, n) /\ n # m.n => Holds(Take(q, m), n)
<1>1. Take(q, m) \in [Msg -> Nat]
  BY DEF Take
<1>2. \A x \in Msg : x # m => Take(q, m)[x] = q[x]
  BY DEF Take
<1>3. ASSUME NEW n \in Notifications, Holds(q, n), n # m.n
      PROVE  Holds(Take(q, m), n)
  <2>1. PICK a \in Attempts : q[[n |-> n, attempt |-> a]] > 0
    BY <1>3 DEF Holds
  <2>2. [n |-> n, attempt |-> a] \in Msg /\ [n |-> n, attempt |-> a] # m
    BY <1>3 DEF Msg
  <2>3. QED
    BY <1>2, <2>1, <2>2 DEF Holds
<1>4. QED
  BY <1>1, <1>3

\* A conditional put has the same type, and loses nothing.
LEMMA PutIfMessage ==
    ASSUME NEW q \in [Msg -> Nat], NEW m \in Msg, NEW c \in BOOLEAN
    PROVE  /\ PutIf(c, q, m) \in [Msg -> Nat]
           /\ \A n \in Notifications : Holds(q, n) => Holds(PutIf(c, q, m), n)
           /\ c => Holds(PutIf(c, q, m), m.n)
BY PutMessage DEF PutIf

-----------------------------------------------------------------------------
\* Types

\* A fault is paid from the budget, which stays a natural number.
LEMMA SufferType ==
    ASSUME TypeOK, NEW S \in SUBSET FaultKinds, Suffer(S)
    PROVE  budget' \in [FaultKinds -> Nat]
BY DEF Suffer, TypeOK

\* UpdateStatus writes a well-formed row or nothing.
LEMMA UpdateStatusType ==
    ASSUME TypeOK, NEW n \in Notifications, NEW s \in Status,
           NEW a \in Attempts, UpdateStatus(n, s, a)
    PROVE  /\ row' \in [Notifications -> Row]
           /\ budget' \in [FaultKinds -> Nat]
<1>1. Suffer({}) \/ Suffer({"db"})
  BY DEF UpdateStatus
<1>2. budget' \in [FaultKinds -> Nat]
  BY <1>1, SufferType DEF FaultKinds
<1>3. [status |-> s, attempt |-> a, aged |-> FALSE] \in Row
  BY DEF Row
<1>4. row' \in [Notifications -> Row]
  BY <1>3 DEF UpdateStatus, TypeOK
<1>5. QED
  BY <1>2, <1>4

\* Every publication costs faults that exist, and is a Boolean to PutIf.
LEMMA PublicationType ==
    ASSUME NEW p \in Publication
    PROVE  FaultOf(p) \in SUBSET FaultKinds /\ Reaches(p) \in BOOLEAN
BY DEF FaultOf, FaultKinds, Reaches

\* The steps that belong to no process preserve the types.
LEMMA CommonTypes ==
    ASSUME TypeOK,
           \/ \E n \in Notifications : Submit(n) \/ Age(n)
           \/ Expire
           \/ EmptyPass
    PROVE  TypeOK'
<1>1. ASSUME NEW n \in Notifications, Submit(n)
      PROVE  TypeOK'
  <2>1. [Absent EXCEPT !.status = TransitionTo("received", "enqueued")] \in Row
    BY EntityStatuses, AttemptsType DEF Absent, Row, Status
  <2>2. row' \in [Notifications -> Row]
    BY <1>1, <2>1 DEF Submit, TypeOK
  <2>3. outbox' \in [Notifications -> OutboxRow]
    BY <1>1 DEF Submit, TypeOK, OutboxRow
  <2>4. QED
    BY <1>1, <2>2, <2>3
       DEF Submit, TypeOK, queueVars, workerVars, janitorVars
<1>2. ASSUME NEW n \in Notifications, Age(n)
      PROVE  TypeOK'
  <2>1. row' \in [Notifications -> Row]
    BY <1>2 DEF Age, TypeOK, Row
  <2>2. QED
    BY <1>2, <2>1 DEF Age, TypeOK, queueVars, workerVars, janitorVars
<1>3. CASE Expire
  <2>1. PICK m \in Msg : retry[m] > 0 /\ retry' = Take(retry, m) /\ work' = Put(work, m)
    BY <1>3 DEF Expire
  <2>2. retry' \in [Msg -> Nat] /\ work' \in [Msg -> Nat]
    BY <2>1, TakeMessage, PutMessage DEF TypeOK
  <2>3. QED
    BY <1>3, <2>2 DEF Expire, TypeOK, dbVars, workerVars, janitorVars
<1>4. CASE EmptyPass
  BY <1>4 DEF EmptyPass, TypeOK, vars, dbVars, queueVars, workerVars, janitorVars
<1>5. QED
  BY <1>1, <1>2, <1>3, <1>4

\* A relay preserves the types.
LEMMA RelayTypes ==
    ASSUME TypeOK, NEW r \in Relays,
           RelayClaim(r) \/ RelayItem(r) \/ RelayCommit(r) \/ RelayAbort(r) \/ RelayCrash(r)
    PROVE  TypeOK'
<1>1. NoTx \in Tx
  BY AttemptsType DEF NoTx, Tx
<1>2. CASE RelayClaim(r)
  <2>1. PICK batch \in SUBSET Claimable : relay' = [relay EXCEPT ![r] = Opened(batch)]
    BY <1>2 DEF RelayClaim
  <2>2. batch \in SUBSET Notifications
    BY DEF Claimable
  <2>3. Opened(batch) \in Tx
    <3> DEFINE read == [n \in Notifications |->
                         IF n \in batch THEN outbox[n].attempts ELSE 0]
    <3>1. read \in [Notifications -> Attempts]
      BY AttemptsType DEF TypeOK, OutboxRow
    <3>2. Opened(batch) = [NoTx EXCEPT !.claimed = batch, !.todo = batch, !.attempts = read]
      BY DEF Opened
    <3> HIDE DEF read
    <3>3. QED
      BY <1>1, <2>2, <3>1, <3>2 DEF Tx
  <2>4. relay' \in [Relays -> Tx]
    BY <2>1, <2>3 DEF TypeOK
  <2>5. QED
    BY <1>2, <2>4 DEF RelayClaim, TypeOK, dbVars, queueVars, workerVars, janitorVars
<1>3. CASE RelayItem(r)
  <2>1. relay[r] \in Tx
    BY DEF TypeOK
  <2>2. PICK n \in relay[r].todo, p \in Publication :
          /\ Suffer(FaultOf(p))
          /\ work' = PutIf(Reaches(p), work, [n |-> n, attempt |-> relay[r].attempts[n]])
          /\ relay' = [relay EXCEPT ![r] = AfterItem(relay[r], n, p = "confirmed")]
          /\ UNCHANGED <<dbVars, retry, dead, provider, workerVars, janitorVars>>
    BY <1>3 DEF RelayItem
  <2>3. n \in Notifications
    BY <2>1 DEF Tx
  <2>4. [n |-> n, attempt |-> relay[r].attempts[n]] \in Msg
    BY <2>1, <2>3 DEF Tx, Msg
  <2>5. work' \in [Msg -> Nat]
    BY <2>2, <2>4, PutIfMessage, PublicationType DEF TypeOK
  <2>6. budget' \in [FaultKinds -> Nat]
    BY <2>2, SufferType, PublicationType DEF FaultKinds
  <2>7. AfterItem(relay[r], n, p = "confirmed") \in Tx
    BY <2>1, <2>3 DEF AfterItem, Tx
  <2>8. relay' \in [Relays -> Tx]
    BY <2>2, <2>7 DEF TypeOK
  <2>9. QED
    BY <2>2, <2>5, <2>6, <2>8 DEF TypeOK, dbVars, workerVars, janitorVars
<1>4. CASE RelayCommit(r)
  <2>1. relay' \in [Relays -> Tx]
    BY <1>1, <1>4 DEF RelayCommit, TypeOK
  <2>2. \A tx \in Tx : Marked(tx) \in [Notifications -> OutboxRow]
    BY AttemptsType DEF Marked, TypeOK, OutboxRow, Tx
  <2>3. outbox' \in [Notifications -> OutboxRow]
    BY <1>4, <2>2 DEF RelayCommit, TypeOK
  <2>4. budget' \in [FaultKinds -> Nat]
    BY <1>4, SufferType DEF RelayCommit, FaultKinds
  <2>5. QED
    BY <1>4, <2>1, <2>3, <2>4 DEF RelayCommit, TypeOK, queueVars, workerVars, janitorVars
<1>5. CASE RelayAbort(r)
  <2>1. Aborted(relay[r]) \in Tx
    BY <1>1 DEF Aborted, TypeOK, Tx
  <2>2. relay' \in [Relays -> Tx]
    BY <1>5, <2>1 DEF RelayAbort, TypeOK
  <2>3. budget' \in [FaultKinds -> Nat]
    BY <1>5, SufferType DEF RelayAbort, FaultKinds
  <2>4. QED
    BY <1>5, <2>2, <2>3 DEF RelayAbort, TypeOK, dbVars, queueVars, workerVars, janitorVars
<1>6. CASE RelayCrash(r)
  <2>1. relay' \in [Relays -> Tx]
    BY <1>1, <1>6 DEF RelayCrash, TypeOK
  <2>2. budget' \in [FaultKinds -> Nat]
    BY <1>6, SufferType DEF RelayCrash, FaultKinds
  <2>3. QED
    BY <1>6, <2>1, <2>2 DEF RelayCrash, TypeOK, dbVars, queueVars, workerVars, janitorVars
<1>7. QED
  BY <1>2, <1>3, <1>4, <1>5, <1>6

\* A worker slot preserves the types.
LEMMA WorkerTypes ==
    ASSUME TypeOK, NEW w \in Workers,
           Receive(w) \/ WorkerStep(w) \/ WorkerCrash(w) \/ ConnectionLost(w)
    PROVE  TypeOK'
<1> DEFINE Slots == /\ pc' \in [Workers -> PC]
                    /\ job' \in [Workers -> Msg \cup {NoMsg}]
                    /\ owned' \in [Workers -> BOOLEAN]
                    /\ \A v \in Workers : pc'[v] # "idle" => job'[v] \in Msg
<1>1. ASSUME Release(w)
      PROVE  Slots
  BY <1>1 DEF Release, TypeOK, PC
<1>2. ASSUME NEW next \in PC, pc[w] # "idle", Goto(w, next)
      PROVE  Slots
  BY <1>2 DEF Goto, TypeOK
<1>3. pc[w] # "idle" => job[w] \in Msg /\ job[w].n \in Notifications
                        /\ job[w].attempt \in Attempts
  BY DEF TypeOK, Msg
<1>4. pc[w] # "idle" => Requeue(w, work) \in [Msg -> Nat]
  BY <1>3, PutIfMessage DEF Requeue, TypeOK
<1>5. CASE Receive(w)
  <2>1. PICK m \in Msg : /\ work[m] > 0
                         /\ work' = Take(work, m)
                         /\ job' = [job EXCEPT ![w] = m]
    BY <1>5 DEF Receive
  <2>2. work' \in [Msg -> Nat]
    BY <2>1, TakeMessage DEF TypeOK
  <2>3. Slots
    BY <1>5, <2>1 DEF Receive, TypeOK, PC
  <2>4. QED
    BY <1>5, <2>2, <2>3 DEF Receive, TypeOK, dbVars, janitorVars
<1>6. CASE Begin(w)
  <2>1. Slots
    BY <1>2, <1>6 DEF Begin, PC
  <2>2. UpdateStatus(job[w].n, "in_flight", job[w].attempt)
    BY <1>6, EntityStatuses DEF Begin
  <2>3. row' \in [Notifications -> Row] /\ budget' \in [FaultKinds -> Nat]
    BY <1>3, <1>6, <2>2, UpdateStatusType DEF Begin, Status
  <2>4. QED
    BY <1>6, <2>1, <2>3 DEF Begin, TypeOK, queueVars, janitorVars
<1>7. CASE Send(w)
  <2>1. Slots
    BY <1>2, <1>7 DEF Send, PC
  <2>2. budget' \in [FaultKinds -> Nat]
    <3>1. budget' = budget \/ Suffer({"answer"})
      BY <1>7 DEF Send
    <3>2. QED
      BY <3>1, SufferType DEF FaultKinds, TypeOK
  <2>3. provider' \in [Notifications -> Ledger]
    <3> DEFINE n == job[w].n
    <3>1. n \in Notifications /\ provider[n] \in Ledger
      BY <1>3, <1>7 DEF Send, TypeOK
    <3>2. \A o, t, r \in {0, 1} : Answered(n, o, t, r) \in [Notifications -> Ledger]
      BY <3>1 DEF Answered, TypeOK, Ledger
    <3>3. QED
      BY <1>7, <3>2 DEF Send
  <2>4. QED
    BY <1>7, <2>1, <2>2, <2>3 DEF Send, TypeOK, dbVars, queueVars, janitorVars
<1>8. CASE RecordSent(w)
  <2>1. Slots
    BY <1>2, <1>8 DEF RecordSent, PC
  <2>2. UpdateStatus(job[w].n, "sent", job[w].attempt)
    BY <1>8, EntityStatuses DEF RecordSent
  <2>3. row' \in [Notifications -> Row] /\ budget' \in [FaultKinds -> Nat]
    BY <1>3, <1>8, <2>2, UpdateStatusType DEF RecordSent, Status
  <2>4. QED
    BY <1>8, <2>1, <2>3 DEF RecordSent, TypeOK, queueVars, janitorVars
<1>9. CASE Retry(w)
  <2> DEFINE m    == job[w]
             next == [m EXCEPT !.attempt = Capped(@ + 1)]
  <2>1. m \in Msg /\ m.n \in Notifications
    BY <1>3, <1>9 DEF Retry
  <2>2. next \in Msg
    BY <2>1, AttemptsType DEF Msg
  <2>3. PICK p \in Publication :
          /\ Suffer(FaultOf(p))
          /\ retry' = PutIf(Reaches(p) /\ ~SentToDead(m), retry, next)
          /\ dead' = PutIf(Reaches(p) /\ SentToDead(m), dead, m.n)
          /\ IF p = "confirmed"
             THEN /\ Goto(w, IF SentToDead(m) THEN "exhausted" ELSE "retried")
                  /\ UNCHANGED work
             ELSE /\ Release(w)
                  /\ work' = Requeue(w, work)
    BY <1>9 DEF Retry
  <2>4. budget' \in [FaultKinds -> Nat]
    BY <2>3, SufferType, PublicationType
  <2>5. retry' \in [Msg -> Nat]
    BY <2>2, <2>3, PutIfMessage DEF TypeOK
  <2>6. dead' \in [Notifications -> Nat]
    BY <2>1, <2>3 DEF PutIf, Put, TypeOK
  <2>7. work' \in [Msg -> Nat]
    BY <1>4, <1>9, <2>3 DEF Retry, TypeOK
  <2>8. Slots
    BY <1>1, <1>2, <1>9, <2>3 DEF Retry, PC
  <2>9. QED
    BY <1>9, <2>4, <2>5, <2>6, <2>7, <2>8 DEF Retry, TypeOK, dbVars, janitorVars
<1>10. CASE RecordRetry(w)
  <2>1. Slots
    BY <1>2, <1>10 DEF RecordRetry, PC
  <2>2. \/ UpdateStatus(job[w].n, "retrying", job[w].attempt)
        \/ UpdateStatus(job[w].n, "dead_letter", job[w].attempt)
    BY <1>10, EntityStatuses DEF RecordRetry
  <2>3. row' \in [Notifications -> Row] /\ budget' \in [FaultKinds -> Nat]
    BY <1>3, <1>10, <2>2, UpdateStatusType DEF RecordRetry, Status
  <2>4. QED
    BY <1>10, <2>1, <2>3 DEF RecordRetry, TypeOK, queueVars, janitorVars
<1>11. CASE RecordRejected(w)
  <2>1. Slots
    BY <1>2, <1>11 DEF RecordRejected, PC
  <2>2. UpdateStatus(job[w].n, "dead_letter", job[w].attempt)
    BY <1>11, EntityStatuses DEF RecordRejected
  <2>3. row' \in [Notifications -> Row] /\ budget' \in [FaultKinds -> Nat]
    BY <1>3, <1>11, <2>2, UpdateStatusType DEF RecordRejected, Status
  <2>4. QED
    BY <1>11, <2>1, <2>3 DEF RecordRejected, TypeOK, queueVars, janitorVars
<1>12. CASE Park(w)
  <2>1. PICK p \in Publication : /\ Suffer(FaultOf(p))
                                 /\ dead' = PutIf(Reaches(p), dead, job[w].n)
    BY <1>12 DEF Park
  <2>2. budget' \in [FaultKinds -> Nat]
    BY <2>1, SufferType, PublicationType
  <2>3. dead' \in [Notifications -> Nat]
    BY <1>3, <1>12, <2>1 DEF Park, PutIf, Put, TypeOK
  <2>4. Slots
    BY <1>2, <1>12 DEF Park, PC
  <2>5. QED
    BY <1>12, <2>2, <2>3, <2>4 DEF Park, TypeOK, dbVars, janitorVars
<1>13. CASE Ack(w)
  <2>1. Slots
    BY <1>1, <1>13 DEF Ack
  <2>2. QED
    BY <1>13, <2>1 DEF Ack, TypeOK, dbVars, queueVars, janitorVars
<1>14. CASE WorkerCrash(w)
  <2>1. Slots /\ work' \in [Msg -> Nat]
    BY <1>1, <1>4, <1>14 DEF WorkerCrash
  <2>2. budget' \in [FaultKinds -> Nat]
    BY <1>14, SufferType DEF WorkerCrash, FaultKinds
  <2>3. QED
    BY <1>14, <2>1, <2>2 DEF WorkerCrash, TypeOK, dbVars, janitorVars
<1>15. CASE ConnectionLost(w)
  <2>1. work' \in [Msg -> Nat]
    BY <1>3, <1>15, PutMessage DEF ConnectionLost, TypeOK
  <2>2. budget' \in [FaultKinds -> Nat]
    BY <1>15, SufferType DEF ConnectionLost, FaultKinds
  <2>3. QED
    BY <1>15, <2>1, <2>2 DEF ConnectionLost, TypeOK, dbVars, janitorVars
<1>16. QED
  BY <1>5, <1>6, <1>7, <1>8, <1>9, <1>10, <1>11, <1>12, <1>13, <1>14, <1>15
     DEF WorkerStep

\* A janitor preserves the types.
LEMMA JanitorTypes ==
    ASSUME TypeOK, NEW j \in Janitors,
           JanitorList(j) \/ JanitorPublish(j) \/ JanitorUpdate(j) \/ JanitorCrash(j)
    PROVE  TypeOK'
<1>1. CASE JanitorList(j)
  <2>1. StuckRows \subseteq Msg
    BY DEF StuckRows, TypeOK, Row, Msg
  <2>2. stuck' \in [Janitors -> SUBSET Msg]
    BY <1>1, <2>1 DEF JanitorList, TypeOK
  <2>3. budget' \in [FaultKinds -> Nat]
    BY <1>1, SufferType DEF JanitorList, FaultKinds
  <2>4. QED
    BY <1>1, <2>2, <2>3 DEF JanitorList, TypeOK, dbVars, queueVars, workerVars
<1>2. CASE JanitorPublish(j)
  <2>1. PICK m \in stuck[j], p \in Publication :
          /\ Suffer(FaultOf(p))
          /\ work' = PutIf(Reaches(p), work, m)
          /\ stuck' = [stuck EXCEPT ![j] = @ \ {m}]
          /\ rescued' = [rescued EXCEPT ![j] = IF p = "confirmed" THEN m ELSE NoMsg]
    BY <1>2 DEF JanitorPublish
  <2>2. m \in Msg
    BY DEF TypeOK
  <2>3. work' \in [Msg -> Nat]
    BY <2>1, <2>2, PutIfMessage, PublicationType DEF TypeOK
  <2>4. budget' \in [FaultKinds -> Nat]
    BY <2>1, SufferType, PublicationType
  <2>5. stuck' \in [Janitors -> SUBSET Msg]
    BY <2>1 DEF TypeOK
  <2>6. rescued' \in [Janitors -> Msg \cup {NoMsg}]
    BY <2>1, <2>2 DEF TypeOK
  <2>7. QED
    BY <1>2, <2>3, <2>4, <2>5, <2>6 DEF JanitorPublish, TypeOK, dbVars, workerVars
<1>3. CASE JanitorUpdate(j)
  <2>1. rescued[j] \in Msg
    BY <1>3 DEF JanitorUpdate, TypeOK
  <2>2. row' \in [Notifications -> Row] /\ budget' \in [FaultKinds -> Nat]
    BY <1>3, <2>1, UpdateStatusType DEF JanitorUpdate, Msg, Status
  <2>3. rescued' \in [Janitors -> Msg \cup {NoMsg}]
    BY <1>3 DEF JanitorUpdate, TypeOK
  <2>4. QED
    BY <1>3, <2>2, <2>3 DEF JanitorUpdate, TypeOK, queueVars, workerVars
<1>4. CASE JanitorCrash(j)
  <2>1. budget' \in [FaultKinds -> Nat]
    BY <1>4, SufferType DEF JanitorCrash, FaultKinds
  <2>2. QED
    BY <1>4, <2>1 DEF JanitorCrash, TypeOK, dbVars, queueVars, workerVars
<1>5. QED
  BY <1>1, <1>2, <1>3, <1>4

\* Every step preserves the types.
LEMMA NextTypes == TypeOK /\ [Next]_vars => TypeOK'
<1> SUFFICES ASSUME TypeOK, [Next]_vars
             PROVE  TypeOK'
  OBVIOUS
<1>1. CASE UNCHANGED vars
  BY <1>1 DEF vars, dbVars, queueVars, workerVars, janitorVars, TypeOK
<1>2. CASE Next
  BY <1>2, CommonTypes, RelayTypes, WorkerTypes, JanitorTypes DEF Next
<1>3. QED
  BY <1>1, <1>2

\* The initial state is well typed.
LEMMA TypesAtInit == Init => TypeOK
<1>1. Absent \in Row /\ NoTx \in Tx
  BY AttemptsType DEF Absent, Row, NoTx, Tx
<1>2. QED
  BY <1>1, AttemptsType, PipelineAssumption
     DEF Init, TypeOK, OutboxRow, Ledger, PC

\* The variables keep their types in every behaviour of the pipeline: no count
\* of a queue goes below zero, no header leaves its range, and a busy slot
\* always has a message. (All of Relay, Worker, Janitor and Pipeline.)
THEOREM TypesAreRight == Spec => []TypeOK
BY TypesAtInit, NextTypes, PTL DEF Spec

\* A slot in the middle of a message has one, for a known notification.
LEMMA BusySlot ==
    ASSUME TypeOK, NEW w \in Workers, pc[w] # "idle"
    PROVE  job[w] \in Msg /\ job[w].n \in Notifications /\ job[w].attempt \in Attempts
BY DEF TypeOK, Msg

-----------------------------------------------------------------------------
\* The log is true.

\* What the slots know and the log does not say yet: a slot on its way to
\* write a final status has seen the answer, or the parked copy, behind it.
SlotsAreTrue ==
    \A w \in Workers :
        /\ pc[w] = "sent" => provider[job[w].n].ok > 0
        /\ pc[w] = "rejected" => provider[job[w].n].rejected > 0
        /\ pc[w] = "exhausted" => dead[job[w].n] > 0

\* Answers of the provider and parked copies are never taken back.
LEMMA EvidenceGrows ==
    ASSUME TypeOK, NEW n \in Notifications, Next
    PROVE  /\ provider[n].ok > 0 => provider'[n].ok > 0
           /\ provider[n].rejected > 0 => provider'[n].rejected > 0
           /\ dead[n] > 0 => dead'[n] > 0
<1> DEFINE Kept == /\ provider[n].ok > 0 => provider'[n].ok > 0
                   /\ provider[n].rejected > 0 => provider'[n].rejected > 0
                   /\ dead[n] > 0 => dead'[n] > 0
<1>1. ASSUME NEW w \in Workers, Send(w)
      PROVE  Kept
  <2>1. job[w].n \in Notifications
    BY <1>1, BusySlot DEF Send
  <2>2. \A o, t, r \in {0, 1} :
          /\ provider[n].ok > 0 => Answered(job[w].n, o, t, r)[n].ok > 0
          /\ provider[n].rejected > 0 => Answered(job[w].n, o, t, r)[n].rejected > 0
    BY <2>1 DEF Answered, TypeOK, Ledger
  <2>3. QED
    BY <1>1, <2>2 DEF Send, queueVars
<1>2. ASSUME NEW w \in Workers, Retry(w) \/ Park(w)
      PROVE  Kept
  <2>1. PICK c \in BOOLEAN : dead' = PutIf(c, dead, job[w].n)
    BY <1>2 DEF Retry, Park, Reaches
  <2>2. dead[n] > 0 => dead'[n] > 0
    BY <2>1 DEF PutIf, Put, TypeOK
  <2>3. QED
    BY <1>2, <2>2 DEF Retry, Park
<1>3. QED
  BY <1>1, <1>2
     DEF Next, WorkerStep, Begin, RecordSent, RecordRetry, RecordRejected, Ack, Receive,
         WorkerCrash, ConnectionLost, Submit, Age, RelayClaim, RelayItem, RelayCommit,
         RelayAbort, RelayCrash, JanitorList, JanitorPublish, JanitorUpdate, JanitorCrash, Expire,
         EmptyPass, queueVars, vars

\* A slot keeps its place and its message unless it is the one that moves.
LEMMA SlotMoves ==
    ASSUME TypeOK, NEW w \in Workers, Next
    PROVE  \/ pc'[w] = pc[w] /\ job'[w] = job[w]
           \/ Receive(w) \/ WorkerStep(w) \/ WorkerCrash(w)
<1>1. ASSUME NEW v \in Workers, v # w, Receive(v) \/ WorkerStep(v) \/ WorkerCrash(v)
      PROVE  pc'[w] = pc[w] /\ job'[w] = job[w]
  BY <1>1 DEF Receive, WorkerStep, Begin, Send, RecordSent, Retry, RecordRetry,
              RecordRejected, Park, Ack, WorkerCrash, Goto, Release, TypeOK
<1>2. ASSUME NEW v \in Workers, ConnectionLost(v)
      PROVE  pc'[w] = pc[w] /\ job'[w] = job[w]
  BY <1>2 DEF ConnectionLost
<1>3. QED
  BY <1>1, <1>2
     DEF Next, Submit, Age, RelayClaim, RelayItem, RelayCommit, RelayAbort, RelayCrash, JanitorList,
         JanitorPublish, JanitorUpdate, JanitorCrash, Expire, EmptyPass, workerVars, vars

\* A slot that gets to a final branch of Execute has its evidence.
LEMMA SlotsStayTrue ==
    ASSUME TypeOK, SlotsAreTrue, Next
    PROVE  SlotsAreTrue'
<1> SUFFICES ASSUME NEW w \in Workers
             PROVE  /\ pc'[w] = "sent" => provider'[job'[w].n].ok > 0
                    /\ pc'[w] = "rejected" => provider'[job'[w].n].rejected > 0
                    /\ pc'[w] = "exhausted" => dead'[job'[w].n] > 0
  BY DEF SlotsAreTrue
<1>1. CASE pc'[w] = pc[w] /\ job'[w] = job[w]
  <2>1. CASE pc[w] = "idle"
    BY <1>1, <2>1
  <2>2. CASE pc[w] # "idle"
    BY <1>1, <2>2, BusySlot, EvidenceGrows DEF SlotsAreTrue
  <2>3. QED
    BY <2>1, <2>2
<1>2. CASE Send(w)
  <2>1. pc[w] # "idle" /\ job'[w] = job[w] /\ job[w].n \in Notifications
    BY <1>2, BusySlot DEF Send, Goto
  <2>2. provider[job[w].n] \in Ledger
    BY <2>1 DEF TypeOK
  <2>3. /\ Answered(job[w].n, 1, 0, 0)[job[w].n].ok > 0
        /\ Answered(job[w].n, 0, 0, 1)[job[w].n].rejected > 0
    BY <2>1, <2>2 DEF Answered, TypeOK, Ledger
  <2>4. \/ pc'[w] = "sent" /\ provider' = Answered(job[w].n, 1, 0, 0)
        \/ pc'[w] = "rejected" /\ provider' = Answered(job[w].n, 0, 0, 1)
        \/ pc'[w] = "transient"
    BY <1>2 DEF Send, Goto, TypeOK
  <2>5. QED
    BY <2>1, <2>3, <2>4
<1>3. CASE Retry(w)
  <2>1. pc[w] # "idle" /\ job[w] \in Msg /\ job[w].n \in Notifications
    BY <1>3, BusySlot DEF Retry
  <2>2. PICK p \in Publication :
          /\ dead' = PutIf(Reaches(p) /\ SentToDead(job[w]), dead, job[w].n)
          /\ IF p = "confirmed"
             THEN Goto(w, IF SentToDead(job[w]) THEN "exhausted" ELSE "retried")
             ELSE Release(w)
    BY <1>3 DEF Retry
  <2>3. CASE p = "confirmed" /\ SentToDead(job[w])
    <3>1. dead' = Put(dead, job[w].n) /\ pc'[w] = "exhausted" /\ job'[w] = job[w]
      BY <2>2, <2>3 DEF PutIf, Reaches, Goto, TypeOK
    <3>2. QED
      BY <2>1, <3>1 DEF Put, TypeOK
  <2>4. CASE ~(p = "confirmed" /\ SentToDead(job[w]))
    BY <2>2, <2>4 DEF Goto, Release, TypeOK
  <2>5. QED
    BY <2>3, <2>4
<1>4. ASSUME NEW next \in {"idle", "received", "sending", "acking", "parking"},
             pc' = [pc EXCEPT ![w] = next]
      PROVE  pc'[w] \notin {"sent", "rejected", "exhausted"}
  BY <1>4 DEF TypeOK
<1>5. CASE \/ Receive(w) \/ Begin(w) \/ RecordSent(w) \/ RecordRetry(w)
           \/ RecordRejected(w) \/ Park(w) \/ Ack(w) \/ WorkerCrash(w)
  BY <1>4, <1>5 DEF Receive, Begin, RecordSent, RecordRetry, RecordRejected, Park, Ack,
                    WorkerCrash, Goto, Release
<1>6. QED
  BY <1>1, <1>2, <1>3, <1>5, SlotMoves DEF WorkerStep

\* A row is only written to sent or dead_letter by a slot that has the evidence.
LEMMA StatusStaysTrue ==
    ASSUME TypeOK, StatusIsTrue, SlotsAreTrue, Next
    PROVE  StatusIsTrue'
<1> SUFFICES ASSUME NEW n \in Notifications
             PROVE  /\ row'[n].status = "sent" => provider'[n].ok > 0
                    /\ row'[n].status = "dead_letter"
                         => provider'[n].rejected > 0 \/ dead'[n] > 0
  BY DEF StatusIsTrue
<1>1. CASE row'[n].status = row[n].status
  BY <1>1, EvidenceGrows DEF StatusIsTrue
<1>2. ASSUME NEW x \in Notifications, NEW s \in Status, NEW a \in Attempts,
             UpdateStatus(x, s, a), row'[n].status # row[n].status
      PROVE  n = x /\ row'[n].status = s
  BY <1>2 DEF UpdateStatus, TypeOK
<1>3. ASSUME NEW w \in Workers, WorkerStep(w), row'[n].status # row[n].status
      PROVE  /\ row'[n].status = "sent" => provider[n].ok > 0
             /\ row'[n].status = "dead_letter" => provider[n].rejected > 0 \/ dead[n] > 0
  <2>1. CASE RecordSent(w)
    <3>1. pc[w] = "sent" /\ UpdateStatus(job[w].n, "sent", job[w].attempt)
      BY <2>1, EntityStatuses DEF RecordSent
    <3>2. n = job[w].n /\ row'[n].status = "sent"
      BY <1>2, <1>3, <3>1, BusySlot DEF Status
    <3>3. QED
      BY <3>1, <3>2 DEF SlotsAreTrue
  <2>2. CASE RecordRejected(w)
    <3>1. pc[w] = "rejected" /\ UpdateStatus(job[w].n, "dead_letter", job[w].attempt)
      BY <2>2, EntityStatuses DEF RecordRejected
    <3>2. n = job[w].n /\ row'[n].status = "dead_letter"
      BY <1>2, <1>3, <3>1, BusySlot DEF Status
    <3>3. QED
      BY <3>1, <3>2 DEF SlotsAreTrue
  <2>3. CASE RecordRetry(w)
    <3>1. \/ pc[w] = "retried" /\ UpdateStatus(job[w].n, "retrying", job[w].attempt)
          \/ pc[w] = "exhausted" /\ UpdateStatus(job[w].n, "dead_letter", job[w].attempt)
      BY <2>3, EntityStatuses DEF RecordRetry
    <3>2. /\ n = job[w].n
          /\ \/ row'[n].status = "retrying"
             \/ pc[w] = "exhausted" /\ row'[n].status = "dead_letter"
      BY <1>2, <1>3, <3>1, BusySlot DEF Status
    <3>3. QED
      BY <3>2 DEF SlotsAreTrue
  <2>4. CASE Begin(w)
    <3>1. pc[w] = "received" /\ UpdateStatus(job[w].n, "in_flight", job[w].attempt)
      BY <2>4, EntityStatuses DEF Begin
    <3>2. QED
      BY <1>2, <1>3, <3>1, BusySlot DEF Status
  <2>5. CASE Send(w) \/ Retry(w) \/ Park(w) \/ Ack(w)
    BY <1>3, <2>5 DEF Send, Retry, Park, Ack, dbVars
  <2>6. QED
    BY <1>3, <2>1, <2>2, <2>3, <2>4, <2>5 DEF WorkerStep
<1>4. ASSUME NEW j \in Janitors, JanitorUpdate(j), row'[n].status # row[n].status
      PROVE  row'[n].status = "enqueued"
  <2>1. rescued[j].n \in Notifications /\ rescued[j].attempt \in Attempts
    BY <1>4 DEF JanitorUpdate, TypeOK, Msg
  <2>2. QED
    BY <1>2, <1>4, <2>1 DEF JanitorUpdate, Status
<1>5. ASSUME NEW x \in Notifications, Submit(x) \/ Age(x), row'[n].status # row[n].status
      PROVE  row'[n].status = "enqueued"
  BY <1>5, EntityStatuses DEF Submit, Age, TypeOK, Absent, Row
<1>6. ASSUME row'[n].status # row[n].status
      PROVE  \/ \E w \in Workers : WorkerStep(w)
             \/ \E j \in Janitors : JanitorUpdate(j)
             \/ \E x \in Notifications : Submit(x) \/ Age(x)
  BY <1>6
     DEF Next, RelayClaim, RelayItem, RelayCommit, RelayAbort, RelayCrash, Receive, WorkerCrash,
         ConnectionLost, JanitorList, JanitorPublish, JanitorCrash, Expire, EmptyPass,
         dbVars, vars
<1>7. QED
  BY <1>1, <1>3, <1>4, <1>5, <1>6, EvidenceGrows

\* The log never claims more than the provider did: a row is sent only if the
\* provider accepted the notification, and dead_letter only if it rejected it
\* or a message of it is in the dead queue.
THEOREM LogIsTrue == Spec => []StatusIsTrue
<1> DEFINE Inv == TypeOK /\ StatusIsTrue /\ SlotsAreTrue
<1>1. Init => Inv
  BY TypesAtInit DEF Init, StatusIsTrue, SlotsAreTrue, Absent
<1>2. Inv /\ [Next]_vars => Inv'
  <2>1. Inv /\ Next => Inv'
    BY NextTypes, StatusStaysTrue, SlotsStayTrue
  <2>2. Inv /\ UNCHANGED vars => Inv'
    BY DEF StatusIsTrue, SlotsAreTrue, TypeOK, vars, dbVars, queueVars, workerVars,
           janitorVars
  <2>3. QED
    BY <2>1, <2>2
<1>3. Inv => StatusIsTrue
  OBVIOUS
<1>4. QED
  BY <1>1, <1>2, <1>3, PTL DEF Spec

-----------------------------------------------------------------------------
\* The row locks.

\* A step of a relay touches no other transaction.
LEMMA OtherTransactions ==
    ASSUME TypeOK, NEW r \in Relays,
           RelayClaim(r) \/ RelayItem(r) \/ RelayCommit(r) \/ RelayAbort(r) \/ RelayCrash(r)
    PROVE  \A s \in Relays : s # r => relay'[s] = relay[s]
BY DEF RelayClaim, RelayItem, RelayCommit, RelayAbort, RelayCrash, TypeOK

\* FOR UPDATE SKIP LOCKED: no step makes two transactions lock one row, and no
\* transaction's rows change under it. Locks go with the abort, before the rest
\* of the batch is published.
LEMMA LocksStay ==
    ASSUME TypeOK, ClaimsAreLocks, Next
    PROVE  ClaimsAreLocks'
<1>1. \A r \in Relays : relay[r] \in Tx
  BY DEF TypeOK
<1>2. ASSUME UNCHANGED relay,
             \A n \in Notifications :
                outbox[n].status = "pending" => /\ outbox'[n].status = "pending"
                                                /\ outbox'[n].attempts = outbox[n].attempts
      PROVE  ClaimsAreLocks'
  BY <1>1, <1>2 DEF ClaimsAreLocks, Tx
<1>3. ASSUME NEW n \in Notifications, Submit(n)
      PROVE  ClaimsAreLocks'
  BY <1>2, <1>3 DEF Submit, TypeOK, OutboxRow
<1>4. ASSUME NEW r \in Relays, RelayClaim(r)
      PROVE  ClaimsAreLocks'
  <2>1. PICK batch \in SUBSET Claimable : relay' = [relay EXCEPT ![r] = Opened(batch)]
    BY <1>4 DEF RelayClaim
  <2>2. /\ relay'[r].claimed = batch /\ relay'[r].todo = batch /\ relay'[r].published = {}
        /\ relay'[r].failed = {} /\ relay'[r].aborted = FALSE
        /\ \A n \in batch : relay'[r].attempts[n] = outbox[n].attempts
        /\ \A s \in Relays : s # r => relay'[s] = relay[s]
    BY <2>1 DEF TypeOK, NoTx, Opened, Claimable
  <2>3. \A n \in batch : /\ n \in Notifications
                         /\ outbox[n].status = "pending"
                         /\ \A s \in Relays : n \notin relay[s].claimed
    BY DEF Claimable, Locked
  <2>4. UNCHANGED outbox
    BY <1>4 DEF RelayClaim, dbVars
  <2>5. QED
    BY <2>2, <2>3, <2>4 DEF ClaimsAreLocks
<1>5. ASSUME NEW r \in Relays, RelayItem(r)
      PROVE  ClaimsAreLocks'
  <2>1. PICK n \in relay[r].todo, ok \in BOOLEAN :
          relay' = [relay EXCEPT ![r] = AfterItem(relay[r], n, ok)]
    BY <1>5 DEF RelayItem
  <2>2. /\ relay'[r].claimed = relay[r].claimed
        /\ relay'[r].attempts = relay[r].attempts
        /\ relay'[r].aborted = relay[r].aborted
        /\ relay'[r].todo = relay[r].todo \ {n}
        /\ relay'[r].published = IF ok /\ ~relay[r].aborted THEN relay[r].published \cup {n}
                                                           ELSE relay[r].published
        /\ relay'[r].failed = IF ~ok /\ ~relay[r].aborted THEN relay[r].failed \cup {n}
                                                         ELSE relay[r].failed
        /\ \A s \in Relays : s # r => relay'[s] = relay[s]
    BY <1>1, <2>1 DEF TypeOK, AfterItem, Tx
  <2>3. UNCHANGED outbox
    BY <1>5 DEF RelayItem, dbVars
  <2>4. \A s \in Relays : /\ relay'[s].claimed = relay[s].claimed
                          /\ relay'[s].attempts = relay[s].attempts
                          /\ relay'[s].aborted = relay[s].aborted
    BY <2>2
  <2>5. \A s \in Relays :
          LET tx == relay'[s]
          IN  /\ ~tx.aborted => tx.todo \subseteq tx.claimed
              /\ tx.published \cup tx.failed \subseteq tx.claimed
              /\ tx.todo \cap (tx.published \cup tx.failed) = {}
              /\ tx.published \cap tx.failed = {}
    BY <2>2 DEF ClaimsAreLocks
  <2>6. QED
    BY <2>3, <2>4, <2>5 DEF ClaimsAreLocks
<1>6. ASSUME NEW r \in Relays, RelayCommit(r) \/ RelayAbort(r) \/ RelayCrash(r)
      PROVE  ClaimsAreLocks'
  <2>1. /\ relay'[r].claimed = {} /\ relay'[r].published = {} /\ relay'[r].failed = {}
        /\ relay'[r].aborted \/ relay'[r].todo = {}
        /\ \A s \in Relays : s # r => relay'[s] = relay[s]
    <3>1. CASE RelayAbort(r)
      BY <3>1 DEF RelayAbort, Aborted, TypeOK, NoTx
    <3>2. CASE RelayCommit(r) \/ RelayCrash(r)
      BY <3>2 DEF RelayCommit, RelayCrash, TypeOK, NoTx
    <3>3. QED
      BY <1>6, <3>1, <3>2
  <2>2. \A n \in Notifications :
          n \notin relay[r].claimed => outbox'[n] = outbox[n]
    <3>1. \A n \in Notifications :
            n \notin relay[r].claimed => Marked(relay[r])[n] = outbox[n]
      BY DEF Marked, ClaimsAreLocks
    <3>2. QED
      BY <1>6, <3>1 DEF RelayCommit, RelayAbort, RelayCrash, dbVars
  <2>3. \A s \in Relays : s # r => \A n \in relay[s].claimed : outbox'[n] = outbox[n]
    BY <1>1, <2>2 DEF ClaimsAreLocks, Tx
  <2>4. QED
    BY <2>1, <2>3 DEF ClaimsAreLocks
<1>7. CASE UNCHANGED <<outbox, relay>>
  BY <1>2, <1>7
<1>8. QED
  BY <1>3, <1>4, <1>5, <1>6, <1>7
     DEF Next, Age, Receive, WorkerStep, Begin, Send, RecordSent, Retry, RecordRetry,
         RecordRejected, Park, Ack, WorkerCrash, ConnectionLost, JanitorList, JanitorPublish,
         JanitorUpdate, JanitorCrash, Expire, EmptyPass, dbVars, vars

-----------------------------------------------------------------------------
\* The retry budget is not overdrawn.

\* The attempt of a message counts failures that have happened.
Paid(m) == m.attempt <= Failures(m.n)

QueuesArePaid == \A m \in Msg : work[m] > 0 \/ retry[m] > 0 => Paid(m)

\* A slot about to retry has seen one failure more than its header counts.
SlotsArePaid ==
    \A w \in Workers :
        /\ job[w] \in Msg => Paid(job[w])
        /\ pc[w] = "transient" => job[w].attempt < Failures(job[w].n)
        /\ pc[w] = "exhausted" => Failures(job[w].n) > RetryLimit

JanitorsArePaid ==
    \A j \in Janitors : /\ \A m \in stuck[j] : Paid(m)
                        /\ rescued[j] \in Msg => Paid(rescued[j])

RowsArePaid == \A n \in Notifications : row[n].attempt <= Failures(n)

\* Also by a relay that no longer holds the rows it has read.
RelaysArePaid ==
    \A r \in Relays : \A n \in relay[r].todo : relay[r].attempts[n] <= Failures(n)

PaidInv == /\ TypeOK
           /\ ClaimsAreLocks
           /\ QueuesArePaid
           /\ SlotsArePaid
           /\ JanitorsArePaid
           /\ RowsArePaid
           /\ RelaysArePaid

\* Failures are counted, and a count is never taken back: the ledger only
\* grows, and MarkFailed writes one more than the row still says.
LEMMA FailuresGrow ==
    ASSUME TypeOK, ClaimsAreLocks, Next, NEW n \in Notifications
    PROVE  Failures(n) \in Nat /\ Failures(n)' \in Nat /\ Failures(n) <= Failures(n)'
<1>1. \A x \in Notifications : Failures(x) \in Nat
  BY AttemptsType DEF Failures, TypeOK, Ledger, OutboxRow, Attempts
<1>2. Failures(n)' \in Nat
  <2>1. TypeOK'
    BY NextTypes
  <2>2. QED
    BY <2>1, AttemptsType DEF Failures, TypeOK, Ledger, OutboxRow, Attempts
<1>3. provider[n].transient \in Nat /\ outbox[n].attempts \in Nat
  BY AttemptsType DEF TypeOK, Ledger, OutboxRow, Attempts
<1>4. provider'[n].transient \in Nat /\ outbox'[n].attempts \in Nat
  BY NextTypes, AttemptsType DEF TypeOK, Ledger, OutboxRow, Attempts
<1>5. provider[n].transient <= provider'[n].transient
  <2>1. ASSUME NEW w \in Workers, Send(w)
        PROVE  provider[n].transient <= provider'[n].transient
    <3>1. job[w].n \in Notifications
      BY <2>1, BusySlot DEF Send
    <3>2. \A o, t, r \in {0, 1} :
            provider[n].transient <= Answered(job[w].n, o, t, r)[n].transient
      BY <1>3, <3>1 DEF Answered, TypeOK, Ledger
    <3>3. QED
      BY <2>1, <3>2 DEF Send
  <2>2. CASE UNCHANGED provider
    BY <1>3, <2>2
  <2>3. QED
    BY <2>1, <2>2
       DEF Next, WorkerStep, Begin, RecordSent, Retry, RecordRetry, RecordRejected, Park,
           Ack, Receive, WorkerCrash, ConnectionLost, Submit, Age, RelayClaim, RelayItem,
           RelayCommit, RelayAbort, RelayCrash, JanitorList, JanitorPublish, JanitorUpdate,
           JanitorCrash, Expire, EmptyPass, vars
<1>6. outbox[n].attempts <= outbox'[n].attempts
  <2>1. ASSUME NEW r \in Relays, RelayCommit(r)
        PROVE  outbox[n].attempts <= outbox'[n].attempts
    <3>1. outbox[n].attempts <= Capped(outbox[n].attempts + 1)
      BY AttemptsType DEF Capped, TypeOK, OutboxRow, Attempts
    <3>2. n \in relay[r].failed => relay[r].attempts[n] = outbox[n].attempts
      BY DEF ClaimsAreLocks
    <3>3. outbox[n].attempts <= Marked(relay[r])[n].attempts
      BY <1>3, <3>1, <3>2 DEF Marked, TypeOK, OutboxRow
    <3>4. QED
      BY <1>3, <2>1, <3>3 DEF RelayCommit
  <2>2. ASSUME NEW x \in Notifications, Submit(x)
        PROVE  outbox[n].attempts <= outbox'[n].attempts
    BY <1>3, <2>2 DEF Submit, TypeOK, OutboxRow
  <2>3. CASE UNCHANGED outbox
    BY <1>3, <2>3
  <2>4. QED
    BY <2>1, <2>2, <2>3
       DEF Next, WorkerStep, Begin, Send, RecordSent, Retry, RecordRetry, RecordRejected,
           Park, Ack, Receive, WorkerCrash, ConnectionLost, Age, RelayClaim, RelayItem,
           RelayAbort, RelayCrash, JanitorList, JanitorPublish, JanitorUpdate, JanitorCrash, Expire,
           EmptyPass, dbVars, vars
<1>7. QED
  BY <1>1, <1>2, <1>3, <1>4, <1>5, <1>6 DEF Failures

\* What has been paid for stays paid for.
LEMMA PaidStays ==
    ASSUME TypeOK, ClaimsAreLocks, Next, NEW m \in Msg, Paid(m)
    PROVE  Paid(m)'
<1>1. m.n \in Notifications /\ m.attempt \in Nat
  BY AttemptsType DEF Msg, Attempts
<1>2. QED
  BY <1>1, FailuresGrow DEF Paid

\* A put makes only its own message appear in a queue.
LEMMA PutOnly ==
    ASSUME NEW q \in [Msg -> Nat], NEW m \in Msg, NEW x \in Msg, NEW c
    PROVE  /\ Put(q, m)[x] > 0 => q[x] > 0 \/ x = m
           /\ PutIf(c, q, m)[x] > 0 => q[x] > 0 \/ x = m
           /\ Take(q, m)[x] > 0 => q[x] > 0
<1>1. Put(q, m)[x] > 0 => q[x] > 0 \/ x = m
  BY DEF Put
<1>2. PutIf(c, q, m)[x] > 0 => q[x] > 0 \/ x = m
  BY <1>1 DEF PutIf
<1>3. Take(q, m)[x] > 0 => q[x] > 0
  BY DEF Take
<1>4. QED
  BY <1>1, <1>2, <1>3

\* Whoever puts a message into a queue holds a paid one, or pays for it with
\* the failure it has just seen.
LEMMA QueuesStayPaid ==
    ASSUME PaidInv, Next
    PROVE  QueuesArePaid'
<1>0. TypeOK /\ ClaimsAreLocks /\ work \in [Msg -> Nat] /\ retry \in [Msg -> Nat]
  BY DEF PaidInv, TypeOK
<1> SUFFICES ASSUME NEW m \in Msg, work'[m] > 0 \/ retry'[m] > 0
             PROVE  Paid(m)'
  BY DEF QueuesArePaid
<1>1. ASSUME work[m] > 0 \/ retry[m] > 0 \/ Paid(m)
      PROVE  Paid(m)'
  BY <1>0, <1>1, PaidStays DEF PaidInv, QueuesArePaid
<1>2. ASSUME NEW w \in Workers, pc[w] # "idle",
             work'[m] > 0 => work[m] > 0 \/ m = job[w],
             retry'[m] > 0 => retry[m] > 0
      PROVE  Paid(m)'
  BY <1>1, <1>2 DEF PaidInv, SlotsArePaid
<1>3. ASSUME NEW w \in Workers, Retry(w)
      PROVE  Paid(m)'
  <2>1. pc[w] = "transient" /\ job[w] \in Msg /\ job[w].n \in Notifications
                            /\ job[w].attempt \in Attempts
    BY <1>0, <1>3, BusySlot DEF Retry
  <2> DEFINE next == [job[w] EXCEPT !.attempt = Capped(@ + 1)]
  <2>2. next \in Msg /\ next.n = job[w].n /\ next.attempt <= job[w].attempt + 1
    BY <2>1, AttemptsType DEF Msg, Capped, Attempts
  <2>3. Paid(next)
    <3>1. job[w].attempt < Failures(job[w].n) /\ Failures(job[w].n) \in Nat
      BY <1>0, <2>1, FailuresGrow DEF PaidInv, SlotsArePaid
    <3>2. job[w].attempt \in Nat /\ next.attempt \in Nat
      BY <2>1, <2>2, AttemptsType DEF Msg, Attempts
    <3>3. QED
      BY <2>2, <3>1, <3>2 DEF Paid
  <2>4. PICK c \in BOOLEAN : retry' = PutIf(c, retry, next)
    BY <1>3 DEF Retry, Reaches
  <2>5. retry'[m] > 0 => retry[m] > 0 \/ m = next
    BY <1>0, <2>2, <2>4, PutOnly
  <2>6. work'[m] > 0 => work[m] > 0 \/ m = job[w]
    BY <1>0, <1>3, <2>1, PutOnly DEF Retry, Requeue
  <2>7. Paid(job[w])
    BY <2>1 DEF PaidInv, SlotsArePaid
  <2>8. QED
    BY <1>1, <2>3, <2>5, <2>6, <2>7
<1>4. ASSUME NEW w \in Workers, WorkerCrash(w) \/ ConnectionLost(w)
      PROVE  Paid(m)'
  <2>1. pc[w] # "idle" /\ job[w] \in Msg /\ retry' = retry
    BY <1>0, <1>4, BusySlot DEF WorkerCrash, ConnectionLost
  <2>2. work'[m] > 0 => work[m] > 0 \/ m = job[w]
    BY <1>0, <1>4, <2>1, PutOnly DEF WorkerCrash, ConnectionLost, Requeue
  <2>3. QED
    BY <1>2, <2>1, <2>2
<1>5. ASSUME NEW w \in Workers, Receive(w)
      PROVE  Paid(m)'
  <2>1. PICK x \in Msg : work' = Take(work, x)
    BY <1>5 DEF Receive
  <2>2. QED
    BY <1>0, <1>1, <1>5, <2>1, PutOnly DEF Receive
<1>6. ASSUME NEW r \in Relays, RelayItem(r)
      PROVE  Paid(m)'
  <2>1. PICK x \in relay[r].todo, p \in Publication :
          /\ work' = PutIf(Reaches(p), work, [n |-> x, attempt |-> relay[r].attempts[x]])
          /\ UNCHANGED retry
    BY <1>6 DEF RelayItem
  <2>2. x \in Notifications /\ relay[r].attempts[x] \in Attempts
    BY <1>0 DEF TypeOK, Tx
  <2>3. [n |-> x, attempt |-> relay[r].attempts[x]] \in Msg
    BY <2>2 DEF Msg
  <2>4. Paid([n |-> x, attempt |-> relay[r].attempts[x]])
    BY DEF Paid, PaidInv, RelaysArePaid
  <2>5. QED
    BY <1>0, <1>1, <2>1, <2>3, <2>4, PutOnly
<1>7. ASSUME NEW j \in Janitors, JanitorPublish(j)
      PROVE  Paid(m)'
  <2>1. PICK x \in stuck[j], p \in Publication :
          /\ work' = PutIf(Reaches(p), work, x)
          /\ UNCHANGED retry
    BY <1>7 DEF JanitorPublish
  <2>2. x \in Msg /\ Paid(x)
    BY <1>0 DEF TypeOK, PaidInv, JanitorsArePaid
  <2>3. QED
    BY <1>0, <1>1, <2>1, <2>2, PutOnly
<1>8. CASE Expire
  <2>1. PICK x \in Msg : retry[x] > 0 /\ retry' = Take(retry, x) /\ work' = Put(work, x)
    BY <1>8 DEF Expire
  <2>2. QED
    BY <1>0, <1>1, <2>1, PutOnly
<1>9. CASE UNCHANGED <<work, retry>>
  BY <1>1, <1>9
<1>10. QED
  BY <1>3, <1>4, <1>5, <1>6, <1>7, <1>8, <1>9
     DEF Next, WorkerStep, Begin, Send, RecordSent, RecordRetry, RecordRejected, Park, Ack,
         Submit, Age, RelayClaim, RelayCommit, RelayAbort, RelayCrash, JanitorList, JanitorUpdate,
         JanitorCrash, EmptyPass, queueVars, vars

\* A slot takes its attempt from the queue, and its failure from the provider.
LEMMA SlotsStayPaid ==
    ASSUME PaidInv, Next
    PROVE  SlotsArePaid'
<1>0. TypeOK /\ ClaimsAreLocks
  BY DEF PaidInv
<1> SUFFICES ASSUME NEW w \in Workers
             PROVE  /\ job'[w] \in Msg => Paid(job[w])'
                    /\ pc'[w] = "transient" => job'[w].attempt < Failures(job[w].n)'
                    /\ pc'[w] = "exhausted" => Failures(job[w].n)' > RetryLimit
  BY DEF SlotsArePaid
<1>1. job'[w] \notin Msg => pc'[w] = "idle"
  BY <1>0, NextTypes DEF TypeOK
<1>2. CASE job'[w] \notin Msg
  BY <1>1, <1>2
<1>3. ASSUME job'[w] \in Msg
      PROVE  /\ Paid(job[w])'
             /\ pc'[w] = "transient" => job'[w].attempt < Failures(job[w].n)'
             /\ pc'[w] = "exhausted" => Failures(job[w].n)' > RetryLimit
  <2>1. PICK m \in Msg : m = job'[w]
    BY <1>3
  <2>2. m.n \in Notifications /\ m.attempt \in Attempts /\ m.attempt \in Nat
                              /\ RetryLimit \in Nat
    BY AttemptsType DEF Msg, Attempts
  <2>3. Failures(m.n) \in Nat /\ Failures(m.n)' \in Nat /\ Failures(m.n) <= Failures(m.n)'
    BY <1>0, <2>2, FailuresGrow
  <2>4. SUFFICES /\ Paid(m)'
                 /\ pc'[w] = "transient" => m.attempt < Failures(m.n)'
                 /\ pc'[w] = "exhausted" => Failures(m.n)' > RetryLimit
    BY <2>1 DEF Paid, Failures
  <2>5. CASE pc'[w] = pc[w] /\ job'[w] = job[w]
    <3>1. /\ Paid(m)
          /\ pc[w] = "transient" => m.attempt < Failures(m.n)
          /\ pc[w] = "exhausted" => Failures(m.n) > RetryLimit
      BY <2>1, <2>5 DEF PaidInv, SlotsArePaid
    <3>2. QED
      BY <1>0, <2>2, <2>3, <2>5, <3>1, PaidStays
  <2>6. CASE Receive(w)
    <3>1. work[m] > 0 /\ pc'[w] = "received"
      BY <1>0, <2>1, <2>6 DEF Receive, TypeOK
    <3>2. QED
      BY <1>0, <3>1, PaidStays DEF PaidInv, QueuesArePaid
  <2>7. ASSUME pc[w] # "idle", job'[w] = job[w], pc'[w] \notin {"transient", "exhausted"}
        PROVE  /\ Paid(m)'
               /\ pc'[w] = "transient" => m.attempt < Failures(m.n)'
               /\ pc'[w] = "exhausted" => Failures(m.n)' > RetryLimit
    <3>1. Paid(m)
      BY <2>1, <2>7 DEF PaidInv, SlotsArePaid
    <3>2. QED
      BY <1>0, <2>7, <3>1, PaidStays
  <2>8. CASE Send(w)
    <3>1. job'[w] = job[w] /\ Paid(m)
      BY <2>1, <2>8 DEF Send, Goto, PaidInv, SlotsArePaid
    <3>2. pc'[w] = "transient" => Failures(m.n)' = Failures(m.n) + 1
      <4>1. provider[m.n] \in Ledger /\ outbox[m.n].attempts \in Nat
        BY <1>0, <2>2, AttemptsType DEF TypeOK, OutboxRow, Attempts
      <4>2. \A o \in {0, 1} : Answered(m.n, o, 1, 0)[m.n].transient
                                = provider[m.n].transient + 1
        BY <1>0, <2>2, <4>1 DEF Answered, TypeOK, Ledger
      <4>3. pc'[w] = "transient"
              => \E o \in {0, 1} : provider' = Answered(m.n, o, 1, 0)
        BY <1>0, <2>1, <2>8, <3>1 DEF Send, Goto, TypeOK
      <4>4. UNCHANGED outbox
        BY <2>8 DEF Send, dbVars
      <4>5. QED
        BY <4>1, <4>2, <4>3, <4>4 DEF Failures, Ledger
    <3>3. pc'[w] # "exhausted"
      BY <1>0, <2>8 DEF Send, Goto, TypeOK
    <3>4. QED
      BY <1>0, <2>2, <2>3, <3>1, <3>2, <3>3, PaidStays DEF Paid
  <2>9. CASE Retry(w)
    <3>1. pc[w] = "transient" /\ (pc'[w] # "idle" => job'[w] = job[w])
                              /\ pc'[w] # "transient"
                              /\ (pc'[w] = "exhausted" => SentToDead(job[w]))
      BY <1>0, <2>9 DEF Retry, Goto, Release, TypeOK
    <3>2. job'[w] = job[w]
      <4>1. pc'[w] = "idle" => job'[w] = NoMsg
        BY <1>0, <2>9 DEF Retry, Goto, Release, TypeOK
      <4>2. QED
        BY <1>3, <3>1, <4>1, PipelineAssumption
    <3>3. Paid(m) /\ m.attempt < Failures(m.n)
      BY <2>1, <3>1, <3>2 DEF PaidInv, SlotsArePaid
    <3>4. pc'[w] = "exhausted" => RetryLimit <= m.attempt
      BY <2>1, <2>2, <3>1, <3>2 DEF SentToDead
    <3>5. QED
      BY <1>0, <2>2, <2>3, <3>1, <3>3, <3>4, PaidStays
  <2>10. CASE Begin(w) \/ RecordSent(w) \/ RecordRetry(w) \/ RecordRejected(w) \/ Park(w)
    <3>1. pc[w] # "idle" /\ job'[w] = job[w] /\ pc'[w] \notin {"transient", "exhausted"}
      BY <1>0, <2>10
         DEF Begin, RecordSent, RecordRetry, RecordRejected, Park, Goto, TypeOK
    <3>2. QED
      BY <2>7, <3>1
  <2>11. ~(Ack(w) \/ WorkerCrash(w))
    <3>1. Ack(w) \/ WorkerCrash(w) => job'[w] = NoMsg
      BY <1>0 DEF Ack, WorkerCrash, Release, TypeOK
    <3>2. QED
      BY <1>3, <3>1, PipelineAssumption
  <2>12. QED
    BY <1>0, <2>5, <2>6, <2>8, <2>9, <2>10, <2>11, SlotMoves DEF WorkerStep
<1>4. QED
  BY <1>2, <1>3

\* A janitor republishes the attempt of a row it has read.
LEMMA JanitorsStayPaid ==
    ASSUME PaidInv, Next
    PROVE  JanitorsArePaid'
<1>0. TypeOK /\ ClaimsAreLocks
  BY DEF PaidInv
<1> SUFFICES ASSUME NEW j \in Janitors, NEW m \in Msg, m \in stuck'[j] \/ m = rescued'[j]
             PROVE  Paid(m)'
  <2>1. TypeOK'
    BY <1>0, NextTypes
  <2>2. \A i \in Janitors : stuck'[i] \subseteq Msg
    BY <2>1 DEF TypeOK
  <2>3. QED
    BY <2>2 DEF JanitorsArePaid, Paid, Failures
<1>1. ASSUME m \in stuck[j] \/ m = rescued[j] \/ Paid(m)
      PROVE  Paid(m)'
  BY <1>0, <1>1, PaidStays DEF PaidInv, JanitorsArePaid
<1>2. ASSUME NEW i \in Janitors, JanitorList(i)
      PROVE  Paid(m)'
  <2>1. m \in stuck[j] \/ m = rescued[j] \/ m \in StuckRows
    BY <1>0, <1>2 DEF JanitorList, TypeOK
  <2>2. m \in StuckRows => Paid(m)
    BY <1>0 DEF StuckRows, Paid, PaidInv, RowsArePaid
  <2>3. QED
    BY <1>1, <2>1, <2>2
<1>3. ASSUME NEW i \in Janitors, JanitorPublish(i) \/ JanitorUpdate(i) \/ JanitorCrash(i)
      PROVE  m \in stuck[j] \/ m = rescued[j]
  BY <1>0, <1>3, PipelineAssumption DEF JanitorPublish, JanitorUpdate, JanitorCrash, TypeOK
<1>4. CASE UNCHANGED janitorVars
  BY <1>1, <1>4 DEF janitorVars
<1>5. QED
  BY <1>1, <1>2, <1>3, <1>4
     DEF Next, Receive, WorkerStep, Begin, Send, RecordSent, Retry, RecordRetry,
         RecordRejected, Park, Ack, WorkerCrash, ConnectionLost, Submit, Age, RelayClaim,
         RelayItem, RelayCommit, RelayAbort, RelayCrash, Expire, EmptyPass, vars

\* A row shows the attempt of a message that a slot or a janitor held.
LEMMA RowsStayPaid ==
    ASSUME PaidInv, Next
    PROVE  RowsArePaid'
<1>0. TypeOK /\ ClaimsAreLocks
  BY DEF PaidInv
<1> SUFFICES ASSUME NEW n \in Notifications
             PROVE  row'[n].attempt <= Failures(n)'
  BY DEF RowsArePaid
<1>1. Failures(n) \in Nat /\ Failures(n)' \in Nat /\ Failures(n) <= Failures(n)'
  BY <1>0, FailuresGrow
<1>2. row'[n].attempt \in Nat /\ row[n].attempt \in Nat
  <2>1. TypeOK'
    BY <1>0, NextTypes
  <2>2. QED
    BY <1>0, <2>1, AttemptsType DEF TypeOK, Row, Attempts
<1>3. row[n].attempt <= Failures(n)
  BY DEF PaidInv, RowsArePaid
<1>4. ASSUME NEW m \in Msg, Paid(m), NEW s, UpdateStatus(m.n, s, m.attempt)
      PROVE  row'[n].attempt <= Failures(n)
  <2>1. row'[n].attempt = row[n].attempt \/ (n = m.n /\ row'[n].attempt = m.attempt)
    BY <1>0, <1>4 DEF UpdateStatus, TypeOK
  <2>2. QED
    BY <1>3, <1>4, <2>1 DEF Paid
<1>5. ASSUME NEW w \in Workers,
             Begin(w) \/ RecordSent(w) \/ RecordRetry(w) \/ RecordRejected(w)
      PROVE  row'[n].attempt <= Failures(n)
  <2>1. pc[w] # "idle"
    BY <1>5 DEF Begin, RecordSent, RecordRetry, RecordRejected
  <2>2. job[w] \in Msg /\ Paid(job[w])
    BY <1>0, <2>1, BusySlot DEF PaidInv, SlotsArePaid
  <2>3. \E s \in Status : UpdateStatus(job[w].n, s, job[w].attempt)
    BY <1>5, EntityStatuses DEF Begin, RecordSent, RecordRetry, RecordRejected, Status
  <2>4. QED
    BY <1>4, <2>2, <2>3
<1>6. ASSUME NEW j \in Janitors, JanitorUpdate(j)
      PROVE  row'[n].attempt <= Failures(n)
  <2>1. rescued[j] \in Msg /\ Paid(rescued[j])
    BY <1>0, <1>6 DEF JanitorUpdate, TypeOK, PaidInv, JanitorsArePaid
  <2>2. QED
    BY <1>4, <1>6, <2>1 DEF JanitorUpdate
<1>7. ASSUME NEW x \in Notifications, Submit(x) \/ Age(x)
      PROVE  row'[n].attempt = row[n].attempt
  <2>1. CASE Submit(x)
    <3>1. [Absent EXCEPT !.status = "enqueued"].attempt = row[x].attempt
      BY <2>1 DEF Submit, Absent
    <3>2. row' = [row EXCEPT ![x] = [Absent EXCEPT !.status = "enqueued"]]
      BY <2>1, EntityStatuses DEF Submit
    <3>3. QED
      BY <1>0, <3>1, <3>2 DEF TypeOK
  <2>2. CASE Age(x)
    BY <1>0, <2>2 DEF Age, TypeOK, Row
  <2>3. QED
    BY <1>7, <2>1, <2>2
<1>8. CASE UNCHANGED row
  BY <1>1, <1>2, <1>3, <1>8
<1>9. row'[n].attempt <= Failures(n)
  BY <1>3, <1>5, <1>6, <1>7, <1>8
     DEF Next, WorkerStep, Send, Retry, Park, Ack, Receive, WorkerCrash, ConnectionLost,
         RelayClaim, RelayItem, RelayCommit, RelayAbort, RelayCrash, JanitorList, JanitorPublish,
         JanitorCrash, Expire, EmptyPass, dbVars, vars
<1>10. QED
  BY <1>1, <1>2, <1>9

\* A relay has read the attempts of its items from the outbox, whose count of
\* failures only grows.
LEMMA RelaysStayPaid ==
    ASSUME PaidInv, Next
    PROVE  RelaysArePaid'
<1>0. TypeOK /\ ClaimsAreLocks
  BY DEF PaidInv
<1> SUFFICES ASSUME NEW r \in Relays, NEW n \in relay'[r].todo
             PROVE  relay'[r].attempts[n] <= Failures(n)'
  BY DEF RelaysArePaid
<1>1. TypeOK'
  BY <1>0, NextTypes
<1>2. n \in Notifications /\ relay'[r].attempts[n] \in Nat
  BY <1>1, AttemptsType DEF TypeOK, Tx, Attempts
<1>3. Failures(n) \in Nat /\ Failures(n)' \in Nat /\ Failures(n) <= Failures(n)'
  BY <1>0, <1>2, FailuresGrow
<1>4. ASSUME n \in relay[r].todo, relay'[r].attempts = relay[r].attempts
      PROVE  relay'[r].attempts[n] <= Failures(n)'
  BY <1>2, <1>3, <1>4 DEF PaidInv, RelaysArePaid
<1>5. CASE UNCHANGED relay
  BY <1>4, <1>5
<1>6. ASSUME NEW s \in Relays, RelayClaim(s)
      PROVE  relay'[r].attempts[n] <= Failures(n)'
  <2>1. CASE s = r
    <3>1. relay'[r].attempts[n] = outbox[n].attempts
      <4>1. PICK batch \in SUBSET Claimable : relay'[r] = Opened(batch)
        BY <1>0, <1>6, <2>1 DEF RelayClaim, TypeOK
      <4>2. n \in batch
        BY <4>1 DEF Opened, NoTx
      <4>3. QED
        BY <1>2, <4>1, <4>2 DEF Opened, NoTx
    <3>2. outbox[n].attempts \in Nat /\ provider[n].transient \in Nat
      BY <1>0, <1>2, AttemptsType DEF TypeOK, OutboxRow, Attempts, Ledger
    <3>3. QED
      BY <1>3, <3>1, <3>2 DEF Failures
  <2>2. CASE s # r
    BY <1>0, <1>4, <1>6, <2>2, OtherTransactions
  <2>3. QED
    BY <2>1, <2>2
<1>7. ASSUME NEW s \in Relays,
             RelayItem(s) \/ RelayCommit(s) \/ RelayAbort(s) \/ RelayCrash(s)
      PROVE  relay'[r].attempts[n] <= Failures(n)'
  <2>1. CASE s = r
    <3>1. ~RelayCommit(r) /\ ~RelayCrash(r)
      BY <1>0 DEF RelayCommit, RelayCrash, NoTx, TypeOK
    <3>2. n \in relay[r].todo /\ relay'[r].attempts = relay[r].attempts
      <4>1. relay[r] \in Tx
        BY <1>0 DEF TypeOK
      <4>2. CASE RelayItem(r)
        <5>1. PICK x \in relay[r].todo, ok \in BOOLEAN :
                relay' = [relay EXCEPT ![r] = AfterItem(relay[r], x, ok)]
          BY <4>2 DEF RelayItem
        <5>2. relay'[r].todo = relay[r].todo \ {x} /\ relay'[r].attempts = relay[r].attempts
          BY <1>0, <4>1, <5>1 DEF AfterItem, TypeOK, Tx
        <5>3. QED
          BY <5>2
      <4>3. CASE RelayAbort(r)
        BY <1>0, <4>3 DEF RelayAbort, Aborted, NoTx, TypeOK
      <4>4. QED
        BY <1>7, <2>1, <3>1, <4>2, <4>3
    <3>3. QED
      BY <1>4, <3>2
  <2>2. CASE s # r
    BY <1>0, <1>4, <1>7, <2>2, OtherTransactions
  <2>3. QED
    BY <2>1, <2>2
<1>8. QED
  BY <1>5, <1>6, <1>7
     DEF Next, Submit, Age, Receive, WorkerStep, Begin, Send, RecordSent, Retry, RecordRetry,
         RecordRejected, Park, Ack, WorkerCrash, ConnectionLost, JanitorList, JanitorPublish,
         JanitorUpdate, JanitorCrash, Expire, EmptyPass, vars

\* The retry budget is never overdrawn: the attempt on every copy and on every
\* row counts failures that really happened, and a notification parked for
\* exhaustion has failed more than RetryLimit times.
THEOREM RetriesArePaid == Spec => []AttemptsArePaid
<1>1. Init => PaidInv
  <2> SUFFICES ASSUME Init
               PROVE  PaidInv
    OBVIOUS
  <2>1. TypeOK
    BY TypesAtInit
  <2>2. \A n \in Notifications : Failures(n) = 0 /\ row[n].attempt = 0
    BY DEF Init, Failures, Absent
  <2>3. ClaimsAreLocks /\ RelaysArePaid
    BY DEF Init, ClaimsAreLocks, RelaysArePaid, NoTx
  <2>4. QED
    BY <2>1, <2>2, <2>3, PipelineAssumption
       DEF PaidInv, QueuesArePaid, SlotsArePaid, JanitorsArePaid, RowsArePaid, Init
<1>2. PaidInv /\ [Next]_vars => PaidInv'
  <2>1. PaidInv /\ Next => PaidInv'
    BY NextTypes, LocksStay, QueuesStayPaid, SlotsStayPaid, JanitorsStayPaid, RowsStayPaid,
       RelaysStayPaid DEF PaidInv
  <2>2. PaidInv /\ UNCHANGED vars => PaidInv'
    BY DEF PaidInv, TypeOK, ClaimsAreLocks, QueuesArePaid, SlotsArePaid, JanitorsArePaid,
           RowsArePaid, RelaysArePaid, Paid, Failures, vars, dbVars, queueVars, workerVars,
           janitorVars
  <2>3. QED
    BY <2>1, <2>2
<1>3. PaidInv => AttemptsArePaid
  <2> SUFFICES ASSUME PaidInv, NEW n \in Notifications
               PROVE  /\ row[n].attempt <= Failures(n)
                      /\ \A a \in Attempts : Carried(n, a) => a <= Failures(n)
                      /\ \A w \in Workers :
                           pc[w] = "exhausted" /\ job[w].n = n => Failures(n) > RetryLimit
    BY DEF AttemptsArePaid
  <2>1. ASSUME NEW a \in Attempts, Carried(n, a)
        PROVE  a <= Failures(n)
    <3>1. PICK m \in Msg : m = [n |-> n, attempt |-> a]
      BY DEF Msg
    <3>2. Paid(m)
      BY <2>1, <3>1 DEF Carried, PaidInv, QueuesArePaid, SlotsArePaid, JanitorsArePaid
    <3>3. QED
      BY <3>1, <3>2 DEF Paid
  <2>2. QED
    BY <2>1 DEF PaidInv, RowsArePaid, SlotsArePaid
<1>4. QED
  BY <1>1, <1>2, <1>3, PTL DEF Spec
=============================================================================
