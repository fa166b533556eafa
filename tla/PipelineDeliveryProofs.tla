----------------------- MODULE PipelineDeliveryProofs -----------------------
(***************************************************************************)
(* No accepted notification is lost, whatever crashes and whichever write  *)
(* or publish fails, for every value of the constants. The argument: being *)
(* safe (carried by a queue or a handler, or answered for good) is stable  *)
(* under every step; a relay only marks published what a confirmed publish *)
(* has made safe; and until its transaction commits the outbox row itself  *)
(* is still pending. From the same invariant, every step of the pipeline   *)
(* is a step of DeliveryPromise or leaves it alone. And no answer is given *)
(* twice without a fault: every copy of a notification is an answer that   *)
(* may still come, and a step that adds a copy without using up another    *)
(* spends a fault.                                                         *)
(***************************************************************************)
EXTENDS PipelineProofs, FiniteSetTheorems

-----------------------------------------------------------------------------
\* Safe is stable, process by process.

\* Requeueing loses nothing, and gives back the message of an owned delivery.
LEMMA RequeueKeeps ==
    ASSUME TypeOK, NEW w \in Workers, pc[w] # "idle"
    PROVE  /\ \A n \in Notifications : Holds(work, n) => Holds(Requeue(w, work), n)
           /\ owned[w] => Holds(Requeue(w, work), job[w].n)
BY BusySlot, PutIfMessage DEF Requeue, TypeOK

\* What makes a notification safe and does not depend on one slot survives a
\* step of that slot that takes nothing from the queues and the ledger.
LEMMA SafeElsewhere ==
    ASSUME TypeOK, NEW w \in Workers, NEW n \in Notifications, Safe(n), ~Handling(w, n),
           Holds(work, n) => Holds(work, n)',
           Holds(retry, n) => Holds(retry, n)',
           dead[n] > 0 => dead'[n] > 0,
           provider[n].ok > 0 => provider'[n].ok > 0,
           provider[n].rejected > 0 => provider'[n].rejected > 0,
           \A v \in Workers : v # w => /\ pc'[v] = pc[v]
                                       /\ job'[v] = job[v]
                                       /\ owned'[v] = owned[v]
    PROVE  Safe(n)'
<1>1. \A v \in Workers : Handling(v, n) => Handling(v, n)'
  BY DEF Handling
<1>2. QED
  BY <1>1 DEF Safe, Live, FinallyAnswered

\* Slots other than the one that moves are left alone.
LEMMA OtherSlots ==
    ASSUME TypeOK, NEW w \in Workers,
           \/ Release(w)
           \/ \E next \in PC : Goto(w, next)
    PROVE  \A v \in Workers : v # w => /\ pc'[v] = pc[v]
                                       /\ job'[v] = job[v]
                                       /\ owned'[v] = owned[v]
BY DEF Release, Goto, TypeOK

\* A step that touches no queue, no slot and no answer keeps a notification safe.
LEMMA SafeUntouched ==
    ASSUME NEW n \in Notifications, Safe(n), UNCHANGED <<queueVars, provider, workerVars>>
    PROVE  Safe(n)'
BY DEF Safe, Live, FinallyAnswered, Handling, Holds, queueVars, workerVars

\* Steps outside the worker slots keep a notification safe.
LEMMA SafeOutsideWorkers ==
    ASSUME TypeOK, NEW n \in Notifications, Safe(n),
           \/ \E x \in Notifications : Submit(x) \/ Age(x)
           \/ \E r \in Relays :
                RelayClaim(r) \/ RelayItem(r) \/ RelayCommit(r) \/ RelayAbort(r) \/ RelayCrash(r)
           \/ \E j \in Janitors :
                JanitorList(j) \/ JanitorPublish(j) \/ JanitorUpdate(j) \/ JanitorCrash(j)
           \/ Expire
           \/ EmptyPass
    PROVE  Safe(n)'
<1>1. ASSUME Holds(work, n) => Holds(work, n)',
             UNCHANGED <<retry, dead, provider, workerVars>>
      PROVE  Safe(n)'
  BY <1>1 DEF Safe, Live, FinallyAnswered, Handling, Holds, workerVars
<1>2. CASE \E x \in Notifications : Submit(x) \/ Age(x)
  BY <1>2, SafeUntouched DEF Submit, Age
<1>3. ASSUME NEW r \in Relays,
             RelayClaim(r) \/ RelayCommit(r) \/ RelayAbort(r) \/ RelayCrash(r)
      PROVE  Safe(n)'
  BY <1>3, SafeUntouched DEF RelayClaim, RelayCommit, RelayAbort, RelayCrash
<1>4. ASSUME NEW r \in Relays, RelayItem(r)
      PROVE  Safe(n)'
  <2>1. PICK x \in relay[r].todo, p \in Publication :
          /\ work' = PutIf(Reaches(p), work, [n |-> x, attempt |-> relay[r].attempts[x]])
          /\ UNCHANGED <<retry, dead, provider, workerVars>>
    BY <1>4 DEF RelayItem
  <2>2. [n |-> x, attempt |-> relay[r].attempts[x]] \in Msg
    BY DEF TypeOK, Tx, Msg
  <2>3. Holds(work, n) => Holds(work', n)
    BY <2>1, <2>2, PutIfMessage, PublicationType DEF TypeOK
  <2>4. QED
    BY <1>1, <2>1, <2>3 DEF Holds
<1>5. ASSUME NEW j \in Janitors,
             JanitorList(j) \/ JanitorUpdate(j) \/ JanitorCrash(j)
      PROVE  Safe(n)'
  BY <1>5, SafeUntouched DEF JanitorList, JanitorUpdate, JanitorCrash
<1>6. ASSUME NEW j \in Janitors, JanitorPublish(j)
      PROVE  Safe(n)'
  <2>1. PICK m \in stuck[j], p \in Publication :
          /\ work' = PutIf(Reaches(p), work, m)
          /\ UNCHANGED <<retry, dead, provider, workerVars>>
    BY <1>6 DEF JanitorPublish
  <2>2. m \in Msg
    BY DEF TypeOK
  <2>3. Holds(work, n) => Holds(work', n)
    BY <2>1, <2>2, PutIfMessage, PublicationType DEF TypeOK
  <2>4. QED
    BY <1>1, <2>1, <2>3 DEF Holds
<1>7. CASE Expire
  <2>1. PICK m \in Msg : retry[m] > 0 /\ retry' = Take(retry, m) /\ work' = Put(work, m)
    BY <1>7 DEF Expire
  <2>2. Holds(work, n) => Holds(work', n)
    BY <2>1, PutMessage DEF TypeOK
  <2>3. Holds(retry, n) => Holds(retry', n) \/ Holds(work', n)
    <3>1. n = m.n => Holds(work', n)
      BY <2>1, PutMessage DEF TypeOK
    <3>2. Holds(retry, n) /\ n # m.n => Holds(retry', n)
      BY <2>1, TakeMessage DEF TypeOK
    <3>3. QED
      BY <3>1, <3>2
  <2>4. QED
    BY <1>7, <2>2, <2>3
       DEF Expire, Safe, Live, FinallyAnswered, Handling, Holds, workerVars
<1>8. CASE EmptyPass
  BY <1>8, SafeUntouched DEF EmptyPass, vars
<1>9. QED
  BY <1>2, <1>3, <1>4, <1>5, <1>6, <1>7, <1>8

\* A worker slot keeps a notification safe: what it takes from a queue it
\* handles, and it lets go of a message only when a queue holds its successor,
\* the broker still owes its redelivery, or the provider has answered.
LEMMA SafeInWorker ==
    ASSUME TypeOK, NEW w \in Workers, NEW n \in Notifications, Safe(n),
           Receive(w) \/ WorkerStep(w) \/ WorkerCrash(w) \/ ConnectionLost(w)
    PROVE  Safe(n)'
<1>1. ASSUME NEW next \in PC, Goto(w, next), ~Handling(w, n),
             UNCHANGED <<queueVars, provider>>
      PROVE  Safe(n)'
  <2>1. \A v \in Workers : Handling(v, n) => Handling(v, n)'
    BY <1>1, OtherSlots DEF Handling
  <2>2. QED
    BY <1>1, <2>1 DEF Safe, Live, FinallyAnswered, Holds, queueVars
<1>2. CASE Receive(w)
  <2>1. PICK m \in Msg : /\ work[m] > 0
                         /\ work' = Take(work, m)
                         /\ job' = [job EXCEPT ![w] = m]
    BY <1>2 DEF Receive
  <2>2. n = m.n => Handling(w, n)'
    BY <1>2, <2>1 DEF Receive, Handling, TypeOK
  <2>3. n # m.n /\ Holds(work, n) => Holds(work', n)
    BY <2>1, TakeMessage DEF TypeOK
  <2>4. \A v \in Workers : Handling(v, n) => Handling(v, n)'
    BY <1>2, <2>1 DEF Receive, Handling, TypeOK
  <2>5. QED
    BY <1>2, <2>2, <2>3, <2>4 DEF Receive, Safe, Live, FinallyAnswered, Holds
<1>3. CASE Begin(w)
  <2>1. \A v \in Workers : Handling(v, n) => Handling(v, n)'
    BY <1>3 DEF Begin, Goto, Handling, TypeOK
  <2>2. QED
    BY <1>3, <2>1 DEF Begin, Safe, Live, FinallyAnswered, Holds, queueVars
<1>4. CASE Send(w)
  <2>1. job[w].n \in Notifications /\ provider[job[w].n] \in Ledger
    BY <1>4, BusySlot DEF Send, TypeOK
  <2>2. \A o, t, r \in {0, 1}, x \in Notifications :
          /\ provider[x].ok > 0 => Answered(job[w].n, o, t, r)[x].ok > 0
          /\ provider[x].rejected > 0 => Answered(job[w].n, o, t, r)[x].rejected > 0
          /\ o = 1 => Answered(job[w].n, o, t, r)[job[w].n].ok > 0
          /\ r = 1 => Answered(job[w].n, o, t, r)[job[w].n].rejected > 0
    BY <2>1 DEF Answered, TypeOK, Ledger
  <2>3. PICK o \in {0, 1}, t \in {0, 1}, r \in {0, 1}, next \in PC :
          /\ provider' = Answered(job[w].n, o, t, r)
          /\ Goto(w, next)
          /\ next = "transient" \/ o = 1 \/ r = 1
    BY <1>4 DEF Send, PC
  <2>4. FinallyAnswered(n) => FinallyAnswered(n)'
    BY <2>2, <2>3 DEF FinallyAnswered
  <2>5. CASE next = "transient"
    <3>1. \A v \in Workers : Handling(v, n) => Handling(v, n)'
      BY <2>3, <2>5 DEF Goto, Handling, TypeOK
    <3>2. QED
      BY <1>4, <2>4, <3>1 DEF Send, Safe, Live, Holds, queueVars
  <2>6. CASE o = 1 \/ r = 1
    <3>1. Handling(w, n) => FinallyAnswered(n)'
      BY <2>2, <2>3, <2>6 DEF Handling, FinallyAnswered
    <3>2. \A v \in Workers : v # w /\ Handling(v, n) => Handling(v, n)'
      BY <2>3, OtherSlots DEF Handling
    <3>3. QED
      BY <1>4, <2>4, <3>1, <3>2 DEF Send, Safe, Live, Holds, queueVars
  <2>7. QED
    BY <2>3, <2>5, <2>6
<1>5. CASE RecordSent(w)
  BY <1>1, <1>5 DEF RecordSent, Handling, PC
<1>6. CASE Retry(w)
  <2> DEFINE m    == job[w]
             next == [m EXCEPT !.attempt = Capped(@ + 1)]
  <2>1. m \in Msg /\ m.n \in Notifications /\ next \in Msg /\ next.n = m.n
    BY <1>6, BusySlot, AttemptsType DEF Retry, Msg
  <2>2. PICK p \in Publication :
          /\ retry' = PutIf(Reaches(p) /\ ~SentToDead(m), retry, next)
          /\ dead' = PutIf(Reaches(p) /\ SentToDead(m), dead, m.n)
          /\ IF p = "confirmed"
             THEN /\ Goto(w, IF SentToDead(m) THEN "exhausted" ELSE "retried")
                  /\ UNCHANGED work
             ELSE /\ Release(w)
                  /\ work' = Requeue(w, work)
    BY <1>6 DEF Retry
  <2>3. /\ Holds(retry, n) => Holds(retry', n)
        /\ Reaches(p) /\ ~SentToDead(m) => Holds(retry', m.n)
    BY <2>1, <2>2, PutIfMessage DEF TypeOK
  <2>4. /\ dead[n] > 0 => dead'[n] > 0
        /\ Reaches(p) /\ SentToDead(m) => dead'[m.n] > 0
    BY <2>1, <2>2 DEF PutIf, Put, TypeOK
  <2>5. \A v \in Workers : v # w => /\ pc'[v] = pc[v]
                                    /\ job'[v] = job[v]
                                    /\ owned'[v] = owned[v]
    BY <2>2, OtherSlots DEF PC
  <2>6. Holds(work, n) => Holds(work', n)
    BY <1>6, <2>2, RequeueKeeps DEF Retry
  <2>7. Handling(w, n) => Holds(work', n) \/ Holds(retry', n) \/ dead'[n] > 0
    <3>1. CASE p = "confirmed"
      BY <2>3, <2>4, <3>1 DEF Reaches, Handling
    <3>2. CASE p # "confirmed"
      BY <1>6, <2>2, <3>2, RequeueKeeps DEF Handling, Retry
    <3>3. QED
      BY <3>1, <3>2
  <2>8. CASE Handling(w, n)
    BY <2>7, <2>8 DEF Safe, Live, Holds
  <2>9. CASE ~Handling(w, n)
    BY <1>6, <2>3, <2>4, <2>5, <2>6, <2>9, SafeElsewhere DEF Retry, Holds
  <2>10. QED
    BY <2>8, <2>9
<1>7. CASE RecordRetry(w)
  BY <1>1, <1>7 DEF RecordRetry, Handling, PC
<1>8. CASE RecordRejected(w)
  BY <1>1, <1>8 DEF RecordRejected, Handling, PC
<1>9. CASE Park(w)
  <2>1. ~Handling(w, n) /\ job[w].n \in Notifications
    BY <1>9, BusySlot DEF Park, Handling
  <2>2. PICK p \in Publication : dead' = PutIf(Reaches(p), dead, job[w].n)
    BY <1>9 DEF Park
  <2>3. dead[n] > 0 => dead'[n] > 0
    BY <2>1, <2>2 DEF PutIf, Put, TypeOK
  <2>4. Goto(w, "acking") /\ "acking" \in PC
    BY <1>9 DEF Park, PC
  <2>5. \A v \in Workers : v # w => /\ pc'[v] = pc[v]
                                    /\ job'[v] = job[v]
                                    /\ owned'[v] = owned[v]
    BY <2>4, OtherSlots
  <2>6. QED
    BY <1>9, <2>1, <2>3, <2>5, SafeElsewhere DEF Park, Holds
<1>10. CASE Ack(w)
  <2>1. ~Handling(w, n)
    BY <1>10 DEF Ack, Handling
  <2>2. \A v \in Workers : v # w => /\ pc'[v] = pc[v]
                                    /\ job'[v] = job[v]
                                    /\ owned'[v] = owned[v]
    BY <1>10, OtherSlots DEF Ack
  <2>3. QED
    BY <1>10, <2>1, <2>2, SafeElsewhere DEF Ack, Holds, queueVars
<1>11. CASE WorkerCrash(w)
  <2>1. \A v \in Workers : v # w => /\ pc'[v] = pc[v]
                                    /\ job'[v] = job[v]
                                    /\ owned'[v] = owned[v]
    BY <1>11, OtherSlots DEF WorkerCrash
  <2>2. /\ Holds(work, n) => Holds(work', n)
        /\ Handling(w, n) => Holds(work', n)
    BY <1>11, RequeueKeeps DEF WorkerCrash, Handling
  <2>3. QED
    BY <1>11, <2>1, <2>2, SafeElsewhere DEF WorkerCrash, Holds, Safe, Live
<1>12. CASE ConnectionLost(w)
  <2>1. job[w] \in Msg
    BY <1>12, BusySlot DEF ConnectionLost
  <2>2. /\ Holds(work, n) => Holds(work', n)
        /\ Handling(w, n) => Holds(work', n)
    BY <1>12, <2>1, PutMessage DEF ConnectionLost, Handling, TypeOK
  <2>3. \A v \in Workers : v # w => /\ pc'[v] = pc[v]
                                    /\ job'[v] = job[v]
                                    /\ owned'[v] = owned[v]
    BY <1>12 DEF ConnectionLost, TypeOK
  <2>4. QED
    BY <1>12, <2>2, <2>3, SafeElsewhere DEF ConnectionLost, Holds, Safe, Live
<1>13. QED
  BY <1>2, <1>3, <1>4, <1>5, <1>6, <1>7, <1>8, <1>9, <1>10, <1>11, <1>12 DEF WorkerStep

-----------------------------------------------------------------------------
\* Who writes a row.

\* A process that may write the status of n.
Writer(n) ==
    \/ \E w \in Workers : pc[w] # "idle" /\ job[w].n = n
    \/ \E j \in Janitors : rescued[j] # NoMsg /\ rescued[j].n = n

\* UpdateStatus changes the status of its own row only, to a status.
LEMMA UpdateStatusRow ==
    ASSUME TypeOK, NEW n \in Notifications, NEW x \in Notifications, NEW s \in Status,
           NEW a \in Attempts, UpdateStatus(x, s, a)
    PROVE  row'[n].status = row[n].status \/ (n = x /\ row'[n].status \in Status)
BY DEF UpdateStatus, TypeOK

\* A row appears with its outbox row, and from then on only a process that
\* holds a message of the notification changes its status.
LEMMA RowChanges ==
    ASSUME TypeOK, NEW n \in Notifications, Next
    PROVE  \/ row'[n].status = row[n].status
           \/ /\ row'[n].status \in Status
              /\ Writer(n) \/ (Submit(n) /\ outbox'[n].status = "pending")
<1>1. ASSUME NEW x \in Notifications, Submit(x)
      PROVE  \/ row'[n].status = row[n].status
             \/ row'[n].status \in Status /\ n = x /\ outbox'[n].status = "pending"
  BY <1>1, EntityStatuses DEF Submit, TypeOK, Absent, Status, Row, OutboxRow
<1>2. ASSUME NEW x \in Notifications, Age(x)
      PROVE  row'[n].status = row[n].status
  BY <1>2 DEF Age, TypeOK, Row
<1>3. ASSUME NEW w \in Workers, WorkerStep(w)
      PROVE  \/ row'[n].status = row[n].status
             \/ row'[n].status \in Status /\ Writer(n)
  <2>1. CASE UNCHANGED row
    BY <2>1
  <2>2. CASE \/ Begin(w) \/ RecordSent(w) \/ RecordRetry(w) \/ RecordRejected(w)
    <3>1. pc[w] # "idle"
      BY <2>2 DEF Begin, RecordSent, RecordRetry, RecordRejected
    <3>2. PICK s \in Status : UpdateStatus(job[w].n, s, job[w].attempt)
      BY <2>2, EntityStatuses
         DEF Begin, RecordSent, RecordRetry, RecordRejected, Status
    <3>3. QED
      BY <3>1, <3>2, BusySlot, UpdateStatusRow DEF Writer
  <2>3. QED
    BY <1>3, <2>1, <2>2 DEF WorkerStep, Send, Retry, Park, Ack, dbVars
<1>4. ASSUME NEW j \in Janitors, JanitorUpdate(j)
      PROVE  \/ row'[n].status = row[n].status
             \/ row'[n].status \in Status /\ Writer(n)
  <2>1. rescued[j] # NoMsg /\ rescued[j].n \in Notifications /\ rescued[j].attempt \in Attempts
    BY <1>4 DEF JanitorUpdate, TypeOK, Msg
  <2>2. QED
    BY <1>4, <2>1, UpdateStatusRow DEF JanitorUpdate, Writer, Status
<1>5. QED
  BY <1>1, <1>2, <1>3, <1>4
     DEF Next, RelayClaim, RelayItem, RelayCommit, RelayAbort, RelayCrash, Receive, WorkerCrash,
         ConnectionLost, JanitorList, JanitorPublish, JanitorCrash, Expire, EmptyPass,
         dbVars, vars

-----------------------------------------------------------------------------
\* Only accepted notifications are in the system.

\* A put adds nothing for other notifications, and a take adds nothing at all.
LEMMA QueueElsewhere ==
    ASSUME NEW q \in [Msg -> Nat], NEW m \in Msg, NEW c \in BOOLEAN,
           NEW n \in Notifications
    PROVE  /\ Holds(Put(q, m), n) => Holds(q, n) \/ n = m.n
           /\ Holds(PutIf(c, q, m), n) => Holds(q, n) \/ n = m.n
           /\ Holds(Take(q, m), n) => Holds(q, n)
<1>1. \A x \in Msg : x # m => Put(q, m)[x] = q[x] /\ Take(q, m)[x] = q[x]
  BY DEF Put, Take
<1>2. Take(q, m)[m] = q[m] - 1
  BY DEF Take
<1>3. \A a \in Attempts : [n |-> n, attempt |-> a] \in Msg
  BY DEF Msg
<1>4. Holds(Put(q, m), n) => Holds(q, n) \/ n = m.n
  BY <1>1, <1>3 DEF Holds
<1>5. Holds(Take(q, m), n) => Holds(q, n)
  BY <1>1, <1>2, <1>3 DEF Holds
<1>6. QED
  BY <1>4, <1>5 DEF PutIf

\* A message that a queue holds is about a notification the queue holds.
LEMMA HeldMessage ==
    ASSUME NEW q \in [Msg -> Nat], NEW m \in Msg, q[m] > 0
    PROVE  m.n \in Notifications /\ Holds(q, m.n)
BY DEF Holds, Msg

\* No relay step makes an unknown notification known.
LEMMA UnknownToRelays ==
    ASSUME TypeOK, NEW n \in Notifications, Unknown(n), NEW r \in Relays,
           RelayClaim(r) \/ RelayItem(r) \/ RelayCommit(r) \/ RelayAbort(r) \/ RelayCrash(r)
    PROVE  Unknown(n)'
<1>1. n \notin relay[r].todo \cup relay[r].published
  BY DEF Unknown
<1>2. CASE RelayClaim(r)
  <2>1. PICK batch \in SUBSET Claimable :
          relay' = [relay EXCEPT ![r] = Opened(batch)]
    BY <1>2 DEF RelayClaim
  <2>2. n \notin batch
    BY <2>1 DEF Claimable, Unknown
  <2>3. \A x \in Relays : n \notin relay'[x].todo \cup relay'[x].published
    BY <2>1, <2>2 DEF Unknown, TypeOK, NoTx, Opened
  <2>4. QED
    BY <1>2, <2>3 DEF RelayClaim, Unknown, FinallyAnswered, Holds,
                      dbVars, queueVars, workerVars, janitorVars
<1>3. CASE RelayItem(r)
  <2>1. PICK x \in relay[r].todo, p \in Publication :
          /\ Suffer(FaultOf(p))
          /\ work' = PutIf(Reaches(p), work, [n |-> x, attempt |-> relay[r].attempts[x]])
          /\ relay' = [relay EXCEPT ![r] = AfterItem(relay[r], x, p = "confirmed")]
          /\ UNCHANGED <<dbVars, retry, dead, provider, workerVars, janitorVars>>
    BY <1>3 DEF RelayItem
  <2>2. x # n /\ [n |-> x, attempt |-> relay[r].attempts[x]] \in Msg
    BY <1>1 DEF TypeOK, Tx, Msg
  <2>3. ~Holds(work', n)
    BY <2>1, <2>2, QueueElsewhere, PublicationType DEF Unknown, TypeOK
  <2>4. \A y \in Relays : n \notin relay'[y].todo \cup relay'[y].published
    BY <1>1, <2>1, <2>2 DEF AfterItem, Unknown, TypeOK
  <2>5. QED
    BY <2>1, <2>3, <2>4 DEF Unknown, FinallyAnswered, Holds,
                            dbVars, workerVars, janitorVars
<1>4. ASSUME NEW tx, relay' = [relay EXCEPT ![r] = tx],
             n \notin tx.todo \cup tx.published,
             outbox'[n].status = outbox[n].status,
             UNCHANGED <<queueVars, provider, workerVars, janitorVars>>
      PROVE  Unknown(n)'
  <2>1. \A y \in Relays : n \notin relay'[y].todo \cup relay'[y].published
    BY <1>4 DEF Unknown, TypeOK
  <2>2. QED
    BY <1>4, <2>1 DEF Unknown, FinallyAnswered, Holds, queueVars, workerVars, janitorVars
<1>5. CASE RelayCommit(r)
  <2>1. Marked(relay[r])[n].status = outbox[n].status
    BY <1>1 DEF Marked, TypeOK, OutboxRow
  <2>2. QED
    BY <1>4, <1>5, <2>1 DEF RelayCommit, NoTx
<1>6. CASE RelayCrash(r)
  BY <1>4, <1>6 DEF RelayCrash, NoTx, dbVars
<1>7. CASE RelayAbort(r)
  BY <1>1, <1>4, <1>7 DEF RelayAbort, Aborted, NoTx, dbVars
<1>8. QED
  BY <1>2, <1>3, <1>5, <1>6, <1>7

\* Nor does a worker slot.
LEMMA UnknownToWorkers ==
    ASSUME TypeOK, NEW n \in Notifications, Unknown(n), NEW w \in Workers,
           Receive(w) \/ WorkerStep(w) \/ WorkerCrash(w) \/ ConnectionLost(w)
    PROVE  Unknown(n)'
<1> DEFINE Elsewhere == \A v \in Workers : pc'[v] # "idle" => job'[v].n # n
<1>1. pc[w] # "idle" => job[w] \in Msg /\ job[w].n \in Notifications /\ job[w].n # n
  BY BusySlot DEF Unknown
<1>2. ASSUME NEW next \in PC, pc[w] # "idle", Goto(w, next)
      PROVE  Elsewhere
  BY <1>2 DEF Goto, Unknown, TypeOK
<1>3. ASSUME Release(w)
      PROVE  Elsewhere
  BY <1>3 DEF Release, Unknown, TypeOK
<1>4. pc[w] # "idle" => ~Holds(Requeue(w, work), n)
  BY <1>1, QueueElsewhere DEF Requeue, Unknown, TypeOK
<1>5. ASSUME Elsewhere, outbox' = outbox, relay' = relay, UNCHANGED janitorVars,
             ~Holds(work', n), ~Holds(retry', n), dead'[n] = 0, provider'[n] = provider[n]
      PROVE  Unknown(n)'
  BY <1>5 DEF Unknown, FinallyAnswered, Holds, janitorVars
<1>6. ASSUME Elsewhere, UNCHANGED <<outbox, relay, janitorVars, queueVars, provider>>
      PROVE  Unknown(n)'
  BY <1>6 DEF Unknown, FinallyAnswered, Holds, janitorVars, queueVars
<1>7. CASE Receive(w)
  <2>1. PICK m \in Msg : /\ work[m] > 0
                         /\ work' = Take(work, m)
                         /\ job' = [job EXCEPT ![w] = m]
    BY <1>7 DEF Receive
  <2>2. m.n # n
    BY <2>1, HeldMessage DEF Unknown, TypeOK
  <2>3. ~Holds(work', n)
    BY <2>1, QueueElsewhere DEF Unknown, TypeOK
  <2>4. Elsewhere
    BY <1>7, <2>1, <2>2 DEF Receive, Unknown, TypeOK
  <2>5. QED
    BY <1>5, <1>7, <2>3, <2>4 DEF Receive, Unknown, Holds, dbVars
<1>8. CASE Begin(w) \/ RecordSent(w) \/ RecordRetry(w) \/ RecordRejected(w) \/ Ack(w)
  <2>1. Elsewhere
    BY <1>2, <1>3, <1>8 DEF Begin, RecordSent, RecordRetry, RecordRejected, Ack, PC
  <2>2. QED
    BY <1>6, <1>8, <2>1
       DEF Begin, RecordSent, RecordRetry, RecordRejected, Ack, dbVars
<1>9. CASE Send(w)
  <2>1. Elsewhere
    BY <1>2, <1>9 DEF Send, PC
  <2>2. provider'[n] = provider[n]
    BY <1>1, <1>9 DEF Send, Answered, TypeOK
  <2>3. QED
    BY <1>5, <1>9, <2>1, <2>2 DEF Send, Unknown, Holds, dbVars, queueVars
<1>10. CASE Retry(w)
  <2> DEFINE m    == job[w]
             next == [m EXCEPT !.attempt = Capped(@ + 1)]
  <2>1. m \in Msg /\ next \in Msg /\ next.n = m.n /\ m.n # n
    BY <1>1, <1>10, BusySlot, AttemptsType DEF Retry, Msg
  <2>2. PICK p \in Publication :
          /\ retry' = PutIf(Reaches(p) /\ ~SentToDead(m), retry, next)
          /\ dead' = PutIf(Reaches(p) /\ SentToDead(m), dead, m.n)
          /\ IF p = "confirmed"
             THEN /\ Goto(w, IF SentToDead(m) THEN "exhausted" ELSE "retried")
                  /\ UNCHANGED work
             ELSE /\ Release(w)
                  /\ work' = Requeue(w, work)
    BY <1>10 DEF Retry
  <2>3. ~Holds(retry', n)
    <3>1. ~Holds(retry, n) /\ retry \in [Msg -> Nat]
      BY DEF Unknown, TypeOK
    <3>. HIDE DEF next
    <3>2. ~Holds(Put(retry, next), n)
      BY <2>1, <3>1, QueueElsewhere
    <3>3. retry' = retry \/ retry' = Put(retry, next)
      BY <2>2 DEF PutIf
    <3>4. QED
      BY <3>1, <3>2, <3>3
  <2>4. dead'[n] = 0
    BY <2>1, <2>2 DEF PutIf, Put, Unknown, TypeOK
  <2>5. ~Holds(work', n)
    BY <1>4, <1>10, <2>2 DEF Retry, Unknown
  <2>6. Elsewhere
    BY <1>2, <1>3, <1>10, <2>2 DEF Retry, PC
  <2>7. QED
    BY <1>5, <1>10, <2>3, <2>4, <2>5, <2>6 DEF Retry, dbVars
<1>11. CASE Park(w)
  <2>1. Elsewhere
    BY <1>2, <1>11 DEF Park, PC
  <2>2. dead'[n] = 0
    BY <1>1, <1>11 DEF Park, PutIf, Put, Unknown, TypeOK
  <2>3. QED
    BY <1>5, <1>11, <2>1, <2>2 DEF Park, Unknown, Holds, dbVars
<1>12. CASE WorkerCrash(w)
  BY <1>3, <1>4, <1>5, <1>12 DEF WorkerCrash, Unknown, Holds, dbVars
<1>13. CASE ConnectionLost(w)
  <2>1. ~Holds(work', n)
    BY <1>1, <1>13, QueueElsewhere DEF ConnectionLost, Unknown, TypeOK
  <2>2. QED
    BY <1>5, <1>13, <2>1 DEF ConnectionLost, Unknown, Holds, dbVars
<1>14. QED
  BY <1>7, <1>8, <1>9, <1>10, <1>11, <1>12, <1>13 DEF WorkerStep

\* Nor does a janitor, which only rescues rows that exist.
LEMMA UnknownToJanitors ==
    ASSUME TypeOK, NEW n \in Notifications, Unknown(n), row[n].status = "absent",
           NEW j \in Janitors,
           JanitorList(j) \/ JanitorPublish(j) \/ JanitorUpdate(j) \/ JanitorCrash(j)
    PROVE  Unknown(n)'
<1> DEFINE Elsewhere == \A i \in Janitors : /\ \A m \in stuck'[i] : m.n # n
                                            /\ rescued'[i] # NoMsg => rescued'[i].n # n
<1>1. ASSUME Elsewhere, ~Holds(work', n),
             UNCHANGED <<outbox, retry, dead, provider, relay, workerVars>>
      PROVE  Unknown(n)'
  BY <1>1 DEF Unknown, FinallyAnswered, Holds, workerVars
<1>2. CASE JanitorList(j)
  <2>1. \A m \in StuckRows : m.n # n
    BY DEF StuckRows
  <2>2. Elsewhere
    BY <1>2, <2>1 DEF JanitorList, Unknown, TypeOK
  <2>3. QED
    BY <1>1, <1>2, <2>2 DEF JanitorList, Unknown, Holds, dbVars, queueVars
<1>3. CASE JanitorPublish(j)
  <2>1. PICK m \in stuck[j], p \in Publication :
          /\ Suffer(FaultOf(p))
          /\ work' = PutIf(Reaches(p), work, m)
          /\ stuck' = [stuck EXCEPT ![j] = @ \ {m}]
          /\ rescued' = [rescued EXCEPT ![j] = IF p = "confirmed" THEN m ELSE NoMsg]
    BY <1>3 DEF JanitorPublish
  <2>2. m \in Msg /\ m.n # n
    BY DEF Unknown, TypeOK
  <2>3. ~Holds(work', n)
    BY <2>1, <2>2, QueueElsewhere, PublicationType DEF Unknown, TypeOK
  <2>4. Elsewhere
    BY <2>1, <2>2 DEF Unknown, TypeOK
  <2>5. QED
    BY <1>1, <1>3, <2>3, <2>4 DEF JanitorPublish, dbVars
<1>4. CASE JanitorUpdate(j) \/ JanitorCrash(j)
  <2>1. Elsewhere
    BY <1>4 DEF JanitorUpdate, JanitorCrash, Unknown, TypeOK
  <2>2. QED
    BY <1>1, <1>4, <2>1 DEF JanitorUpdate, JanitorCrash, Unknown, Holds, dbVars, queueVars
<1>5. QED
  BY <1>2, <1>3, <1>4

\* A notification without a row stays unknown.
LEMMA OnlyAcceptedStays ==
    ASSUME TypeOK, OnlyAccepted, Next
    PROVE  OnlyAccepted'
<1> SUFFICES ASSUME NEW n \in Notifications, row'[n].status = "absent"
             PROVE  Unknown(n)'
  BY DEF OnlyAccepted
<1>1. row[n].status = "absent"
  BY RowChanges DEF Status
<1>2. Unknown(n)
  BY <1>1 DEF OnlyAccepted
<1>3. ASSUME NEW x \in Notifications, Submit(x)
      PROVE  Unknown(n)'
  <2>1. x # n
    BY <1>3, EntityStatuses DEF Submit, TypeOK, Absent
  <2>2. outbox'[n] = outbox[n]
    BY <1>3, <2>1 DEF Submit, TypeOK
  <2>3. QED
    BY <1>2, <1>3, <2>2
       DEF Submit, Unknown, FinallyAnswered, Holds, queueVars, workerVars, janitorVars
<1>4. ASSUME NEW x \in Notifications, Age(x)
      PROVE  Unknown(n)'
  BY <1>2, <1>4
     DEF Age, Unknown, FinallyAnswered, Holds, queueVars, workerVars, janitorVars
<1>5. CASE Expire
  <2>1. PICK m \in Msg : retry[m] > 0 /\ retry' = Take(retry, m) /\ work' = Put(work, m)
    BY <1>5 DEF Expire
  <2>2. m.n # n
    BY <1>2, <2>1, HeldMessage DEF Unknown, TypeOK
  <2>3. ~Holds(work', n) /\ ~Holds(retry', n)
    BY <1>2, <2>1, <2>2, QueueElsewhere DEF Unknown, TypeOK
  <2>4. QED
    BY <1>2, <1>5, <2>3
       DEF Expire, Unknown, FinallyAnswered, Holds, dbVars, workerVars, janitorVars
<1>6. CASE EmptyPass
  BY <1>2, <1>6 DEF EmptyPass, Unknown, FinallyAnswered, Holds, vars, dbVars, queueVars,
                    workerVars, janitorVars
<1>7. QED
  BY <1>1, <1>2, <1>3, <1>4, <1>5, <1>6, UnknownToRelays, UnknownToWorkers,
     UnknownToJanitors DEF Next

-----------------------------------------------------------------------------
\* The delivery invariant.

\* Every step of the system keeps a notification safe.
LEMMA SafeStays ==
    ASSUME TypeOK, NEW n \in Notifications, Safe(n), Next
    PROVE  Safe(n)'
BY SafeOutsideWorkers, SafeInWorker DEF Next

\* What a relay has marked as published in its transaction is safe.
PublishedIsSafe == \A r \in Relays : \A n \in relay[r].published : Safe(n)

\* A relay marks a row published only after a confirmed publish put its
\* message into the work queue.
LEMMA PublishedStaysSafe ==
    ASSUME TypeOK, PublishedIsSafe, Next
    PROVE  PublishedIsSafe'
<1> SUFFICES ASSUME NEW r \in Relays, NEW n \in relay'[r].published
             PROVE  Safe(n)'
  BY DEF PublishedIsSafe
<1>1. CASE n \in relay[r].published
  <2>1. n \in Notifications
    BY <1>1 DEF TypeOK, Tx
  <2>2. QED
    BY <1>1, <2>1, SafeStays DEF PublishedIsSafe
<1>2. CASE n \notin relay[r].published
  <2>1. relay' # relay
    BY <1>2
  <2>2. PICK s \in Relays :
          RelayClaim(s) \/ RelayItem(s) \/ RelayCommit(s) \/ RelayAbort(s) \/ RelayCrash(s)
    BY <2>1 DEF Next, WorkerStep, Submit, Age, Receive, Begin, Send, RecordSent, Retry,
                RecordRetry, RecordRejected, Park, Ack, WorkerCrash, ConnectionLost,
                JanitorList, JanitorPublish, JanitorUpdate, JanitorCrash, Expire,
                EmptyPass, vars
  <2>3. ~RelayClaim(s) /\ ~RelayCommit(s) /\ ~RelayAbort(s) /\ ~RelayCrash(s)
    <3>1. ASSUME NEW tx, relay' = [relay EXCEPT ![s] = tx]
          PROVE  n \in tx.published
      BY <1>2, <3>1 DEF TypeOK
    <3>2. n \notin NoTx.published
      BY DEF NoTx
    <3>3. \A batch : n \notin Opened(batch).published
      BY DEF Opened, NoTx
    <3>4. \A tx : n \notin Aborted(tx).published
      BY DEF Aborted, NoTx
    <3>5. QED
      BY <3>1, <3>2, <3>3, <3>4 DEF RelayClaim, RelayCommit, RelayAbort, RelayCrash
  <2>4. PICK x \in relay[s].todo, p \in Publication :
          /\ Suffer(FaultOf(p))
          /\ work' = PutIf(Reaches(p), work, [n |-> x, attempt |-> relay[s].attempts[x]])
          /\ relay' = [relay EXCEPT ![s] = AfterItem(relay[s], x, p = "confirmed")]
          /\ UNCHANGED <<dbVars, retry, dead, provider, workerVars, janitorVars>>
    BY <2>2, <2>3 DEF RelayItem
  <2>5. [n |-> x, attempt |-> relay[s].attempts[x]] \in Msg
    BY DEF TypeOK, Tx, Msg
  <2>6. n = x /\ p = "confirmed"
    BY <1>2, <2>4 DEF AfterItem, TypeOK
  <2>7. Holds(work', n)
    BY <2>4, <2>5, <2>6, PutIfMessage DEF Reaches, TypeOK
  <2>8. QED
    BY <2>7 DEF Safe, Live, Holds
<1>3. QED
  BY <1>1, <1>2

\* A pending outbox row is marked published only by the commit of a relay that
\* published it.
LEMMA PendingStays ==
    ASSUME TypeOK, PublishedIsSafe, NEW n \in Notifications,
           outbox[n].status = "pending", Next
    PROVE  outbox'[n].status = "pending" \/ Safe(n)'
<1>1. CASE outbox'[n].status = outbox[n].status
  BY <1>1
<1>2. ASSUME NEW r \in Relays, RelayCommit(r)
      PROVE  outbox'[n].status = "pending" \/ Safe(n)'
  <2>1. n \in relay[r].published \/ Marked(relay[r])[n].status = "pending"
    BY DEF Marked, TypeOK, OutboxRow
  <2>2. n \in relay[r].published => Safe(n)'
    BY SafeStays DEF PublishedIsSafe
  <2>3. QED
    BY <1>2, <2>1, <2>2 DEF RelayCommit
<1>3. ASSUME NEW x \in Notifications, Submit(x)
      PROVE  outbox'[n].status = "pending"
  BY <1>3 DEF Submit, TypeOK, OutboxRow
<1>4. CASE outbox' = outbox
  BY <1>4
<1>5. QED
  BY <1>2, <1>3, <1>4
     DEF Next, WorkerStep, Age, RelayClaim, RelayItem, RelayAbort, RelayCrash, Receive, Begin, Send,
         RecordSent, Retry, RecordRetry, RecordRejected, Park, Ack, WorkerCrash,
         ConnectionLost, JanitorList, JanitorPublish, JanitorUpdate, JanitorCrash,
         Expire, EmptyPass, dbVars, vars

\* The delivery invariant is inductive.
LEMMA DeliveryInvStays ==
    ASSUME DeliveryInv, [Next]_vars
    PROVE  DeliveryInv'
<1>1. CASE Next
  <2>1. TypeOK /\ OnlyAccepted /\ PublishedIsSafe /\ NoLoss
    BY DEF DeliveryInv, PublishedIsSafe
  <2>2. TypeOK'
    BY <1>1, <2>1, NextTypes
  <2>3. OnlyAccepted'
    BY <1>1, <2>1, OnlyAcceptedStays
  <2>4. PublishedIsSafe'
    BY <1>1, <2>1, PublishedStaysSafe
  <2>5. ASSUME NEW n \in Notifications, row'[n].status # "absent"
        PROVE  outbox'[n].status = "pending" \/ Safe(n)'
    <3>1. CASE row[n].status = "absent"
      <4>1. Unknown(n)
        BY <2>1, <3>1 DEF OnlyAccepted
      <4>2. ~Writer(n)
        BY <4>1 DEF Writer, Unknown
      <4>3. QED
        BY <1>1, <2>1, <2>5, <3>1, <4>2, RowChanges
    <3>2. CASE row[n].status # "absent"
      BY <1>1, <2>1, <3>2, PendingStays, SafeStays DEF NoLoss
    <3>3. QED
      BY <3>1, <3>2
  <2>6. NoLoss'
    BY <2>5 DEF NoLoss
  <2>7. QED
    BY <2>2, <2>3, <2>4, <2>6 DEF DeliveryInv, PublishedIsSafe
<1>2. CASE UNCHANGED vars
  BY <1>2 DEF DeliveryInv, TypeOK, OnlyAccepted, Unknown, NoLoss, Safe, Live, Handling,
              FinallyAnswered, Holds, vars, dbVars, queueVars, workerVars, janitorVars
<1>3. QED
  BY <1>1, <1>2

\* The delivery invariant holds of every behaviour.
THEOREM DeliveryInvariant == Spec => []DeliveryInv
<1>1. Init => DeliveryInv
  <2> SUFFICES ASSUME Init
               PROVE  DeliveryInv
    OBVIOUS
  <2>1. TypeOK
    BY TypesAtInit
  <2>2. \A n \in Notifications : row[n].status = "absent" /\ Unknown(n)
    BY DEF Init, Absent, Unknown, FinallyAnswered, Holds, Msg, NoTx
  <2>3. \A r \in Relays : relay[r].published = {}
    BY DEF Init, NoTx
  <2>4. QED
    BY <2>1, <2>2, <2>3 DEF DeliveryInv, OnlyAccepted, NoLoss
<1>2. DeliveryInv /\ [Next]_vars => DeliveryInv'
  BY DeliveryInvStays
<1>3. QED
  BY <1>1, <1>2, PTL DEF Spec

\* An accepted notification is never lost: its outbox row is pending, a queue
\* or a handler carries it, or the provider has answered it for good.
THEOREM NothingIsLost == Spec => []NoLoss
<1>1. DeliveryInv => NoLoss
  BY DEF DeliveryInv
<1>2. QED
  BY <1>1, DeliveryInvariant, PTL

\* Nothing is published, handled or answered that no client submitted.
THEOREM NothingIsInvented == Spec => []OnlyAccepted
<1>1. DeliveryInv => OnlyAccepted
  BY DEF DeliveryInv
<1>2. QED
  BY <1>1, DeliveryInvariant, PTL

-----------------------------------------------------------------------------
\* The promise to the client, without its liveness.

\* No notification is in the phase "lost", so three phases are left.
LEMMA PhaseIs ==
    ASSUME DeliveryInv, NEW n \in Notifications
    PROVE  Phase(n) = IF row[n].status = "absent" THEN "none"
                      ELSE IF FinallyAnswered(n) \/ dead[n] > 0 THEN "settled"
                      ELSE "owed"
BY DEF DeliveryInv, NoLoss, Safe, Phase

\* Only Submit makes a row appear, and no step makes one disappear.
LEMMA RowsAppear ==
    ASSUME DeliveryInv, Next, NEW n \in Notifications, ~Submit(n)
    PROVE  row'[n].status = "absent" <=> row[n].status = "absent"
<1>1. Writer(n) => row[n].status # "absent"
  BY DEF DeliveryInv, OnlyAccepted, Unknown, Writer
<1>2. "absent" \notin Status
  BY DEF Status
<1>3. QED
  BY <1>1, <1>2, RowChanges DEF DeliveryInv

\* What a slot handles was accepted.
LEMMA HandledIsAccepted ==
    ASSUME DeliveryInv, NEW w \in Workers, pc[w] # "idle"
    PROVE  job[w].n \in Notifications /\ row[job[w].n].status # "absent"
BY BusySlot DEF DeliveryInv, OnlyAccepted, Unknown

\* A step that changes neither answers nor parked copies of n, and does not
\* accept it, leaves its phase alone.
LEMMA PhaseStays ==
    ASSUME DeliveryInv, DeliveryInv', Next, NEW n \in Notifications, ~Submit(n),
           provider'[n] = provider[n], dead'[n] = dead[n]
    PROVE  Phase(n)' = Phase(n)
<1>1. FinallyAnswered(n)' = FinallyAnswered(n)
  BY DEF FinallyAnswered
<1>2. Phase(n)' = IF row'[n].status = "absent" THEN "none"
                  ELSE IF FinallyAnswered(n)' \/ dead'[n] > 0 THEN "settled"
                  ELSE "owed"
  BY DEF DeliveryInv, NoLoss, Safe, Phase
<1>3. QED
  BY <1>1, <1>2, PhaseIs, RowsAppear

\* Every step of the pipeline is a step of the promise or leaves it alone.
LEMMA PromiseStep ==
    ASSUME DeliveryInv, DeliveryInv', Next
    PROVE  [Promise!Next]_Promise!vars
<1> DEFINE phase == [n \in Notifications |-> Phase(n)]
           deliveries == [n \in Notifications |-> provider[n].ok + provider[n].rejected]
<1>1. ASSUME NEW n \in Notifications, Submit(n)
      PROVE  Promise!Accept(n)
  <2>1. row[n].status = "absent" /\ row'[n].status # "absent"
    BY <1>1, EntityStatuses DEF Submit, Absent, DeliveryInv, TypeOK
  <2>2. Unknown(n)
    BY <2>1 DEF DeliveryInv, OnlyAccepted
  <2>3. Phase(n) = "none"
    BY <2>1 DEF Phase
  <2>4. ~FinallyAnswered(n)' /\ ~(dead'[n] > 0)
    BY <1>1, <2>2 DEF Submit, Unknown, FinallyAnswered, queueVars, DeliveryInv, TypeOK
  <2>5. Phase(n)' = "owed"
    BY <2>1, <2>4 DEF DeliveryInv, NoLoss, Safe, Phase
  <2>6. ASSUME NEW x \in Notifications, x # n
        PROVE  Phase(x)' = Phase(x)
    <3>1. CASE Submit(x)
      BY <1>1, <2>6, <3>1 DEF Submit, DeliveryInv, TypeOK, Absent, TransitionTo,
                              CanTransitionTo, ValidTransitions
    <3>2. CASE ~Submit(x)
      BY <1>1, <3>2, PhaseStays DEF Submit, queueVars
    <3>3. QED
      BY <3>1, <3>2
  <2>7. deliveries' = deliveries
    BY <1>1 DEF Submit
  <2>8. QED
    BY <2>3, <2>5, <2>6, <2>7 DEF Promise!Accept
<1>2. ASSUME \A n \in Notifications : ~Submit(n)
      PROVE  [Promise!Next]_Promise!vars
  <2>1. ASSUME NEW n \in Notifications, row[n].status # "absent",
               provider' \in {Answered(n, 1, 0, 0), Answered(n, 0, 0, 1),
                              Answered(n, 1, 1, 0)},
               UNCHANGED dead
        PROVE  Promise!Deliver(n)
    <3>1. provider \in [Notifications -> Ledger]
      BY DEF DeliveryInv, TypeOK
    <3>2. /\ provider'[n].ok + provider'[n].rejected
               = provider[n].ok + provider[n].rejected + 1
          /\ provider'[n].ok > 0 \/ provider'[n].rejected > 0
          /\ \A x \in Notifications : x # n => provider'[x] = provider[x]
      <4>1. provider[n] \in Ledger
        BY <3>1
      <4>2. CASE provider' = Answered(n, 1, 0, 0)
        BY <3>1, <4>1, <4>2 DEF Answered, Ledger
      <4>3. CASE provider' = Answered(n, 0, 0, 1)
        BY <3>1, <4>1, <4>3 DEF Answered, Ledger
      <4>4. CASE provider' = Answered(n, 1, 1, 0)
        BY <3>1, <4>1, <4>4 DEF Answered, Ledger
      <4>5. QED
        BY <2>1, <4>2, <4>3, <4>4
    <3>3. Phase(n) # "none"
      BY <2>1 DEF Phase
    <3>4. row'[n].status # "absent"
      BY <1>2, <2>1, RowsAppear
    <3>5. Phase(n)' = "settled"
      BY <3>2, <3>4 DEF Phase, FinallyAnswered
    <3>6. \A x \in Notifications : x # n => Phase(x)' = Phase(x)
      BY <1>2, <2>1, <3>2, PhaseStays
    <3>7. QED
      BY <3>2, <3>3, <3>5, <3>6 DEF Promise!Deliver
  <2>2. ASSUME UNCHANGED <<dead, deliveries>>,
               \A x \in Notifications : FinallyAnswered(x)' = FinallyAnswered(x)
        PROVE  UNCHANGED Promise!vars
    <3>1. \A x \in Notifications : Phase(x)' = Phase(x)
      BY <1>2, <2>2, RowsAppear DEF DeliveryInv, NoLoss, Safe, Phase
    <3>2. QED
      BY <2>2, <3>1 DEF Promise!vars
  <2>3. ASSUME NEW w \in Workers, Send(w)
        PROVE  [Promise!Next]_Promise!vars
    <3>1. PICK n \in Notifications : n = job[w].n /\ row[n].status # "absent"
      BY <2>3, HandledIsAccepted DEF Send
    <3>2. UNCHANGED dead
      BY <2>3 DEF Send, queueVars
    <3>3. CASE provider' = Answered(n, 0, 1, 0)
      <4>1. \A x \in Notifications : /\ provider'[x].ok = provider[x].ok
                                     /\ provider'[x].rejected = provider[x].rejected
        BY <3>1, <3>3 DEF Answered, DeliveryInv, TypeOK, Ledger
      <4>2. QED
        BY <2>2, <3>2, <4>1 DEF FinallyAnswered
    <3>4. CASE provider' \in {Answered(n, 1, 0, 0), Answered(n, 0, 0, 1),
                              Answered(n, 1, 1, 0)}
      BY <2>1, <3>1, <3>2, <3>4 DEF Promise!Next
    <3>5. QED
      BY <2>3, <3>1, <3>3, <3>4 DEF Send
  <2>4. ASSUME NEW w \in Workers, Retry(w) \/ Park(w)
        PROVE  [Promise!Next]_Promise!vars
    <3>1. PICK n \in Notifications : n = job[w].n /\ row[n].status # "absent"
      BY <2>4, HandledIsAccepted DEF Retry, Park
    <3>2. PICK c \in BOOLEAN : dead' = PutIf(c, dead, n)
      BY <2>4, <3>1 DEF Retry, Park, Reaches
    <3>3. UNCHANGED provider
      BY <2>4 DEF Retry, Park
    <3>4. /\ \A x \in Notifications : x # n => dead'[x] = dead[x]
          /\ dead'[n] = dead[n] \/ dead'[n] > 0
      BY <3>1, <3>2 DEF PutIf, Put, DeliveryInv, TypeOK
    <3>5. \A x \in Notifications : x # n => Phase(x)' = Phase(x)
      BY <1>2, <3>3, <3>4, PhaseStays
    <3>6. Phase(n)' = Phase(n) \/ (Phase(n) = "owed" /\ Phase(n)' = "settled")
      <4>1. CASE dead'[n] = dead[n]
        BY <1>2, <3>1, <3>3, <4>1, PhaseStays
      <4>2. CASE dead'[n] > 0
        <5>1. Phase(n)' = "settled"
          BY <1>2, <3>1, <4>2, RowsAppear DEF Phase
        <5>2. QED
          BY <3>1, <5>1, PhaseIs
      <4>3. QED
        BY <3>4, <4>1, <4>2
    <3>7. CASE Phase(n)' = Phase(n)
      BY <3>3, <3>5, <3>7 DEF Promise!vars
    <3>8. CASE Phase(n) = "owed" /\ Phase(n)' = "settled"
      <4>1. Promise!GiveUp(n)
        BY <3>1, <3>3, <3>5, <3>8 DEF Promise!GiveUp
      <4>2. QED
        BY <3>1, <4>1 DEF Promise!Next
    <3>9. QED
      BY <3>6, <3>7, <3>8
  <2>5. CASE UNCHANGED <<dead, provider>>
    BY <2>2, <2>5 DEF FinallyAnswered
  <2>6. QED
    BY <1>2, <2>3, <2>4, <2>5
       DEF Next, WorkerStep, Begin, RecordSent, RecordRetry, RecordRejected, Ack, Receive,
           WorkerCrash, ConnectionLost, Age, RelayClaim, RelayItem, RelayCommit,
           RelayAbort, RelayCrash, JanitorList, JanitorPublish, JanitorUpdate, JanitorCrash, Expire,
           EmptyPass, queueVars, vars
<1>3. QED
  BY <1>1, <1>2 DEF Promise!Next

\* The pipeline implements the safety part of the promise: a debt is taken on
\* once, by Submit; it is settled by a final answer or by parking, never
\* forgotten; nothing that was not accepted is answered.
THEOREM PromiseIsSafe == Spec => Promise!Safety
<1>1. Init => Promise!Init
  <2> SUFFICES ASSUME Init
               PROVE  Promise!Init
    OBVIOUS
  <2>1. \A n \in Notifications : Phase(n) = "none"
    BY DEF Init, Phase, Absent
  <2>2. \A n \in Notifications : provider[n].ok + provider[n].rejected = 0
    BY DEF Init
  <2>3. QED
    BY <2>1, <2>2 DEF Promise!Init
<1>2. DeliveryInv /\ DeliveryInv' /\ [Next]_vars => [Promise!Next]_Promise!vars
  <2>1. DeliveryInv /\ DeliveryInv' /\ Next => [Promise!Next]_Promise!vars
    BY PromiseStep
  <2>2. ASSUME UNCHANGED vars
        PROVE  UNCHANGED Promise!vars
    <3>1. \A n \in Notifications : Phase(n)' = Phase(n)
      BY <2>2 DEF Phase, Live, Handling, FinallyAnswered, Holds, vars, dbVars, queueVars,
                  workerVars
    <3>2. QED
      BY <2>2, <3>1 DEF Promise!vars, vars
  <2>3. QED
    BY <2>1, <2>2
<1>3. QED
  BY <1>1, <1>2, DeliveryInvariant, PTL DEF Spec, Promise!Safety

-----------------------------------------------------------------------------
\* Every answer beyond the first is paid for: the books of a notification
\* balance, process by process.

\* What a condition contributes to a count.
One(P) == IF P THEN 1 ELSE 0

\* The members of Queued, without UNION.
LEMMA QueuedIs ==
    ASSUME NEW q \in [Msg -> Nat], NEW n \in Notifications, NEW x
    PROVE  x \in Queued(q, n)
             <=> \E a \in Attempts, i \in Nat : /\ x = <<a, i>>
                                                /\ 1 <= i
                                                /\ i <= q[[n |-> n, attempt |-> a]]
<1>1. \A a \in Attempts : q[[n |-> n, attempt |-> a]] \in Nat
  BY DEF Msg
<1>2. x \in Queued(q, n)
        <=> \E a \in Attempts : x \in {a} \X (1..q[[n |-> n, attempt |-> a]])
  BY DEF Queued
<1>3. \A a \in Attempts :
        x \in {a} \X (1..q[[n |-> n, attempt |-> a]])
          <=> \E i \in Nat : x = <<a, i>> /\ 1 <= i /\ i <= q[[n |-> n, attempt |-> a]]
  BY <1>1
<1>4. QED
  BY <1>2, <1>3

\* A put adds one copy, of its own notification.
LEMMA CopyPut ==
    ASSUME NEW q \in [Msg -> Nat], NEW m \in Msg, NEW n \in Notifications,
           IsFiniteSet(Queued(q, n))
    PROVE  /\ IsFiniteSet(Queued(Put(q, m), n))
           /\ Cardinality(Queued(Put(q, m), n)) = Cardinality(Queued(q, n)) + One(m.n = n)
<1>1. Put(q, m) \in [Msg -> Nat] /\ Put(q, m)[m] = q[m] + 1
      /\ \A x \in Msg : x # m => Put(q, m)[x] = q[x]
  BY DEF Put
<1>2. \A a \in Attempts : [n |-> n, attempt |-> a] \in Msg
  BY DEF Msg
<1>3. m.attempt \in Attempts /\ m = [n |-> m.n, attempt |-> m.attempt] /\ q[m] \in Nat
  BY DEF Msg
<1>4. CASE m.n = n
  <2> DEFINE new == <<m.attempt, q[m] + 1>>
  <2>1. Queued(Put(q, m), n) = Queued(q, n) \cup {new}
    <3>1. ASSUME NEW x
          PROVE  x \in Queued(Put(q, m), n) <=> x \in Queued(q, n) \/ x = new
      <4>1. ASSUME NEW a \in Attempts, NEW i \in Nat
            PROVE  1 <= i /\ i <= Put(q, m)[[n |-> n, attempt |-> a]]
                     <=> \/ 1 <= i /\ i <= q[[n |-> n, attempt |-> a]]
                         \/ <<a, i>> = new
        <5>1. CASE a = m.attempt
          <6>1. [n |-> n, attempt |-> a] = m
            BY <1>3, <1>4, <5>1
          <6>2. QED
            BY <1>1, <1>3, <5>1, <6>1
        <5>2. CASE a # m.attempt
          BY <1>1, <1>2, <5>2
        <5>3. QED
          BY <5>1, <5>2
      <4>2. new = <<m.attempt, q[m] + 1>> /\ q[m] + 1 \in Nat
        BY <1>3
      <4> HIDE DEF new
      <4>3. x \in Queued(Put(q, m), n)
              <=> \E a \in Attempts, i \in Nat :
                     /\ x = <<a, i>>
                     /\ 1 <= i /\ i <= Put(q, m)[[n |-> n, attempt |-> a]]
        BY <1>1, QueuedIs
      <4>4. x \in Queued(q, n)
              <=> \E a \in Attempts, i \in Nat :
                     /\ x = <<a, i>>
                     /\ 1 <= i /\ i <= q[[n |-> n, attempt |-> a]]
        BY QueuedIs
      <4>5. QED
        BY <1>3, <4>1, <4>2, <4>3, <4>4
    <3>2. QED
      BY <3>1
  <2>2. new \notin Queued(q, n)
    <3>1. SUFFICES ASSUME NEW a \in Attempts, NEW i \in Nat, new = <<a, i>>,
                          i <= q[[n |-> n, attempt |-> a]]
                   PROVE  FALSE
      BY QueuedIs
    <3>2. a = m.attempt /\ i = q[m] + 1
      BY <3>1
    <3>3. [n |-> n, attempt |-> a] = m
      BY <1>3, <1>4, <3>2
    <3>4. QED
      BY <1>3, <3>1, <3>2, <3>3
  <2>3. QED
    BY <1>4, <2>1, <2>2, FS_AddElement DEF One
<1>5. CASE m.n # n
  <2>1. \A a \in Attempts : Put(q, m)[[n |-> n, attempt |-> a]] = q[[n |-> n, attempt |-> a]]
    BY <1>1, <1>2, <1>5
  <2>2. Queued(Put(q, m), n) = Queued(q, n)
    BY <2>1 DEF Queued
  <2>3. QED
    BY <1>5, <2>2, FS_CardinalityType DEF One
<1>6. QED
  BY <1>4, <1>5

\* Taking a message takes one copy, of its own notification.
LEMMA CopyTake ==
    ASSUME NEW q \in [Msg -> Nat], NEW m \in Msg, q[m] > 0, NEW n \in Notifications,
           IsFiniteSet(Queued(q, n))
    PROVE  /\ IsFiniteSet(Queued(Take(q, m), n))
           /\ Cardinality(Queued(Take(q, m), n)) = Cardinality(Queued(q, n)) - One(m.n = n)
<1> DEFINE p == Take(q, m)
<1>0. /\ p \in [Msg -> Nat]
      /\ p[m] = q[m] - 1
      /\ \A x \in Msg : x # m => p[x] = q[x]
  BY DEF Take
<1>1. p \in [Msg -> Nat] /\ Put(p, m) = q
  <2> HIDE DEF p
  <2>1. Put(p, m) \in [Msg -> Nat]
    BY <1>0 DEF Put
  <2>2. \A x \in Msg : Put(p, m)[x] = q[x]
    BY <1>0 DEF Put
  <2>3. QED
    BY <1>0, <2>1, <2>2
<1>2. Queued(p, n) \subseteq Queued(q, n)
  <2>1. \A a \in Attempts : /\ [n |-> n, attempt |-> a] \in Msg
                            /\ p[[n |-> n, attempt |-> a]] <= q[[n |-> n, attempt |-> a]]
    <3>1. \A x \in Msg : q[x] \in Nat /\ p[x] <= q[x]
      BY <1>0
    <3>2. QED
      BY <3>1 DEF Msg
  <2>2. \A a \in Attempts : /\ p[[n |-> n, attempt |-> a]] \in Nat
                            /\ q[[n |-> n, attempt |-> a]] \in Nat
    BY <1>1, <2>1
  <2> HIDE DEF p
  <2>3. ASSUME NEW x \in Queued(p, n)
        PROVE  x \in Queued(q, n)
    <3>1. PICK a \in Attempts, i \in Nat : /\ x = <<a, i>>
                                           /\ 1 <= i
                                           /\ i <= p[[n |-> n, attempt |-> a]]
      BY <1>1, <2>3, QueuedIs
    <3>2. i <= q[[n |-> n, attempt |-> a]]
      BY <2>1, <2>2, <3>1
    <3>3. QED
      BY <3>1, <3>2, QueuedIs
  <2>4. QED
    BY <2>3
<1>3. IsFiniteSet(Queued(p, n))
  BY <1>2, FS_Subset
<1> HIDE DEF p
<1>4. Cardinality(Queued(q, n)) = Cardinality(Queued(p, n)) + One(m.n = n)
  BY <1>1, <1>3, CopyPut
<1>5. Cardinality(Queued(p, n)) \in Nat /\ One(m.n = n) \in Nat
  BY <1>3, FS_CardinalityType DEF One
<1>6. QED
  BY <1>3, <1>4, <1>5 DEF p

\* A conditional put adds one copy when its condition holds.
LEMMA CopyPutIf ==
    ASSUME NEW q \in [Msg -> Nat], NEW m \in Msg, NEW n \in Notifications,
           NEW c \in BOOLEAN, IsFiniteSet(Queued(q, n))
    PROVE  /\ IsFiniteSet(Queued(PutIf(c, q, m), n))
           /\ Cardinality(Queued(PutIf(c, q, m), n))
                = Cardinality(Queued(q, n)) + One(c /\ m.n = n)
<1>1. Cardinality(Queued(q, n)) \in Nat
  BY FS_CardinalityType
<1>2. CASE c
  BY <1>2, CopyPut DEF PutIf, One
<1>3. CASE ~c
  BY <1>1, <1>3 DEF PutIf, One
<1>4. QED
  BY <1>2, <1>3

\* A step spends what its faults cost.
LEMMA SufferSpends ==
    ASSUME TypeOK
    PROVE  /\ Spent \in Int
           /\ Suffer({}) => Spent' = Spent
           /\ \A k \in FaultKinds : Suffer({k}) => Spent' = Spent + 1
<1>1. budget \in [FaultKinds -> Nat] /\ FaultBudget \in [FaultKinds -> Nat]
  BY PipelineAssumption DEF TypeOK
<1>2. \A k \in FaultKinds : budget[k] \in Nat /\ FaultBudget[k] \in Nat
  BY <1>1
<1>3. Spent \in Int
  BY <1>2 DEF Spent, FaultKinds
<1>4. ASSUME NEW S \in SUBSET FaultKinds, Suffer(S)
      PROVE  \A k \in FaultKinds : budget'[k] = budget[k] - One(k \in S)
  BY <1>2, <1>4 DEF Suffer, One
<1>5. ASSUME Suffer({})
      PROVE  Spent' = Spent
  <2>1. \A k \in FaultKinds : budget'[k] = budget[k]
    BY <1>2, <1>4, <1>5 DEF One
  <2>2. QED
    BY <2>1 DEF Spent, FaultKinds
<1>6. ASSUME NEW k \in FaultKinds, Suffer({k})
      PROVE  Spent' = Spent + 1
  <2>1. \A x \in FaultKinds : budget'[x] = budget[x] - One(x = k)
    BY <1>4, <1>6
  <2>2. QED
    BY <1>2, <2>1 DEF Spent, FaultKinds, One
<1>7. QED
  BY <1>3, <1>5, <1>6

\* Where a slot may still get an answer, or hand its message on.
AsksIn == {"received", "sending", "transient"}

\* The slots that ask for n, when one slot moves.
LEMMA SlotMovesOn ==
    ASSUME NEW n \in Notifications, NEW w \in Workers, IsFiniteSet(Asking(n)),
           \A v \in Workers : v # w => pc'[v] = pc[v] /\ job'[v] = job[v]
    PROVE  /\ pc'[w] \notin AsksIn
                => /\ IsFiniteSet(Asking(n)')
                   /\ Cardinality(Asking(n)') = Cardinality(Asking(n)) - One(w \in Asking(n))
           /\ pc[w] \in AsksIn /\ pc'[w] \in AsksIn /\ job'[w] = job[w]
                => /\ IsFiniteSet(Asking(n)')
                   /\ Cardinality(Asking(n)') = Cardinality(Asking(n))
           /\ pc[w] \notin AsksIn /\ pc'[w] \in AsksIn
                => /\ IsFiniteSet(Asking(n)')
                   /\ Cardinality(Asking(n)') = Cardinality(Asking(n)) + One(job'[w].n = n)
<1>1. Cardinality(Asking(n)) \in Nat
  BY FS_CardinalityType
<1>2. ASSUME pc'[w] \notin AsksIn
      PROVE  /\ IsFiniteSet(Asking(n)')
             /\ Cardinality(Asking(n)') = Cardinality(Asking(n)) - One(w \in Asking(n))
  <2>1. Asking(n)' = Asking(n) \ {w}
    BY <1>2 DEF Asking, AsksIn
  <2>2. QED
    BY <1>1, <2>1, FS_RemoveElement DEF One
<1>3. ASSUME pc[w] \in AsksIn, pc'[w] \in AsksIn, job'[w] = job[w]
      PROVE  Asking(n)' = Asking(n)
  BY <1>3 DEF Asking, AsksIn
<1>4. ASSUME pc[w] \notin AsksIn, pc'[w] \in AsksIn
      PROVE  /\ IsFiniteSet(Asking(n)')
             /\ Cardinality(Asking(n)') = Cardinality(Asking(n)) + One(job'[w].n = n)
  <2>1. w \notin Asking(n)
    BY <1>4 DEF Asking, AsksIn
  <2>2. CASE job'[w].n = n
    <3>1. Asking(n)' = Asking(n) \cup {w}
      BY <1>4, <2>2 DEF Asking, AsksIn
    <3>2. QED
      BY <1>1, <2>1, <2>2, <3>1, FS_AddElement DEF One
  <2>3. CASE job'[w].n # n
    <3>1. Asking(n)' = Asking(n)
      BY <1>4, <2>3 DEF Asking, AsksIn
    <3>2. QED
      BY <1>1, <2>3, <3>1 DEF One
  <2>4. QED
    BY <2>2, <2>3
<1>5. QED
  BY <1>2, <1>3, <1>4

\* The books of one notification: what was answered and what may still be.
Balanced(n) ==
    /\ IsFiniteSet(Queued(work, n)) /\ IsFiniteSet(Queued(retry, n))
    /\ IsFiniteSet(Asking(n)) /\ IsFiniteSet(Rescuing(n)) /\ IsFiniteSet(Republishing(n))
    /\ provider[n].ok + provider[n].rejected + Outstanding(n) <= 1 + Spent

\* The books are kept in numbers.
LEMMA BooksAreNumbers ==
    ASSUME TypeOK, NEW n \in Notifications, Balanced(n)
    PROVE  /\ provider[n].ok \in Nat /\ provider[n].rejected \in Nat
           /\ ToPublish(n) \in {0, 1} /\ Cardinality(Republishing(n)) \in Nat
           /\ Cardinality(Queued(work, n)) \in Nat /\ Cardinality(Queued(retry, n)) \in Nat
           /\ Cardinality(Asking(n)) \in Nat /\ Cardinality(Rescuing(n)) \in Nat
           /\ Spent \in Int
<1>1. provider[n].ok \in Nat /\ provider[n].rejected \in Nat
  BY DEF TypeOK, Ledger
<1>2. QED
  BY <1>1, FS_CardinalityType, SufferSpends DEF Balanced, ToPublish

\* A worker leaves the outbox, the relays and the janitors alone: its books
\* balance if what it adds to the answers, the queues and the slots is spent.
LEMMA WorkerBalance ==
    ASSUME TypeOK, NEW n \in Notifications, Balanced(n),
           UNCHANGED <<outbox, relay, stuck>>,
           NEW a \in Int, NEW b \in Int, NEW c \in Int, NEW d \in Int, NEW f \in Int,
           provider'[n].ok + provider'[n].rejected
             = provider[n].ok + provider[n].rejected + a,
           IsFiniteSet(Queued(work', n)),
           Cardinality(Queued(work', n)) = Cardinality(Queued(work, n)) + b,
           IsFiniteSet(Queued(retry', n)),
           Cardinality(Queued(retry', n)) = Cardinality(Queued(retry, n)) + c,
           IsFiniteSet(Asking(n)'),
           Cardinality(Asking(n)') = Cardinality(Asking(n)) + d,
           Spent' = Spent + f,
           a + b + c + d <= f
    PROVE  Balanced(n)'
<1>1. ToPublish(n)' = ToPublish(n) /\ Republishing(n)' = Republishing(n)
  BY DEF ToPublish, Republishing
<1>2. Rescuing(n)' = Rescuing(n)
  BY DEF Rescuing
<1>3. Outstanding(n)' = Outstanding(n) + b + c + d
  BY <1>1, <1>2, BooksAreNumbers DEF Outstanding
<1>4. Outstanding(n) \in Nat
  BY BooksAreNumbers DEF Outstanding
<1>5. provider'[n].ok + provider'[n].rejected + Outstanding(n)' <= 1 + Spent'
  BY <1>3, <1>4, BooksAreNumbers DEF Balanced
<1>6. QED
  BY <1>1, <1>2, <1>5 DEF Balanced

\* Slots that are not w keep their place and their message.
LEMMA OthersStay ==
    ASSUME TypeOK, NEW w \in Workers,
           Receive(w) \/ WorkerStep(w) \/ WorkerCrash(w) \/ ConnectionLost(w)
    PROVE  \A v \in Workers : v # w => pc'[v] = pc[v] /\ job'[v] = job[v]
BY DEF Receive, WorkerStep, Begin, Send, RecordSent, Retry, RecordRetry, RecordRejected,
       Park, Ack, WorkerCrash, ConnectionLost, Goto, Release, TypeOK

\* An answer of the provider, in the books of n.
LEMMA AnswerCounts ==
    ASSUME TypeOK, NEW n \in Notifications, NEW x \in Notifications,
           NEW o \in {0, 1}, NEW t \in {0, 1}, NEW r \in {0, 1}
    PROVE  Answered(x, o, t, r)[n].ok + Answered(x, o, t, r)[n].rejected
             = provider[n].ok + provider[n].rejected + (IF x = n THEN o + r ELSE 0)
<1>1. provider[n] \in Ledger /\ provider[x] \in Ledger
  BY DEF TypeOK
<1>2. CASE x = n
  BY <1>1, <1>2 DEF Answered, TypeOK, Ledger
<1>3. CASE x # n
  <2>1. Answered(x, o, t, r)[n] = provider[n]
    BY <1>3 DEF Answered, TypeOK
  <2>2. QED
    BY <1>1, <1>3, <2>1 DEF Ledger
<1>4. QED
  BY <1>2, <1>3

\* Every step of a slot keeps the books.
LEMMA WorkerBalanced ==
    ASSUME TypeOK, NEW n \in Notifications, Balanced(n), NEW w \in Workers,
           Receive(w) \/ WorkerStep(w) \/ WorkerCrash(w) \/ ConnectionLost(w)
    PROVE  Balanced(n)'
<1> DEFINE Given == provider[n].ok + provider[n].rejected
           mine == One(job[w].n = n)
           asks == One(w \in Asking(n))
<1>1. /\ work \in [Msg -> Nat] /\ retry \in [Msg -> Nat]
      /\ IsFiniteSet(Queued(work, n)) /\ IsFiniteSet(Queued(retry, n))
      /\ IsFiniteSet(Asking(n))
  BY DEF TypeOK, Balanced
<1>2. /\ Given \in Nat /\ Spent \in Int
      /\ Cardinality(Queued(work, n)) \in Nat /\ Cardinality(Queued(retry, n)) \in Nat
      /\ Cardinality(Asking(n)) \in Nat
      /\ mine \in {0, 1} /\ asks \in {0, 1}
  BY BooksAreNumbers DEF One
<1>3. \A v \in Workers : v # w => pc'[v] = pc[v] /\ job'[v] = job[v]
  BY OthersStay
<1>4. pc[w] # "idle" => job[w] \in Msg /\ job[w].n \in Notifications
  BY BusySlot
<1>5. /\ pc[w] \in AsksIn => asks = mine
      /\ pc[w] \notin AsksIn => asks = 0
  BY DEF Asking, AsksIn, One
<1>6. UNCHANGED <<outbox, relay, stuck>>
  BY DEF Receive, WorkerStep, Begin, Send, RecordSent, Retry, RecordRetry, RecordRejected,
         Park, Ack, WorkerCrash, ConnectionLost, dbVars, janitorVars
<1>7. ASSUME UNCHANGED <<work, retry, provider>>, Spent' = Spent \/ Spent' = Spent + 1,
             pc'[w] \in AsksIn => pc[w] \in AsksIn /\ job'[w] = job[w]
      PROVE  Balanced(n)'
  <2>1. /\ IsFiniteSet(Asking(n)')
        /\ \/ Cardinality(Asking(n)') = Cardinality(Asking(n)) + 0
           \/ Cardinality(Asking(n)') = Cardinality(Asking(n)) + (-1)
    BY <1>1, <1>2, <1>3, <1>7, SlotMovesOn
  <2>2. /\ provider'[n].ok + provider'[n].rejected = Given + 0
        /\ IsFiniteSet(Queued(work', n)) /\ IsFiniteSet(Queued(retry', n))
        /\ Cardinality(Queued(work', n)) = Cardinality(Queued(work, n)) + 0
        /\ Cardinality(Queued(retry', n)) = Cardinality(Queued(retry, n)) + 0
    BY <1>1, <1>2, <1>7
  <2>3. PICK d \in {0, -1} : Cardinality(Asking(n)') = Cardinality(Asking(n)) + d
    BY <2>1
  <2>4. PICK f \in {0, 1} : Spent' = Spent + f
    BY <1>2, <1>7
  <2>5. d \in Int /\ f \in Int /\ 0 \in Int /\ 0 + 0 + 0 + d <= f
    OBVIOUS
  <2> HIDE DEF Given
  <2>6. QED
    BY <1>6, <2>1, <2>2, <2>3, <2>4, <2>5, WorkerBalance DEF Given
<1>8. ASSUME NEW x \in Notifications, NEW s, NEW a, UpdateStatus(x, s, a)
      PROVE  Spent' = Spent \/ Spent' = Spent + 1
  BY <1>8, SufferSpends DEF UpdateStatus, FaultKinds
<1>9. CASE Begin(w)
  <2>1. UpdateStatus(job[w].n, "in_flight", job[w].attempt) /\ pc[w] = "received"
    BY <1>9, EntityStatuses DEF Begin
  <2>2. Spent' = Spent \/ Spent' = Spent + 1
    BY <1>4, <1>8, <2>1
  <2>3. QED
    BY <1>7, <1>9, <2>2 DEF Begin, Goto, queueVars, TypeOK, AsksIn
<1>10. CASE RecordSent(w) \/ RecordRetry(w) \/ RecordRejected(w)
  <2>1. pc[w] # "idle" /\ \E s \in Status : UpdateStatus(job[w].n, s, job[w].attempt)
    BY <1>10, EntityStatuses DEF RecordSent, RecordRetry, RecordRejected, Status
  <2>2. Spent' = Spent \/ Spent' = Spent + 1
    BY <1>4, <1>8, <2>1
  <2>3. pc'[w] \notin AsksIn /\ UNCHANGED <<work, retry, provider>>
    BY <1>10 DEF RecordSent, RecordRetry, RecordRejected, Goto, queueVars, TypeOK, AsksIn
  <2>4. QED
    BY <1>7, <2>2, <2>3
<1>11. CASE Park(w)
  <2>1. Spent' = Spent \/ Spent' = Spent + 1
    BY <1>11, SufferSpends DEF Park, FaultOf, FaultKinds
  <2>2. QED
    BY <1>7, <1>11, <2>1 DEF Park, Goto, TypeOK, AsksIn
<1>12. CASE Ack(w)
  <2>1. Spent' = Spent
    BY <1>12 DEF Ack, Spent
  <2>2. QED
    BY <1>7, <1>12, <2>1 DEF Ack, Release, queueVars, TypeOK, AsksIn
<1>13. CASE Receive(w)
  <2>1. PICK m \in Msg : work[m] > 0 /\ work' = Take(work, m) /\ job' = [job EXCEPT ![w] = m]
    BY <1>13 DEF Receive
  <2> DEFINE its == One(m.n = n)
  <2>2. its \in {0, 1} /\ m.n \in Notifications
    BY DEF One, Msg
  <2>3. /\ IsFiniteSet(Queued(work', n))
        /\ Cardinality(Queued(work', n)) = Cardinality(Queued(work, n)) + (-its)
    BY <1>1, <1>2, <2>1, <2>2, CopyTake
  <2>4. /\ IsFiniteSet(Asking(n)')
        /\ Cardinality(Asking(n)') = Cardinality(Asking(n)) + its
    <3>1. pc[w] \notin AsksIn /\ pc'[w] \in AsksIn /\ job'[w] = m
      BY <1>13, <2>1 DEF Receive, TypeOK, AsksIn
    <3>2. QED
      BY <1>1, <1>3, <3>1, SlotMovesOn
  <2>5. /\ provider'[n].ok + provider'[n].rejected = Given + 0
        /\ Spent' = Spent + 0
        /\ IsFiniteSet(Queued(retry', n))
        /\ Cardinality(Queued(retry', n)) = Cardinality(Queued(retry, n)) + 0
    BY <1>1, <1>2, <1>13 DEF Receive, Spent
  <2>6. -its \in Int /\ its \in Int /\ 0 \in Int /\ 0 + (-its) + 0 + its <= 0
    BY <2>2
  <2> HIDE DEF Given, its
  <2>7. QED
    BY <1>6, <2>3, <2>4, <2>5, <2>6, WorkerBalance DEF Given
<1>14. CASE Send(w)
  <2>1. /\ pc[w] \in AsksIn /\ job'[w] = job[w] /\ job[w].n \in Notifications
        /\ UNCHANGED <<work, retry>> /\ asks = mine
    BY <1>4, <1>5, <1>14 DEF Send, Goto, queueVars, AsksIn
  <2>2. /\ IsFiniteSet(Queued(work', n)) /\ IsFiniteSet(Queued(retry', n))
        /\ Cardinality(Queued(work', n)) = Cardinality(Queued(work, n)) + 0
        /\ Cardinality(Queued(retry', n)) = Cardinality(Queued(retry, n)) + 0
    BY <1>1, <1>2, <2>1
  <2>3. CASE /\ provider' \in {Answered(job[w].n, 1, 0, 0), Answered(job[w].n, 0, 0, 1)}
             /\ pc'[w] \in {"sent", "rejected"} /\ UNCHANGED budget
    <3>1. provider'[n].ok + provider'[n].rejected = Given + mine
      BY <2>1, <2>3, AnswerCounts DEF One
    <3>2. /\ IsFiniteSet(Asking(n)')
          /\ Cardinality(Asking(n)') = Cardinality(Asking(n)) + (-mine)
      BY <1>1, <1>2, <1>3, <2>1, <2>3, SlotMovesOn DEF AsksIn
    <3>3. Spent' = Spent + 0
      BY <1>2, <2>3 DEF Spent
    <3>4. mine \in Int /\ -mine \in Int /\ 0 \in Int /\ mine + 0 + 0 + (-mine) <= 0
      BY <1>2
    <3> HIDE DEF Given, mine, asks
    <3>5. QED
      BY <1>6, <2>2, <3>1, <3>2, <3>3, <3>4, WorkerBalance DEF Given
  <2>4. CASE pc'[w] = "transient"
    <3>1. /\ IsFiniteSet(Asking(n)')
          /\ Cardinality(Asking(n)') = Cardinality(Asking(n)) + 0
      BY <1>1, <1>2, <1>3, <2>1, <2>4, SlotMovesOn DEF AsksIn
    <3>2. CASE provider' = Answered(job[w].n, 0, 1, 0) /\ UNCHANGED budget
      <4>1. provider'[n].ok + provider'[n].rejected = Given + 0
        BY <2>1, <3>2, AnswerCounts DEF One
      <4>2. Spent' = Spent + 0
        BY <1>2, <3>2 DEF Spent
      <4>3. 0 \in Int /\ 0 + 0 + 0 + 0 <= 0
        OBVIOUS
      <4> HIDE DEF Given
      <4>4. QED
        BY <1>6, <2>2, <3>1, <4>1, <4>2, <4>3, WorkerBalance DEF Given
    <3>3. CASE provider' = Answered(job[w].n, 1, 1, 0) /\ Suffer({"answer"})
      <4>1. provider'[n].ok + provider'[n].rejected = Given + mine
        BY <2>1, <3>3, AnswerCounts DEF One
      <4>2. Spent' = Spent + 1
        BY <3>3, SufferSpends DEF FaultKinds
      <4>3. mine \in Int /\ 0 \in Int /\ 1 \in Int /\ mine + 0 + 0 + 0 <= 1
        BY <1>2
      <4> HIDE DEF Given, mine, asks
      <4>4. QED
        BY <1>6, <2>2, <3>1, <4>1, <4>2, <4>3, WorkerBalance DEF Given
    <3>4. QED
      BY <1>14, <2>4, <3>2, <3>3 DEF Send, Goto, TypeOK
  <2>5. QED
    BY <1>14, <2>3, <2>4 DEF Send, Goto, TypeOK
<1>15. ASSUME pc[w] \in AsksIn, pc'[w] \notin AsksIn
       PROVE  /\ IsFiniteSet(Asking(n)')
              /\ Cardinality(Asking(n)') = Cardinality(Asking(n)) + (-mine)
  BY <1>1, <1>2, <1>3, <1>5, <1>15, SlotMovesOn
<1>16. CASE Retry(w)
  <2> DEFINE m    == job[w]
             next == [m EXCEPT !.attempt = Capped(@ + 1)]
  <2>1. /\ m \in Msg /\ m.n \in Notifications /\ pc[w] \in AsksIn
        /\ next \in Msg /\ next.n = m.n
    <3>1. m \in Msg /\ m.n \in Notifications /\ m.attempt \in Attempts /\ pc[w] \in AsksIn
      BY <1>16, BusySlot DEF Retry, AsksIn
    <3>2. QED
      BY <3>1, AttemptsType DEF Msg
  <2>2. PICK p \in Publication :
          /\ Suffer(FaultOf(p))
          /\ retry' = PutIf(Reaches(p) /\ ~SentToDead(m), retry, next)
          /\ IF p = "confirmed"
             THEN /\ Goto(w, IF SentToDead(m) THEN "exhausted" ELSE "retried")
                  /\ UNCHANGED work
             ELSE /\ Release(w)
                  /\ work' = Requeue(w, work)
    BY <1>16 DEF Retry
  <2>3. /\ IsFiniteSet(Asking(n)')
        /\ Cardinality(Asking(n)') = Cardinality(Asking(n)) + (-mine)
    <3>1. pc'[w] \notin AsksIn
      BY <2>2 DEF Goto, Release, TypeOK, AsksIn
    <3>2. QED
      BY <1>15, <2>1, <3>1
  <2>4. provider'[n].ok + provider'[n].rejected = Given + 0
    BY <1>2, <1>16 DEF Retry
  <2>5. PICK c \in {0, mine} :
          /\ IsFiniteSet(Queued(retry', n))
          /\ Cardinality(Queued(retry', n)) = Cardinality(Queued(retry, n)) + c
    <3>1. (Reaches(p) /\ ~SentToDead(m)) \in BOOLEAN
      BY DEF Reaches
    <3>2. /\ IsFiniteSet(Queued(retry', n))
          /\ Cardinality(Queued(retry', n)) = Cardinality(Queued(retry, n))
                            + One((Reaches(p) /\ ~SentToDead(m)) /\ next.n = n)
      <4>1. \A x \in Msg, g \in BOOLEAN :
              retry' = PutIf(g, retry, x)
                => /\ IsFiniteSet(Queued(retry', n))
                   /\ Cardinality(Queued(retry', n)) = Cardinality(Queued(retry, n))
                                                        + One(g /\ x.n = n)
        BY <1>1, CopyPutIf
      <4> HIDE DEF next
      <4>2. QED
        BY <2>1, <2>2, <3>1, <4>1
    <3>3. One((Reaches(p) /\ ~SentToDead(m)) /\ next.n = n) \in {0, mine}
      BY <2>1 DEF One
    <3>4. QED
      BY <3>2, <3>3
  <2>6. CASE p = "confirmed"
    <3>1. /\ IsFiniteSet(Queued(work', n))
          /\ Cardinality(Queued(work', n)) = Cardinality(Queued(work, n)) + 0
          /\ Spent' = Spent + 0
      BY <1>1, <1>2, <2>2, <2>6, SufferSpends DEF FaultOf
    <3>2. /\ mine \in Int /\ -mine \in Int /\ c \in Int /\ 0 \in Int
          /\ 0 + 0 + c + (-mine) <= 0
      BY <1>2
    <3> HIDE DEF Given, mine, asks
    <3>3. QED
      BY <1>6, <2>3, <2>4, <2>5, <3>1, <3>2, WorkerBalance DEF Given
  <2>7. CASE p # "confirmed"
    <3>1. Spent' = Spent + 1
      BY <2>2, <2>7, SufferSpends DEF FaultOf, FaultKinds
    <3>2. PICK b \in {0, mine} :
            /\ IsFiniteSet(Queued(work', n))
            /\ Cardinality(Queued(work', n)) = Cardinality(Queued(work, n)) + b
      <4>1. owned[w] \in BOOLEAN /\ work' = PutIf(owned[w], work, m)
        BY <2>2, <2>7 DEF Requeue, TypeOK
      <4>2. /\ IsFiniteSet(Queued(work', n))
            /\ Cardinality(Queued(work', n)) = Cardinality(Queued(work, n))
                                                 + One(owned[w] /\ m.n = n)
        BY <1>1, <2>1, <4>1, CopyPutIf
      <4>3. One(owned[w] /\ m.n = n) \in {0, mine}
        BY DEF One
      <4>4. QED
        BY <4>2, <4>3
    <3>3. /\ mine \in Int /\ -mine \in Int /\ b \in Int /\ c \in Int /\ 0 \in Int /\ 1 \in Int
          /\ 0 + b + c + (-mine) <= 1
      BY <1>2
    <3> HIDE DEF Given, mine, asks
    <3>4. QED
      BY <1>6, <2>3, <2>4, <2>5, <3>1, <3>2, <3>3, WorkerBalance DEF Given
  <2>8. QED
    BY <2>6, <2>7
<1>17. CASE WorkerCrash(w) \/ ConnectionLost(w)
  <2>1. /\ Spent' = Spent + 1
        /\ provider'[n].ok + provider'[n].rejected = Given + 0
        /\ IsFiniteSet(Queued(retry', n))
        /\ Cardinality(Queued(retry', n)) = Cardinality(Queued(retry, n)) + 0
    BY <1>1, <1>2, <1>17, SufferSpends DEF WorkerCrash, ConnectionLost, FaultKinds
  <2>2. job[w] \in Msg /\ job[w].n \in Notifications
    BY <1>4, <1>17 DEF WorkerCrash, ConnectionLost
  <2>3. PICK b \in {0, 1} :
          /\ IsFiniteSet(Queued(work', n))
          /\ Cardinality(Queued(work', n)) = Cardinality(Queued(work, n)) + b
    <3>1. PICK g \in BOOLEAN : work' = PutIf(g, work, job[w])
      BY <1>17 DEF WorkerCrash, ConnectionLost, Requeue, PutIf, TypeOK
    <3>2. /\ IsFiniteSet(Queued(work', n))
          /\ Cardinality(Queued(work', n)) = Cardinality(Queued(work, n))
                                               + One(g /\ job[w].n = n)
      BY <1>1, <2>2, <3>1, CopyPutIf
    <3>3. QED
      BY <3>2 DEF One
  <2>4. PICK d \in {0, -1} : /\ IsFiniteSet(Asking(n)')
                             /\ Cardinality(Asking(n)') = Cardinality(Asking(n)) + d
    <3>1. pc'[w] \in AsksIn => pc[w] \in AsksIn /\ job'[w] = job[w]
      BY <1>17 DEF WorkerCrash, ConnectionLost, Release, TypeOK, AsksIn
    <3>2. QED
      BY <1>1, <1>2, <1>3, <3>1, SlotMovesOn
  <2>5. b \in Int /\ d \in Int /\ 0 \in Int /\ 1 \in Int /\ 0 + b + 0 + d <= 1
    OBVIOUS
  <2> HIDE DEF Given
  <2>6. QED
    BY <1>6, <2>1, <2>3, <2>4, <2>5, WorkerBalance DEF Given
<1>18. QED
  BY <1>9, <1>10, <1>11, <1>12, <1>13, <1>14, <1>16, <1>17 DEF WorkerStep

\* The other processes leave the provider and the slots alone: the books balance
\* if what a step adds to what is still to publish, to the queues and to the
\* rescues is spent.
Due(n) == ToPublish(n) + Cardinality(Republishing(n))

LEMMA PublishersBalance ==
    ASSUME TypeOK, NEW n \in Notifications, Balanced(n),
           UNCHANGED <<provider, pc, job>>,
           NEW o \in Int, NEW b \in Int, NEW c \in Int, NEW g \in Int, NEW f \in Int,
           Due(n)' = Due(n) + o, IsFiniteSet(Republishing(n)'),
           IsFiniteSet(Queued(work', n)),
           Cardinality(Queued(work', n)) = Cardinality(Queued(work, n)) + b,
           IsFiniteSet(Queued(retry', n)),
           Cardinality(Queued(retry', n)) = Cardinality(Queued(retry, n)) + c,
           IsFiniteSet(Rescuing(n)'),
           Cardinality(Rescuing(n)') = Cardinality(Rescuing(n)) + g,
           Spent' = Spent + f,
           o + b + c + g <= f
    PROVE  Balanced(n)'
<1>1. Asking(n)' = Asking(n)
  BY DEF Asking
<1>2. ToPublish(n)' \in {0, 1} /\ Cardinality(Republishing(n)') \in Nat
  BY FS_CardinalityType DEF ToPublish
<1>3. Outstanding(n)' = Outstanding(n) + o + b + c + g
  BY <1>1, <1>2, BooksAreNumbers DEF Outstanding, Due
<1>4. Outstanding(n) \in Nat
  BY BooksAreNumbers DEF Outstanding
<1>5. provider'[n].ok + provider'[n].rejected + Outstanding(n)' <= 1 + Spent'
  BY <1>3, <1>4, BooksAreNumbers DEF Balanced
<1>6. QED
  BY <1>1, <1>5 DEF Balanced

\* A row that a live transaction has claimed: what is still to be published of
\* it depends on that transaction alone, before and after a step of its relay.
LEMMA ClaimedRow ==
    ASSUME TypeOK, ClaimsAreLocks, NEW n \in Notifications, NEW r \in Relays,
           n \in relay[r].claimed, \A s \in Relays : s # r => relay'[s] = relay[s]
    PROVE  /\ ToPublish(n) = IF n \in relay[r].published THEN 0 ELSE 1
           /\ ToPublish(n)' = IF \/ outbox'[n].status = "published"
                                 \/ n \in relay'[r].published
                              THEN 0 ELSE 1
           /\ outbox[n].status = "pending"
           /\ ~relay[r].aborted
<1>1. outbox[n].status = "pending" /\ ~relay[r].aborted
  BY DEF ClaimsAreLocks
<1>2. \A s \in Relays : s # r => n \notin relay[s].published
  BY DEF ClaimsAreLocks
<1>3. \A s \in Relays : s # r => n \notin relay'[s].published
  BY <1>2
<1>4. QED
  BY <1>1, <1>2, <1>3 DEF ToPublish

\* A row that the transaction does not lock keeps what is still to be published.
LEMMA UnclaimedRow ==
    ASSUME NEW n \in Notifications, NEW r \in Relays,
           outbox'[n].status = outbox[n].status,
           \A s \in Relays : s # r => relay'[s] = relay[s],
           n \notin relay[r].published, n \notin relay'[r].published
    PROVE  ToPublish(n)' = ToPublish(n)
<1>1. \A s \in Relays : n \in relay'[s].published <=> n \in relay[s].published
  OBVIOUS
<1>2. QED
  BY <1>1 DEF ToPublish

\* The aborted transactions that still publish n, when relay r goes on.
LEMMA RepublishingMoves ==
    ASSUME NEW n \in Notifications, NEW r \in Relays, IsFiniteSet(Republishing(n)),
           \A s \in Relays : s # r => relay'[s] = relay[s]
    PROVE  /\ IsFiniteSet(Republishing(n)')
           /\ Cardinality(Republishing(n)')
                = Cardinality(Republishing(n))
                    - One(n \in relay[r].todo /\ relay[r].aborted)
                    + One(n \in relay'[r].todo /\ relay'[r].aborted)
<1> DEFINE Others == Republishing(n) \ {r}
<1>1. Cardinality(Republishing(n)) \in Nat
  BY FS_CardinalityType
<1>2. r \in Republishing(n) <=> n \in relay[r].todo /\ relay[r].aborted
  BY DEF Republishing
<1>3. /\ IsFiniteSet(Others) /\ Cardinality(Others) \in Nat
      /\ Cardinality(Others)
           = Cardinality(Republishing(n)) - One(n \in relay[r].todo /\ relay[r].aborted)
  BY <1>1, <1>2, FS_RemoveElement, FS_CardinalityType DEF One
<1>4. CASE n \in relay'[r].todo /\ relay'[r].aborted
  <2>1. Republishing(n)' = Others \cup {r} /\ r \notin Others
    BY <1>4 DEF Republishing
  <2> HIDE DEF Others
  <2>2. QED
    BY <1>3, <1>4, <2>1, FS_AddElement DEF One
<1>5. CASE ~(n \in relay'[r].todo /\ relay'[r].aborted)
  <2>1. Republishing(n)' = Others
    BY <1>5 DEF Republishing
  <2> HIDE DEF Others
  <2>2. QED
    BY <1>1, <1>3, <1>5, <2>1 DEF One
<1>6. QED
  BY <1>4, <1>5

\* Every step of a relay keeps the books.
LEMMA RelayBalanced ==
    ASSUME TypeOK, ClaimsAreLocks, NEW n \in Notifications, Balanced(n), NEW r \in Relays,
           RelayClaim(r) \/ RelayItem(r) \/ RelayCommit(r) \/ RelayAbort(r) \/ RelayCrash(r)
    PROVE  Balanced(n)'
<1> DEFINE again  == One(n \in relay[r].todo /\ relay[r].aborted)
           again1 == One(n \in relay'[r].todo /\ relay'[r].aborted)
<1>1. /\ work \in [Msg -> Nat]
      /\ IsFiniteSet(Queued(work, n)) /\ IsFiniteSet(Queued(retry, n))
      /\ IsFiniteSet(Rescuing(n)) /\ IsFiniteSet(Republishing(n))
  BY DEF TypeOK, Balanced
<1>2. /\ Spent \in Int /\ ToPublish(n) \in {0, 1} /\ ToPublish(n)' \in {0, 1}
      /\ Cardinality(Queued(work, n)) \in Nat /\ Cardinality(Queued(retry, n)) \in Nat
      /\ Cardinality(Rescuing(n)) \in Nat /\ Cardinality(Republishing(n)) \in Nat
  BY BooksAreNumbers DEF ToPublish
<1>3. \A s \in Relays : s # r => relay'[s] = relay[s]
  BY OtherTransactions
<1>4. relay[r] \in Tx /\ again \in {0, 1} /\ again1 \in {0, 1}
  BY DEF TypeOK, One
<1>5. UNCHANGED <<provider, pc, job, retry, stuck>>
  BY DEF RelayClaim, RelayItem, RelayCommit, RelayAbort, RelayCrash, queueVars, workerVars,
         janitorVars
<1>6. /\ IsFiniteSet(Republishing(n)')
      /\ Cardinality(Republishing(n)') = Cardinality(Republishing(n)) - again + again1
  BY <1>1, <1>3, RepublishingMoves
<1>7. ASSUME NEW b \in Int, NEW f \in Int,
             IsFiniteSet(Queued(work', n)),
             Cardinality(Queued(work', n)) = Cardinality(Queued(work, n)) + b,
             Spent' = Spent + f,
             ToPublish(n)' - ToPublish(n) + again1 - again + b <= f
      PROVE  Balanced(n)'
  <2>1. /\ IsFiniteSet(Queued(retry', n)) /\ IsFiniteSet(Rescuing(n)')
        /\ Cardinality(Queued(retry', n)) = Cardinality(Queued(retry, n)) + 0
        /\ Cardinality(Rescuing(n)') = Cardinality(Rescuing(n)) + 0
    BY <1>1, <1>2, <1>5 DEF Rescuing
  <2> DEFINE o == ToPublish(n)' - ToPublish(n) + again1 - again
  <2>2. o \in Int /\ Due(n)' = Due(n) + o
    <3> HIDE DEF again, again1
    <3>1. QED
      BY <1>2, <1>4, <1>6 DEF Due
  <2>3. 0 \in Int /\ o + b + 0 + 0 <= f
    BY <1>7, <2>2
  <2> HIDE DEF o
  <2>4. QED
    BY <1>5, <1>6, <1>7, <2>1, <2>2, <2>3, PublishersBalance
<1>8. ASSUME UNCHANGED work, NEW f \in Int, Spent' = Spent + f,
             ToPublish(n)' - ToPublish(n) + again1 - again <= f
      PROVE  Balanced(n)'
  <2>1. /\ 0 \in Int
        /\ IsFiniteSet(Queued(work', n))
        /\ Cardinality(Queued(work', n)) = Cardinality(Queued(work, n)) + 0
    BY <1>1, <1>2, <1>8
  <2>2. ToPublish(n)' - ToPublish(n) + again1 - again + 0 <= f
    <3> HIDE DEF again, again1
    <3>1. QED
      BY <1>2, <1>4, <1>8
  <2> HIDE DEF again, again1
  <2>3. QED
    BY <1>7, <1>8, <2>1, <2>2
<1>9. CASE RelayClaim(r)
  <2>1. PICK batch : /\ relay[r] = NoTx
                     /\ relay'[r] = Opened(batch)
                     /\ UNCHANGED <<outbox, work, budget>>
    BY <1>9 DEF RelayClaim, TypeOK, dbVars, queueVars
  <2>2. /\ relay[r].published = {} /\ relay'[r].published = {}
        /\ ~relay[r].aborted /\ ~relay'[r].aborted
    BY <2>1 DEF NoTx, Opened
  <2>3. ToPublish(n)' = ToPublish(n)
    BY <1>3, <2>1, <2>2, UnclaimedRow
  <2>4. 0 \in Int /\ Spent' = Spent + 0 /\ again = 0 /\ again1 = 0
    BY <1>2, <2>1, <2>2 DEF Spent, One
  <2> HIDE DEF again, again1
  <2>5. QED
    BY <1>2, <1>8, <2>1, <2>3, <2>4
<1>10. CASE RelayCommit(r)
  <2>1. UNCHANGED work /\ relay'[r] = NoTx /\ relay[r].todo = {}
    BY <1>10 DEF RelayCommit, TypeOK, queueVars
  <2>2. PICK f \in {0, 1} : /\ Spent' = Spent + f
                            /\ f = 0 => \/ relay[r].aborted /\ UNCHANGED outbox
                                        \/ ~relay[r].aborted /\ outbox' = Marked(relay[r])
                            /\ f = 1 => UNCHANGED outbox
    BY <1>2, <1>10, SufferSpends DEF RelayCommit, FaultKinds
  <2>3. ToPublish(n)' <= ToPublish(n) + f
    <3>1. CASE n \in relay[r].claimed
      <4>1. /\ ToPublish(n) = IF n \in relay[r].published THEN 0 ELSE 1
            /\ ToPublish(n)' = IF outbox'[n].status = "published" THEN 0 ELSE 1
            /\ outbox[n].status = "pending" /\ ~relay[r].aborted
        BY <1>3, <2>1, <3>1, ClaimedRow DEF NoTx
      <4>2. n \in relay[r].published => Marked(relay[r])[n].status = "published"
        <5> DEFINE marked == [outbox[n] EXCEPT !.status = "published"]
        <5>1. n \in relay[r].published => Marked(relay[r])[n] = marked
          BY DEF Marked, ClaimsAreLocks
        <5>2. marked.status = "published"
          BY DEF TypeOK, OutboxRow
        <5> HIDE DEF marked
        <5>3. QED
          BY <5>1, <5>2
      <4>3. QED
        BY <2>2, <4>1, <4>2
    <3>2. CASE n \notin relay[r].claimed
      <4>1. n \notin relay[r].published /\ n \notin relay[r].failed
        BY <3>2 DEF ClaimsAreLocks
      <4>2. outbox'[n].status = outbox[n].status
        BY <2>2, <4>1 DEF Marked
      <4>3. QED
        BY <1>2, <1>3, <2>1, <2>2, <4>1, <4>2, UnclaimedRow DEF NoTx
    <3>3. QED
      BY <3>1, <3>2
  <2>4. f \in Int /\ again = 0 /\ again1 = 0
    BY <2>1 DEF One, NoTx
  <2> HIDE DEF again, again1
  <2>5. ToPublish(n)' - ToPublish(n) + again1 - again <= f
    BY <1>2, <2>3, <2>4
  <2>6. QED
    BY <1>8, <2>1, <2>2, <2>4, <2>5
<1>11. CASE RelayAbort(r) \/ RelayCrash(r)
  <2>1. /\ UNCHANGED <<outbox, work>> /\ Spent' = Spent + 1
        /\ relay'[r].published = {} /\ relay'[r].todo \subseteq relay[r].todo
    <3>1. CASE RelayAbort(r)
      BY <3>1, SufferSpends
         DEF RelayAbort, Aborted, TypeOK, dbVars, queueVars, FaultKinds, NoTx
    <3>2. CASE RelayCrash(r)
      BY <3>2, SufferSpends DEF RelayCrash, TypeOK, dbVars, queueVars, FaultKinds, NoTx
    <3>3. QED
      BY <1>11, <3>1, <3>2
  <2>2. \/ ToPublish(n)' = ToPublish(n)
        \/ n \in relay[r].published /\ ToPublish(n)' = 1 /\ ToPublish(n) = 0
    <3>1. CASE n \in relay[r].claimed
      BY <1>3, <2>1, <3>1, ClaimedRow
    <3>2. CASE n \notin relay[r].claimed
      <4>1. n \notin relay[r].published
        BY <3>2 DEF ClaimsAreLocks
      <4>2. QED
        BY <1>3, <2>1, <4>1, UnclaimedRow
    <3>3. QED
      BY <3>1, <3>2
  <2>3. again1 = 1 => n \in relay[r].todo
    BY <2>1 DEF One
  <2>4. n \in relay[r].todo => n \notin relay[r].published
    BY DEF ClaimsAreLocks
  <2>5. 1 \in Int
    OBVIOUS
  <2> HIDE DEF again, again1
  <2>6. ToPublish(n)' - ToPublish(n) + again1 - again <= 1
    BY <1>2, <1>4, <2>2, <2>3, <2>4
  <2>7. QED
    BY <1>8, <2>1, <2>5, <2>6
<1>12. CASE RelayItem(r)
  <2>1. PICK x \in relay[r].todo, p \in Publication :
          /\ Suffer(FaultOf(p))
          /\ work' = PutIf(Reaches(p), work, [n |-> x, attempt |-> relay[r].attempts[x]])
          /\ relay' = [relay EXCEPT ![r] = AfterItem(relay[r], x, p = "confirmed")]
          /\ UNCHANGED <<dbVars, retry, dead, provider, workerVars, janitorVars>>
    BY <1>12 DEF RelayItem
  <2>2. UNCHANGED outbox
    BY <2>1 DEF dbVars
  <2>3. /\ relay'[r].aborted = relay[r].aborted
        /\ relay'[r].todo = relay[r].todo \ {x}
        /\ relay'[r].published = IF p = "confirmed" /\ ~relay[r].aborted
                                 THEN relay[r].published \cup {x} ELSE relay[r].published
    BY <1>4, <2>1 DEF TypeOK, AfterItem, Tx
  <2> DEFINE m     == [n |-> x, attempt |-> relay[r].attempts[x]]
             mine  == One(x = n)
  <2>4. m \in Msg /\ m.n = x
    BY <1>4 DEF Msg, Tx
  <2>5. PICK b \in {0, mine} :
          /\ IsFiniteSet(Queued(work', n))
          /\ Cardinality(Queued(work', n)) = Cardinality(Queued(work, n)) + b
    <3>1. /\ IsFiniteSet(Queued(work', n))
          /\ Cardinality(Queued(work', n))
               = Cardinality(Queued(work, n)) + One(Reaches(p) /\ m.n = n)
      <4>1. Reaches(p) \in BOOLEAN
        BY DEF Reaches
      <4> HIDE DEF m
      <4>2. QED
        BY <1>1, <2>1, <2>4, <4>1, CopyPutIf DEF m
    <3>2. One(Reaches(p) /\ m.n = n) \in {0, mine}
      BY <2>4 DEF One
    <3>3. QED
      BY <3>1, <3>2
  <2>6. PICK f \in {0, 1} : Spent' = Spent + f /\ (p # "confirmed" => f = 1)
    <3>1. CASE p = "confirmed"
      BY <1>2, <2>1, <3>1, SufferSpends DEF FaultOf
    <3>2. CASE p # "confirmed"
      BY <2>1, <3>2, SufferSpends DEF FaultOf, FaultKinds
    <3>3. QED
      BY <3>1, <3>2
  <2>7. ToPublish(n)' - ToPublish(n) + again1 - again + b <= f
    <3>1. b \in {0, 1} /\ (x # n => b = 0)
      BY <2>5 DEF One
    <3>2. CASE x # n
      <4>1. n \in relay'[r].published <=> n \in relay[r].published
        BY <2>3, <3>2
      <4>2. ToPublish(n)' = ToPublish(n)
        <5>1. \A s \in Relays : n \in relay'[s].published <=> n \in relay[s].published
          BY <1>3, <4>1
        <5>2. QED
          BY <2>2, <5>1 DEF ToPublish
      <4>3. again1 = again
        BY <2>3, <3>2
      <4> HIDE DEF again, again1
      <4>4. QED
        BY <1>2, <1>4, <3>1, <3>2, <4>2, <4>3
    <3>3. CASE x = n /\ relay[r].aborted
      <4>1. again = 1 /\ again1 = 0
        BY <2>3, <3>3 DEF One
      <4>2. \A s \in Relays : n \in relay'[s].published <=> n \in relay[s].published
        BY <1>3, <2>3, <3>3
      <4>3. ToPublish(n)' = ToPublish(n)
        BY <2>2, <4>2 DEF ToPublish
      <4> HIDE DEF again, again1
      <4>4. QED
        BY <1>2, <3>1, <4>1, <4>3
    <3>4. CASE x = n /\ ~relay[r].aborted
      <4>1. n \in relay[r].claimed /\ n \notin relay[r].published
        BY <3>4 DEF ClaimsAreLocks
      <4>2. /\ ToPublish(n) = 1
            /\ ToPublish(n)' = IF p = "confirmed" THEN 0 ELSE 1
        BY <1>3, <2>2, <2>3, <3>4, <4>1, ClaimedRow
      <4>3. again = 0 /\ again1 = 0
        BY <2>3, <3>4 DEF One
      <4> HIDE DEF again, again1
      <4>4. QED
        BY <2>6, <3>1, <4>2, <4>3
    <3>5. QED
      BY <3>2, <3>3, <3>4
  <2>8. b \in Int /\ f \in Int
    BY <2>5 DEF One
  <2> HIDE DEF again, again1, mine
  <2>9. QED
    BY <1>7, <2>5, <2>6, <2>7, <2>8
<1>13. QED
  BY <1>9, <1>10, <1>11, <1>12

\* The rescues of n, when janitor j goes on.
LEMMA JanitorMovesOn ==
    ASSUME TypeOK, NEW n \in Notifications, NEW j \in Janitors, IsFiniteSet(Rescuing(n)),
           \A i \in Janitors : i # j => stuck'[i] = stuck[i],
           NEW m \in Msg
    PROVE  /\ stuck'[j] \subseteq stuck[j]
                => /\ IsFiniteSet(Rescuing(n)')
                   /\ Cardinality(Rescuing(n)') <= Cardinality(Rescuing(n))
           /\ stuck'[j] = stuck[j] \ {m} /\ m \in stuck[j]
                => /\ IsFiniteSet(Rescuing(n)')
                   /\ Cardinality(Rescuing(n)') = Cardinality(Rescuing(n)) - One(m.n = n)
           /\ stuck[j] = {} /\ stuck'[j] \subseteq StuckRows
                => /\ IsFiniteSet(Rescuing(n)')
                   /\ Cardinality(Rescuing(n)') <= Cardinality(Rescuing(n)) + 1
<1>1. Cardinality(Rescuing(n)) \in Nat
  BY FS_CardinalityType
<1>2. ASSUME stuck'[j] \subseteq stuck[j]
      PROVE  /\ IsFiniteSet(Rescuing(n)')
             /\ Cardinality(Rescuing(n)') <= Cardinality(Rescuing(n))
  <2>1. \A i \in Janitors : stuck'[i] \subseteq stuck[i]
    BY <1>2
  <2>2. Rescuing(n)' \subseteq Rescuing(n)
    BY <2>1 DEF Rescuing
  <2>3. QED
    BY <2>2, FS_Subset
<1>3. ASSUME stuck'[j] = stuck[j] \ {m}, m \in stuck[j]
      PROVE  /\ IsFiniteSet(Rescuing(n)')
             /\ Cardinality(Rescuing(n)') = Cardinality(Rescuing(n)) - One(m.n = n)
  <2>1. Rescuing(n)' = Rescuing(n) \ {<<j, m>>}
    <3>1. ASSUME NEW i \in Janitors, NEW x \in Msg
          PROVE  x \in stuck'[i] <=> x \in stuck[i] /\ <<i, x>> # <<j, m>>
      BY <1>3
    <3>2. QED
      BY <3>1 DEF Rescuing
  <2>2. <<j, m>> \in Rescuing(n) <=> m.n = n
    BY <1>3 DEF Rescuing
  <2>3. QED
    BY <1>1, <2>1, <2>2, FS_RemoveElement DEF One
<1>4. ASSUME stuck[j] = {}, stuck'[j] \subseteq StuckRows
      PROVE  /\ IsFiniteSet(Rescuing(n)')
             /\ Cardinality(Rescuing(n)') <= Cardinality(Rescuing(n)) + 1
  <2> DEFINE new == <<j, [n |-> n, attempt |-> row[n].attempt]>>
  <2>1. \A x \in StuckRows : x.n = n => x = [n |-> n, attempt |-> row[n].attempt]
    BY DEF StuckRows
  <2>2. Rescuing(n)' \subseteq Rescuing(n) \cup {new}
    <3>1. ASSUME NEW i \in Janitors, NEW x \in Msg, x \in stuck'[i], x.n = n
          PROVE  x \in stuck[i] \/ <<i, x>> = new
      BY <1>4, <2>1, <3>1
    <3>2. QED
      BY <3>1 DEF Rescuing
  <2>3. /\ IsFiniteSet(Rescuing(n) \cup {new})
        /\ Cardinality(Rescuing(n) \cup {new}) <= Cardinality(Rescuing(n)) + 1
    <3> HIDE DEF new
    <3>1. CASE new \in Rescuing(n)
      <4>1. Rescuing(n) \cup {new} = Rescuing(n)
        BY <3>1
      <4>2. QED
        BY <1>1, <4>1
    <3>2. CASE new \notin Rescuing(n)
      <4>1. /\ IsFiniteSet(Rescuing(n) \cup {new})
            /\ Cardinality(Rescuing(n) \cup {new}) = Cardinality(Rescuing(n)) + 1
        BY <3>2, FS_AddElement
      <4>2. QED
        BY <1>1, <4>1
    <3>3. QED
      BY <3>1, <3>2
  <2>4. Cardinality(Rescuing(n) \cup {new}) \in Nat /\ IsFiniteSet(Rescuing(n)')
        /\ Cardinality(Rescuing(n)') <= Cardinality(Rescuing(n) \cup {new})
    <3> HIDE DEF new
    <3>1. QED
      BY <2>2, <2>3, FS_Subset, FS_CardinalityType
  <2>5. Cardinality(Rescuing(n)') \in Nat
    BY <2>4, FS_CardinalityType
  <2> HIDE DEF new
  <2>6. QED
    BY <1>1, <2>3, <2>4, <2>5
<1>5. QED
  BY <1>2, <1>3, <1>4

\* Every step of a janitor keeps the books.
LEMMA JanitorBalanced ==
    ASSUME TypeOK, NEW n \in Notifications, Balanced(n), NEW j \in Janitors,
           JanitorList(j) \/ JanitorPublish(j) \/ JanitorUpdate(j) \/ JanitorCrash(j)
    PROVE  Balanced(n)'
<1>1. /\ work \in [Msg -> Nat]
      /\ IsFiniteSet(Queued(work, n)) /\ IsFiniteSet(Queued(retry, n))
      /\ IsFiniteSet(Rescuing(n)) /\ stuck[j] \subseteq Msg
  BY DEF TypeOK, Balanced
<1>2. /\ Spent \in Int
      /\ Cardinality(Queued(work, n)) \in Nat /\ Cardinality(Queued(retry, n)) \in Nat
      /\ Cardinality(Rescuing(n)) \in Nat /\ Due(n) \in Nat
  BY BooksAreNumbers DEF Due
<1>3. \A i \in Janitors : i # j => stuck'[i] = stuck[i]
  BY DEF JanitorList, JanitorPublish, JanitorUpdate, JanitorCrash, TypeOK
<1>4. UNCHANGED <<provider, pc, job, retry, outbox, relay>>
  BY DEF JanitorList, JanitorPublish, JanitorUpdate, JanitorCrash, dbVars, queueVars,
         workerVars
<1>5. ASSUME NEW b \in Int, NEW g \in Int, NEW f \in Int,
             IsFiniteSet(Queued(work', n)),
             Cardinality(Queued(work', n)) = Cardinality(Queued(work, n)) + b,
             IsFiniteSet(Rescuing(n)'),
             Cardinality(Rescuing(n)') = Cardinality(Rescuing(n)) + g,
             Spent' = Spent + f, b + g <= f
      PROVE  Balanced(n)'
  <2>1. /\ IsFiniteSet(Queued(retry', n))
        /\ Cardinality(Queued(retry', n)) = Cardinality(Queued(retry, n)) + 0
        /\ Due(n)' = Due(n) + 0 /\ IsFiniteSet(Republishing(n)')
        /\ 0 \in Int /\ 0 + b + 0 + g <= f
    BY <1>1, <1>2, <1>4, <1>5 DEF Due, ToPublish, Republishing, Balanced
  <2>2. QED
    BY <1>4, <1>5, <2>1, PublishersBalance
<1>6. ASSUME UNCHANGED work, IsFiniteSet(Rescuing(n)'), NEW f \in Int, Spent' = Spent + f,
             Cardinality(Rescuing(n)') <= Cardinality(Rescuing(n)) + f
      PROVE  Balanced(n)'
  <2>1. Cardinality(Rescuing(n)') \in Nat
    BY <1>6, FS_CardinalityType
  <2>2. PICK g \in Int : Cardinality(Rescuing(n)') = Cardinality(Rescuing(n)) + g
    <3>1. \A x, y \in Nat : x - y \in Int /\ x = y + (x - y)
      OBVIOUS
    <3>2. QED
      BY <1>2, <2>1, <3>1
  <2>3. /\ 0 \in Int /\ 0 + g <= f
        /\ IsFiniteSet(Queued(work', n))
        /\ Cardinality(Queued(work', n)) = Cardinality(Queued(work, n)) + 0
    BY <1>1, <1>2, <1>6, <2>1, <2>2
  <2>4. QED
    BY <1>5, <1>6, <2>2, <2>3
<1>7. CASE JanitorList(j)
  <2>1. /\ UNCHANGED work /\ stuck[j] = {} /\ stuck'[j] \subseteq StuckRows
        /\ Suffer({"rescue"})
    BY <1>7 DEF JanitorList, TypeOK, queueVars
  <2>2. Spent' = Spent + 1
    BY <2>1, SufferSpends DEF FaultKinds
  <2>3. /\ IsFiniteSet(Rescuing(n)')
        /\ Cardinality(Rescuing(n)') <= Cardinality(Rescuing(n)) + 1
    <3>1. [n |-> n, attempt |-> 0] \in Msg
      BY PipelineAssumption DEF Msg, Attempts, RetryLimit
    <3>2. QED
      BY <1>1, <1>3, <2>1, <3>1, JanitorMovesOn
  <2>4. 1 \in Int
    OBVIOUS
  <2>5. QED
    BY <1>6, <2>1, <2>2, <2>3, <2>4
<1>8. CASE JanitorPublish(j)
  <2>1. PICK m \in stuck[j], p \in Publication :
          /\ Suffer(FaultOf(p))
          /\ work' = PutIf(Reaches(p), work, m)
          /\ stuck' = [stuck EXCEPT ![j] = @ \ {m}]
    BY <1>8 DEF JanitorPublish
  <2>2. m \in Msg /\ stuck'[j] = stuck[j] \ {m} /\ Reaches(p) \in BOOLEAN
    BY <1>1, <2>1 DEF TypeOK, Reaches
  <2>3. /\ IsFiniteSet(Rescuing(n)')
        /\ Cardinality(Rescuing(n)') = Cardinality(Rescuing(n)) - One(m.n = n)
    BY <1>1, <1>3, <2>2, JanitorMovesOn
  <2>4. /\ IsFiniteSet(Queued(work', n))
        /\ Cardinality(Queued(work', n))
             = Cardinality(Queued(work, n)) + One(Reaches(p) /\ m.n = n)
    BY <1>1, <2>1, <2>2, CopyPutIf
  <2>5. PICK f \in {0, 1} : Spent' = Spent + f
    BY <1>2, <2>1, SufferSpends DEF FaultOf, FaultKinds
  <2>6. PICK b \in {0, 1}, g \in {0, -1} :
          /\ b = One(Reaches(p) /\ m.n = n)
          /\ Cardinality(Rescuing(n)') = Cardinality(Rescuing(n)) + g
          /\ b + g <= f
    <3>1. CASE m.n = n
      BY <1>2, <2>3, <3>1 DEF One
    <3>2. CASE m.n # n
      BY <1>2, <2>3, <3>2 DEF One
    <3>3. QED
      BY <3>1, <3>2
  <2>7. b \in Int /\ g \in Int /\ f \in Int
    OBVIOUS
  <2>8. QED
    BY <1>5, <2>3, <2>4, <2>5, <2>6, <2>7
<1>9. CASE JanitorUpdate(j)
  <2>1. /\ UNCHANGED <<work, stuck>>
        /\ UpdateStatus(rescued[j].n, "enqueued", rescued[j].attempt)
    BY <1>9 DEF JanitorUpdate, queueVars
  <2>2. PICK f \in {0, 1} : Spent' = Spent + f
    BY <1>2, <2>1, SufferSpends DEF UpdateStatus, FaultKinds
  <2>3. IsFiniteSet(Rescuing(n)') /\ Cardinality(Rescuing(n)') <= Cardinality(Rescuing(n)) + f
    BY <1>1, <1>2, <2>1 DEF Rescuing
  <2>4. f \in Int
    OBVIOUS
  <2>5. QED
    BY <1>6, <2>1, <2>2, <2>3, <2>4
<1>10. CASE JanitorCrash(j)
  <2>1. UNCHANGED work /\ stuck'[j] = {} /\ Spent' = Spent + 1
    BY <1>10, SufferSpends DEF JanitorCrash, TypeOK, queueVars, FaultKinds
  <2>2. IsFiniteSet(Rescuing(n)') /\ Cardinality(Rescuing(n)') <= Cardinality(Rescuing(n))
    <3>1. stuck'[j] \subseteq stuck[j] /\ [n |-> n, attempt |-> 0] \in Msg
      BY <2>1, PipelineAssumption DEF Msg, Attempts, RetryLimit
    <3>2. QED
      BY <1>1, <1>3, <3>1, JanitorMovesOn
  <2>3. 1 \in Int /\ Cardinality(Rescuing(n)') <= Cardinality(Rescuing(n)) + 1
    BY <1>2, <2>2, FS_CardinalityType
  <2>4. QED
    BY <1>6, <2>1, <2>2, <2>3
<1>11. QED
  BY <1>7, <1>8, <1>9, <1>10

\* So does every other step: a submission finds no trace of its notification,
\* and a message whose TTL runs out only changes queues.
LEMMA OthersBalanced ==
    ASSUME TypeOK, OnlyAccepted, NEW n \in Notifications, Balanced(n),
           \/ \E x \in Notifications : Submit(x) \/ Age(x)
           \/ Expire
           \/ UNCHANGED vars
    PROVE  Balanced(n)'
<1>1. /\ work \in [Msg -> Nat] /\ retry \in [Msg -> Nat]
      /\ IsFiniteSet(Queued(work, n)) /\ IsFiniteSet(Queued(retry, n))
      /\ IsFiniteSet(Rescuing(n))
  BY DEF TypeOK, Balanced
<1>2. /\ Spent \in Int
      /\ Cardinality(Queued(work, n)) \in Nat /\ Cardinality(Queued(retry, n)) \in Nat
      /\ Cardinality(Rescuing(n)) \in Nat /\ Due(n) \in Nat
  BY BooksAreNumbers DEF Due
<1>3. UNCHANGED <<provider, pc, job, relay, stuck, budget>>
  BY DEF Submit, Age, Expire, vars, dbVars, queueVars, workerVars, janitorVars
<1>4. Due(n)' = Due(n) + 0 /\ IsFiniteSet(Republishing(n)')
  <2>1. (outbox'[n].status = "published") <=> (outbox[n].status = "published")
    <3>1. CASE \E x \in Notifications : Submit(x)
      <4>1. PICK x \in Notifications :
              /\ row[x] = Absent
              /\ outbox' = [outbox EXCEPT ![x].status = "pending"]
        BY <3>1 DEF Submit
      <4>2. outbox[x].status = "absent"
        BY <4>1 DEF OnlyAccepted, Unknown, Absent
      <4>3. outbox'[x].status = "pending" /\ (x # n => outbox'[n] = outbox[n])
        BY <4>1 DEF TypeOK, OutboxRow
      <4>4. QED
        BY <4>2, <4>3
    <3>2. CASE UNCHANGED outbox
      BY <3>2
    <3>3. QED
      BY <3>1, <3>2 DEF Age, Expire, vars, dbVars
  <2>2. ToPublish(n)' = ToPublish(n) /\ Republishing(n)' = Republishing(n)
    BY <1>3, <2>1 DEF ToPublish, Republishing
  <2>3. QED
    BY <1>2, <2>2 DEF Due, Balanced
<1>5. /\ IsFiniteSet(Rescuing(n)')
      /\ Cardinality(Rescuing(n)') = Cardinality(Rescuing(n)) + 0
      /\ Spent' = Spent + 0
  BY <1>1, <1>2, <1>3 DEF Rescuing, Spent
<1>6. PICK its \in {0, 1} :
        /\ IsFiniteSet(Queued(work', n)) /\ IsFiniteSet(Queued(retry', n))
        /\ Cardinality(Queued(work', n)) = Cardinality(Queued(work, n)) + its
        /\ Cardinality(Queued(retry', n)) = Cardinality(Queued(retry, n)) + (-its)
  <2>1. CASE Expire
    <3>1. PICK m \in Msg : retry[m] > 0 /\ retry' = Take(retry, m) /\ work' = Put(work, m)
      BY <2>1 DEF Expire
    <3>2. One(m.n = n) \in {0, 1}
      BY DEF One
    <3>3. /\ IsFiniteSet(Queued(work', n)) /\ IsFiniteSet(Queued(retry', n))
          /\ Cardinality(Queued(work', n)) = Cardinality(Queued(work, n)) + One(m.n = n)
          /\ Cardinality(Queued(retry', n)) = Cardinality(Queued(retry, n)) - One(m.n = n)
      BY <1>1, <3>1, CopyPut, CopyTake
    <3>4. QED
      BY <1>2, <3>2, <3>3
  <2>2. CASE UNCHANGED <<work, retry>>
    BY <1>1, <1>2, <2>2
  <2>3. QED
    BY <2>1, <2>2 DEF Submit, Age, vars, queueVars
<1>7. its \in Int /\ -its \in Int /\ 0 \in Int /\ 0 + its + (-its) + 0 <= 0
  OBVIOUS
<1>8. QED
  BY <1>3, <1>4, <1>5, <1>6, <1>7, PublishersBalance

\* CopiesArePaid with what its induction needs: the types, and that the copies
\* can be counted.
DuplicatesInv ==
    /\ TypeOK
    /\ ClaimsAreLocks
    /\ \A n \in Notifications : Balanced(n)

\* At first the books hold one answer, the one to come.
LEMMA DuplicatesAtInit == Init => DuplicatesInv
<1> SUFFICES ASSUME Init
             PROVE  DuplicatesInv
  OBVIOUS
<1>1. ClaimsAreLocks
  BY DEF Init, ClaimsAreLocks, NoTx
<1>2. ASSUME NEW n \in Notifications
      PROVE  Balanced(n)
  <2>1. Queued(work, n) = {} /\ Queued(retry, n) = {}
    <3>1. \A a \in Attempts : 1..work[[n |-> n, attempt |-> a]] = {}
                              /\ 1..retry[[n |-> n, attempt |-> a]] = {}
      BY DEF Init, Msg
    <3>2. QED
      BY <3>1 DEF Queued
  <2>2. Asking(n) = {} /\ Rescuing(n) = {}
    BY DEF Init, Asking, Rescuing
  <2>3. ToPublish(n) = 1 /\ Republishing(n) = {}
    BY DEF Init, ToPublish, Republishing, NoTx
  <2>4. Spent = 0
    BY PipelineAssumption DEF Init, Spent, FaultKinds
  <2>5. provider[n].ok = 0 /\ provider[n].rejected = 0
    BY DEF Init
  <2>6. Outstanding(n) = 1
    BY <2>1, <2>2, <2>3, FS_EmptySet DEF Outstanding
  <2>7. QED
    BY <2>1, <2>2, <2>3, <2>4, <2>5, <2>6, FS_EmptySet DEF Balanced
<1>3. QED
  BY <1>1, <1>2, TypesAtInit DEF DuplicatesInv

\* The books balance after every step of the system.
LEMMA DuplicatesInvStays ==
    ASSUME DuplicatesInv, OnlyAccepted, [Next]_vars
    PROVE  DuplicatesInv'
<1>1. TypeOK /\ ClaimsAreLocks /\ \A n \in Notifications : Balanced(n)
  BY DEF DuplicatesInv
<1>2. TypeOK'
  BY <1>1, NextTypes
<1>3. ClaimsAreLocks'
  <2>1. CASE Next
    BY <1>1, <2>1, LocksStay
  <2>2. CASE UNCHANGED vars
    BY <1>1, <2>2 DEF ClaimsAreLocks, vars, dbVars
  <2>3. QED
    BY <2>1, <2>2
<1>4. ASSUME NEW n \in Notifications
      PROVE  Balanced(n)'
  <2>1. ASSUME NEW r \in Relays,
               RelayClaim(r) \/ RelayItem(r) \/ RelayCommit(r) \/ RelayAbort(r) \/ RelayCrash(r)
        PROVE  Balanced(n)'
    BY <1>1, <2>1, RelayBalanced
  <2>2. ASSUME NEW w \in Workers,
               Receive(w) \/ WorkerStep(w) \/ WorkerCrash(w) \/ ConnectionLost(w)
        PROVE  Balanced(n)'
    BY <1>1, <2>2, WorkerBalanced
  <2>3. ASSUME NEW j \in Janitors,
               JanitorList(j) \/ JanitorPublish(j) \/ JanitorUpdate(j) \/ JanitorCrash(j)
        PROVE  Balanced(n)'
    BY <1>1, <2>3, JanitorBalanced
  <2>4. ASSUME \/ \E x \in Notifications : Submit(x) \/ Age(x)
               \/ Expire
               \/ UNCHANGED vars
        PROVE  Balanced(n)'
    BY <1>1, <2>4, OthersBalanced
  <2>5. QED
    BY <2>1, <2>2, <2>3, <2>4 DEF Next, EmptyPass
<1>5. QED
  BY <1>2, <1>3, <1>4 DEF DuplicatesInv

\* Whatever copies of a notification the queues, the slots, the relays and the
\* janitors hold, the answers they can still bring about are paid for like those
\* already given. (SKIP LOCKED, publish then mark, confirm then Ack.)
THEOREM CopiesInvariant == Spec => []CopiesArePaid
<1>1. DuplicatesInv => CopiesArePaid
  BY DEF DuplicatesInv, CopiesArePaid, Balanced
<1>2. DuplicatesInv /\ OnlyAccepted /\ [Next]_vars => DuplicatesInv'
  BY DuplicatesInvStays
<1>3. QED
  BY <1>1, <1>2, DuplicatesAtInit, NothingIsInvented, PTL DEF Spec

\* Every final answer beyond the first is paid for by a fault: without one,
\* delivery is exactly once. (SKIP LOCKED, publish then mark, confirm then Ack.)
THEOREM DeliveriesArePaid == Spec => []DuplicatesArePaid
<1>1. DuplicatesInv => DuplicatesArePaid
  <2> SUFFICES ASSUME DuplicatesInv, NEW n \in Notifications
               PROVE  provider[n].ok + provider[n].rejected <= 1 + Spent
    BY DEF DuplicatesArePaid
  <2>1. TypeOK /\ Balanced(n)
    BY DEF DuplicatesInv
  <2>2. Outstanding(n) \in Nat
    BY <2>1, BooksAreNumbers DEF Outstanding
  <2>3. QED
    BY <2>1, <2>2, BooksAreNumbers DEF Balanced
<1>2. DuplicatesInv /\ OnlyAccepted /\ [Next]_vars => DuplicatesInv'
  BY DuplicatesInvStays
<1>3. QED
  BY <1>1, <1>2, DuplicatesAtInit, NothingIsInvented, PTL DEF Spec
=============================================================================
