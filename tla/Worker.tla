------------------------------- MODULE Worker -------------------------------
(***************************************************************************)
(* A worker slot: one goroutine of cmd/worker/consumer running handle and  *)
(* ProcessNotification.Execute on one delivery. The database writes, the   *)
(* provider call and the publishes are separate steps: everything else in  *)
(* the system runs between them.                                           *)
(***************************************************************************)
EXTENDS PipelineState

\* decode builds the entity as Enqueued whatever the row says.
Decoded == "enqueued"

\* The entity's status after MarkInFlight and after each of its successors.
InFlight == TransitionTo(Decoded, "in_flight")

After(next) == TransitionTo(InFlight, next)

\* Mutant: Nack with requeue = false on a queue that dead-letters nowhere.
NackDrops(w, q) == q

\* An unacked delivery goes back to the work queue with its header unchanged.
Requeue(w, q) == PutIf(owned[w], q, job[w])

\* Mutant: the slot's semaphore is not given back.
ReleaseKeepsSlot(w) ==
    /\ job' = [job EXCEPT ![w] = NoMsg]
    /\ owned' = [owned EXCEPT ![w] = FALSE]
    /\ UNCHANGED pc

\* The slot is free for the next delivery.
Release(w) ==
    /\ pc' = [pc EXCEPT ![w] = "idle"]
    /\ job' = [job EXCEPT ![w] = NoMsg]
    /\ owned' = [owned EXCEPT ![w] = FALSE]

Goto(w, next) ==
    /\ pc' = [pc EXCEPT ![w] = next]
    /\ UNCHANGED <<job, owned>>

\* runOnce hands a delivery to a free slot of the semaphore.
Receive(w) ==
    /\ pc[w] = "idle"
    /\ \E m \in Msg :
        /\ work[m] > 0
        /\ work' = Take(work, m)
        /\ job' = [job EXCEPT ![w] = m]
    /\ pc' = [pc EXCEPT ![w] = "received"]
    /\ owned' = [owned EXCEPT ![w] = TRUE]
    /\ UNCHANGED <<dbVars, retry, dead, provider, relay, janitorVars, budget>>

\* Mutant: the move is checked against the stored status, and refused with a Nack.
BeginFromRow(w) ==
    /\ pc[w] = "received"
    /\ IF CanTransitionTo(row[job[w].n].status, "in_flight")
       THEN /\ UpdateStatus(job[w].n, InFlight, job[w].attempt)
            /\ Goto(w, "sending")
            /\ UNCHANGED work
       ELSE /\ Release(w)
            /\ work' = Requeue(w, work)
            /\ UNCHANGED <<row, budget>>
    /\ UNCHANGED <<outbox, retry, dead, provider, relay, janitorVars>>

\* MarkInFlight, and UpdateStatus when the entity accepted the move.
Begin(w) ==
    /\ pc[w] = "received"
    /\ IF CanTransitionTo(Decoded, "in_flight")
       THEN UpdateStatus(job[w].n, InFlight, job[w].attempt)
       ELSE UNCHANGED <<row, budget>>
    /\ Goto(w, "sending")
    /\ UNCHANGED <<outbox, queueVars, provider, relay, janitorVars>>

\* The provider's ledger with so many more answers of each kind.
Answered(n, ok, transient, rejected) ==
    [provider EXCEPT ![n] = [ok        |-> @.ok + ok,
                             transient |-> @.transient + transient,
                             rejected  |-> @.rejected + rejected]]

\* Provider.Send returns nil, a transient error or any other error. A network
\* error is transient too, and the provider may have accepted the notification.
Send(w) ==
    LET n == job[w].n IN
    /\ pc[w] = "sending"
    /\ \/ /\ provider' = Answered(n, 1, 0, 0)
          /\ Goto(w, "sent")
          /\ UNCHANGED budget
       \/ /\ provider' = Answered(n, 0, 1, 0)
          /\ Goto(w, "transient")
          /\ UNCHANGED budget
       \/ /\ provider' = Answered(n, 0, 0, 1)
          /\ Goto(w, "rejected")
          /\ UNCHANGED budget
       \/ /\ provider' = Answered(n, 1, 1, 0)
          /\ Goto(w, "transient")
          /\ Suffer({"answer"})
    /\ UNCHANGED <<dbVars, queueVars, relay, janitorVars>>

RecordSent(w) ==
    /\ pc[w] = "sent"
    /\ UpdateStatus(job[w].n, After("sent"), job[w].attempt)
    /\ Goto(w, "acking")
    /\ UNCHANGED <<outbox, queueVars, provider, relay, janitorVars>>

\* Mutant: the last retry is skipped.
SentToDeadEarly(m) == m.attempt + 1 >= RetryLimit

\* Publisher.Retry: which queue the message goes to.
SentToDead(m) == m.attempt >= RetryLimit

\* The transient case. A publish error makes Execute fail and handle Nack the
\* delivery, so the original is redelivered even if the publish did arrive.
Retry(w) ==
    LET m    == job[w]
        next == [m EXCEPT !.attempt = Capped(@ + 1)]
    IN
    /\ pc[w] = "transient"
    /\ \E p \in Publication :
        /\ Suffer(FaultOf(p))
        /\ retry' = PutIf(Reaches(p) /\ ~SentToDead(m), retry, next)
        /\ dead' = PutIf(Reaches(p) /\ SentToDead(m), dead, m.n)
        /\ IF p = "confirmed"
           THEN /\ Goto(w, IF SentToDead(m) THEN "exhausted" ELSE "retried")
                /\ UNCHANGED work
           ELSE /\ Release(w)
                /\ work' = Requeue(w, work)
    /\ UNCHANGED <<dbVars, provider, relay, janitorVars>>

\* Mutant: the dead flag that Retry returns is ignored.
RecordRetryAsDead(w) ==
    /\ pc[w] \in {"retried", "exhausted"}
    /\ UpdateStatus(job[w].n, After("dead_letter"), job[w].attempt)
    /\ Goto(w, "acking")
    /\ UNCHANGED <<outbox, queueVars, provider, relay, janitorVars>>

RecordRetry(w) ==
    /\ \/ pc[w] = "retried" /\ UpdateStatus(job[w].n, After("retrying"), job[w].attempt)
       \/ pc[w] = "exhausted" /\ UpdateStatus(job[w].n, After("dead_letter"), job[w].attempt)
    /\ Goto(w, "acking")
    /\ UNCHANGED <<outbox, queueVars, provider, relay, janitorVars>>

RecordRejected(w) ==
    /\ pc[w] = "rejected"
    /\ UpdateStatus(job[w].n, After("dead_letter"), job[w].attempt)
    /\ Goto(w, "parking")
    /\ UNCHANGED <<outbox, queueVars, provider, relay, janitorVars>>

\* Retry(max, max) forwards the rejected message to the dead queue; its error
\* is discarded.
Park(w) ==
    /\ pc[w] = "parking"
    /\ \E p \in Publication :
        /\ Suffer(FaultOf(p))
        /\ dead' = PutIf(Reaches(p), dead, job[w].n)
    /\ Goto(w, "acking")
    /\ UNCHANGED <<dbVars, work, retry, provider, relay, janitorVars>>

\* Mutant: the consumer Nacks a delivery whose handler has succeeded.
AckAsNack(w) ==
    /\ pc[w] = "acking"
    /\ work' = Requeue(w, work)
    /\ Release(w)
    /\ UNCHANGED <<dbVars, retry, dead, provider, relay, janitorVars, budget>>

\* Ack: the broker forgets the delivery.
Ack(w) ==
    /\ pc[w] = "acking"
    /\ Release(w)
    /\ UNCHANGED <<dbVars, queueVars, provider, relay, janitorVars, budget>>

\* The worker process dies; the broker requeues what the slot had not acked.
WorkerCrash(w) ==
    /\ pc[w] # "idle"
    /\ Suffer({"crash"})
    /\ work' = Requeue(w, work)
    /\ Release(w)
    /\ UNCHANGED <<dbVars, retry, dead, provider, relay, janitorVars>>

\* The consume connection drops under a running handler: the broker requeues
\* the delivery while the handler goes on, and its Ack or Nack will be void.
ConnectionLost(w) ==
    /\ pc[w] # "idle"
    /\ owned[w]
    /\ Suffer({"connection"})
    /\ work' = Put(work, job[w])
    /\ owned' = [owned EXCEPT ![w] = FALSE]
    /\ UNCHANGED <<dbVars, retry, dead, provider, relay, pc, job, janitorVars>>

WorkerStep(w) ==
    \/ Begin(w)          \/ Send(w)           \/ RecordSent(w)
    \/ Retry(w)          \/ RecordRetry(w)    \/ RecordRejected(w)
    \/ Park(w)           \/ Ack(w)
=============================================================================
