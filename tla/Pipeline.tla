------------------------------ MODULE Pipeline ------------------------------
(***************************************************************************)
(* The delivery pipeline: the API's transactional submit, the outbox       *)
(* relays, RabbitMQ, the worker slots and the janitors, composed over the  *)
(* state of PipelineState.                                                 *)
(***************************************************************************)
EXTENDS Relay, Worker, Janitor

-----------------------------------------------------------------------------
\* Steps of no process in particular

\* Mutant: the two inserts are not in one transaction, and the first one fails.
SubmitOutboxOnly(n) ==
    /\ row[n] = Absent
    /\ outbox[n].status = "absent"
    /\ outbox' = [outbox EXCEPT ![n].status = "pending"]
    /\ UNCHANGED <<row, queueVars, provider, relay, workerVars, janitorVars, budget>>

\* SubmitWithOutbox: the log row and the outbox row in one transaction. A
\* submission that fails before the commit leaves nothing behind.
Submit(n) ==
    /\ row[n] = Absent
    /\ row' = [row EXCEPT ![n] = [Absent EXCEPT
                                    !.status = TransitionTo("received", "enqueued")]]
    /\ outbox' = [outbox EXCEPT ![n].status = "pending"]
    /\ UNCHANGED <<queueVars, provider, relay, workerVars, janitorVars, budget>>

\* The TTL of a message in the retry queue runs out: the broker dead-letters
\* it to the work queue. Any message may go first, which allows every order
\* that the TTLs and the queue's FIFO discipline could produce.
Expire ==
    /\ \E m \in Msg :
        /\ retry[m] > 0
        /\ retry' = Take(retry, m)
        /\ work' = Put(work, m)
    /\ UNCHANGED <<dbVars, dead, provider, relay, workerVars, janitorVars, budget>>

\* StuckThreshold has passed since the row's updated_at. Nothing bounds how
\* long a handler, a retry TTL or a confirm may take.
Age(n) ==
    /\ row[n].status = "in_flight"
    /\ ~row[n].aged
    /\ row' = [row EXCEPT ![n].aged = TRUE]
    /\ UNCHANGED <<outbox, queueVars, provider, relay, workerVars, janitorVars, budget>>

\* A pass of a relay that claims nothing, when no other process has work: the
\* only way the system comes to rest.
EmptyPass ==
    /\ \A r \in Relays : relay[r] = NoTx
    /\ \A w \in Workers : pc[w] = "idle"
    /\ \A n \in Notifications : /\ outbox[n].status # "pending"
                                /\ ~Holds(work, n)
                                /\ ~Holds(retry, n)
    /\ UNCHANGED vars

-----------------------------------------------------------------------------
Init ==
    /\ row = [n \in Notifications |-> Absent]
    /\ outbox = [n \in Notifications |-> [status |-> "absent", attempts |-> 0]]
    /\ work = [m \in Msg |-> 0]
    /\ retry = [m \in Msg |-> 0]
    /\ dead = [n \in Notifications |-> 0]
    /\ provider = [n \in Notifications |-> [ok |-> 0, transient |-> 0, rejected |-> 0]]
    /\ relay = [r \in Relays |-> NoTx]
    /\ pc = [w \in Workers |-> "idle"]
    /\ job = [w \in Workers |-> NoMsg]
    /\ owned = [w \in Workers |-> FALSE]
    /\ stuck = [j \in Janitors |-> {}]
    /\ rescued = [j \in Janitors |-> NoMsg]
    /\ budget = FaultBudget

Next ==
    \/ \E n \in Notifications : Submit(n) \/ Age(n)
    \/ \E r \in Relays :
         \/ RelayClaim(r) \/ RelayItem(r) \/ RelayCommit(r)
         \/ RelayAbort(r) \/ RelayCrash(r)
    \/ \E w \in Workers :
         Receive(w) \/ WorkerStep(w) \/ WorkerCrash(w) \/ ConnectionLost(w)
    \/ \E j \in Janitors :
         JanitorList(j) \/ JanitorPublish(j) \/ JanitorUpdate(j) \/ JanitorCrash(j)
    \/ Expire
    \/ EmptyPass

\* Running processes keep running: the relay's ticker, the consume loop and
\* the handlers it starts, the broker's TTLs, and a janitor pass once begun.
\* Nothing obliges a client to submit, a row to age, or a fault to strike, and
\* delivery does not need the janitor to start a pass.
Fairness ==
    /\ \A r \in Relays : /\ WF_vars(RelayClaim(r))
                         /\ WF_vars(RelayItem(r))
                         /\ WF_vars(RelayCommit(r))
    /\ \A w \in Workers : WF_vars(Receive(w)) /\ WF_vars(WorkerStep(w))
    /\ \A j \in Janitors : WF_vars(JanitorPublish(j)) /\ WF_vars(JanitorUpdate(j))
    /\ WF_vars(Expire)

Spec == Init /\ [][Next]_vars

FairSpec == Spec /\ Fairness

-----------------------------------------------------------------------------
\* Properties

TypeOK ==
    /\ row \in [Notifications -> Row]
    /\ outbox \in [Notifications -> OutboxRow]
    /\ work \in [Msg -> Nat]
    /\ retry \in [Msg -> Nat]
    /\ dead \in [Notifications -> Nat]
    /\ provider \in [Notifications -> Ledger]
    /\ relay \in [Relays -> Tx]
    /\ pc \in [Workers -> PC]
    /\ job \in [Workers -> Msg \cup {NoMsg}]
    /\ owned \in [Workers -> BOOLEAN]
    /\ stuck \in [Janitors -> SUBSET Msg]
    /\ rescued \in [Janitors -> Msg \cup {NoMsg}]
    /\ budget \in [FaultKinds -> Nat]
    /\ \A w \in Workers : pc[w] # "idle" => job[w] \in Msg

\* The broker would redeliver the slot's message, and its handler has not yet
\* got a final answer or published a successor.
Handling(w, n) ==
    /\ pc[w] \in {"received", "sending", "transient"}
    /\ owned[w]
    /\ job[w].n = n

Live(n) ==
    \/ Holds(work, n)
    \/ Holds(retry, n)
    \/ dead[n] > 0
    \/ \E w \in Workers : Handling(w, n)

FinallyAnswered(n) == provider[n].ok > 0 \/ provider[n].rejected > 0

\* A delivery the relay no longer needs to publish: some queue or handler
\* carries it, or the provider has answered it for good.
Safe(n) == Live(n) \/ FinallyAnswered(n)

\* An accepted notification is never lost, whatever crashes and whichever
\* write or publish fails: its outbox row is pending, or a copy is in a queue
\* or in the hands of a worker that would give it back, or the provider gave a
\* final answer. (The outbox of SubmitWithOutbox, the relay's publish before
\* mark, the worker's Retry before Ack.)
NoLoss ==
    \A n \in Notifications :
        row[n].status # "absent" => outbox[n].status = "pending" \/ Safe(n)

\* No process and no queue knows of n, and the provider has not answered it.
Unknown(n) ==
    /\ outbox[n].status = "absent"
    /\ ~Holds(work, n) /\ ~Holds(retry, n) /\ dead[n] = 0
    /\ ~FinallyAnswered(n)
    /\ \A r \in Relays : n \notin relay[r].todo \cup relay[r].published
    /\ \A w \in Workers : pc[w] # "idle" => job[w].n # n
    /\ \A j \in Janitors : /\ \A m \in stuck[j] : m.n # n
                           /\ rescued[j] # NoMsg => rescued[j].n # n

\* Nothing is published, handled, answered or rescued that no client submitted.
\* (SubmitWithOutbox writes the log row and the outbox row together.)
OnlyAccepted == \A n \in Notifications : row[n].status = "absent" => Unknown(n)

\* The inductive invariant behind NoLoss: also what a relay has marked in a
\* transaction that is not yet committed is safe already.
DeliveryInv ==
    /\ TypeOK
    /\ OnlyAccepted
    /\ \A r \in Relays : \A n \in relay[r].published : Safe(n)
    /\ NoLoss

\* The log never claims more than the provider did: a row is sent only if the
\* provider accepted the notification, and dead_letter only if it rejected it
\* or a message of it is in the dead queue. (Execute's three branches.)
StatusIsTrue ==
    \A n \in Notifications :
        /\ row[n].status = "sent" => provider[n].ok > 0
        /\ row[n].status = "dead_letter" => provider[n].rejected > 0 \/ dead[n] > 0

\* Copies of a notification, and the attempts they carry.
Carried(n, a) ==
    \/ work[[n |-> n, attempt |-> a]] > 0
    \/ retry[[n |-> n, attempt |-> a]] > 0
    \/ \E w \in Workers : job[w] = [n |-> n, attempt |-> a]
    \/ \E j \in Janitors : \/ [n |-> n, attempt |-> a] \in stuck[j]
                           \/ rescued[j] = [n |-> n, attempt |-> a]

Failures(n) == provider[n].transient + outbox[n].attempts

\* The retry budget is never overdrawn: x-attempt on any copy, and the attempt
\* of the row, count failures that really happened, of the provider or of the
\* relay, and a notification parked for exhaustion has failed more than
\* RetryLimit times. (Publisher.Retry's attempt+1, the relay's it.Attempts, the
\* janitor's n.Attempt.)
AttemptsArePaid ==
    \A n \in Notifications :
        /\ row[n].attempt <= Failures(n)
        /\ \A a \in Attempts : Carried(n, a) => a <= Failures(n)
        /\ \A w \in Workers :
             pc[w] = "exhausted" /\ job[w].n = n => Failures(n) > RetryLimit

Spent == LET spent(k) == FaultBudget[k] - budget[k]
         IN  spent("crash") + spent("connection") + spent("db")
             + spent("publish") + spent("answer") + spent("rescue")

\* Every final answer beyond the first is paid for by a fault: with no crash,
\* no lost connection, no failed write or publish and no rescue, delivery is
\* exactly once. (SKIP LOCKED, publish then mark, confirm then Ack.)
DuplicatesArePaid ==
    \A n \in Notifications : provider[n].ok + provider[n].rejected <= 1 + Spent

\* The copies of n in a queue, one element per copy.
Queued(q, n) ==
    UNION {{a} \X (1..q[[n |-> n, attempt |-> a]]) : a \in Attempts}

\* Slots that may still get an answer for n, or hand it on.
Asking(n) ==
    {w \in Workers : pc[w] \in {"received", "sending", "transient"} /\ job[w].n = n}

\* What the janitors are about to republish for n.
Rescuing(n) == {x \in Janitors \X Msg : x[2] \in stuck[x[1]] /\ x[2].n = n}

\* The publication that the outbox row stands for, until it is marked in a
\* transaction that can commit.
ToPublish(n) ==
    IF \/ outbox[n].status = "published"
       \/ \E r \in Relays : n \in relay[r].published
    THEN 0 ELSE 1

\* Relays whose transaction is aborted: they publish the rest of their batch,
\* and the rows stay pending all the same, for any relay to claim.
Republishing(n) == {r \in Relays : n \in relay[r].todo /\ relay[r].aborted}

\* How many more final answers the copies of n can still bring about.
Outstanding(n) ==
    ToPublish(n) + Cardinality(Republishing(n)) + Cardinality(Queued(work, n))
      + Cardinality(Queued(retry, n)) + Cardinality(Asking(n)) + Cardinality(Rescuing(n))

\* A locked row is in one transaction only, which still has to publish it, has
\* published it or has failed to, and the row is as Claim read it. A transaction
\* that has aborted locks nothing.
ClaimsAreLocks ==
    /\ \A r \in Relays :
         /\ ~relay[r].aborted => relay[r].todo \subseteq relay[r].claimed
         /\ relay[r].aborted => relay[r].claimed = {}
         /\ relay[r].published \cup relay[r].failed \subseteq relay[r].claimed
         /\ relay[r].todo \cap (relay[r].published \cup relay[r].failed) = {}
         /\ relay[r].published \cap relay[r].failed = {}
         /\ \A n \in relay[r].claimed : /\ outbox[n].status = "pending"
                                         /\ outbox[n].attempts = relay[r].attempts[n]
    /\ \A r, s \in Relays : r # s => relay[r].claimed \cap relay[s].claimed = {}

\* The inductive invariant behind DuplicatesArePaid: answers that are still to
\* come count like those already given.
CopiesArePaid ==
    /\ ClaimsAreLocks
    /\ \A n \in Notifications :
         provider[n].ok + provider[n].rejected + Outstanding(n) <= 1 + Spent

\* What the repository says and the code does not do.

\* status.go calls sent and dead_letter terminal, and the specification rules
\* out that a sent notification is ever marked retrying.
TerminalIsFinal ==
    [][\A n \in Notifications :
         row[n].status # "absent" /\ Terminal(row[n].status)
           => row'[n].status = row[n].status]_vars

-----------------------------------------------------------------------------
\* The pipeline keeps the promise of DeliveryPromise.
Phase(n) ==
    IF row[n].status = "absent" THEN "none"
    ELSE IF FinallyAnswered(n) \/ dead[n] > 0 THEN "settled"
    ELSE IF outbox[n].status = "pending" \/ Live(n) THEN "owed"
    ELSE "lost"

Promise == INSTANCE DeliveryPromise WITH
    phase      <- [n \in Notifications |-> Phase(n)],
    deliveries <- [n \in Notifications |-> provider[n].ok + provider[n].rejected]

PromiseIsKept == Promise!Spec
=============================================================================
