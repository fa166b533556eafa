------------------------------- MODULE Relay -------------------------------
(***************************************************************************)
(* The outbox relay (internal/service/outbox_relay.go): every pass claims  *)
(* pending outbox rows in a transaction, publishes them, marks them in     *)
(* that transaction and commits.                                           *)
(***************************************************************************)
EXTENDS PipelineState

Locked == UNION {relay[r].claimed : r \in Relays}

\* Mutant: a plain SELECT, without FOR UPDATE SKIP LOCKED.
ClaimableUnlocked == {n \in Notifications : outbox[n].status = "pending"}

\* FOR UPDATE SKIP LOCKED: rows claimed by another relay are passed over.
Claimable == {n \in Notifications : outbox[n].status = "pending"} \ Locked

\* The transaction that Claim opens, with the attempts of the rows as they are.
Opened(batch) ==
    [NoTx EXCEPT !.claimed = batch,
                 !.todo = batch,
                 !.attempts = [n \in Notifications |->
                                 IF n \in batch THEN outbox[n].attempts ELSE 0]]

\* OutboxRepository.Claim. ORDER BY created_at only says which rows a small
\* batch takes first; any batch is allowed here.
RelayClaim(r) ==
    /\ relay[r] = NoTx
    /\ \E batch \in SUBSET Claimable :
        /\ batch # {}
        /\ Cardinality(batch) <= RelayBatch
        /\ relay' = [relay EXCEPT ![r] = Opened(batch)]
    /\ UNCHANGED <<dbVars, queueVars, provider, workerVars, janitorVars, budget>>

\* The transaction after one turn of the loop, ok telling whether the publish
\* succeeded. Marks in an aborted transaction only fail.
AfterItem(tx, n, ok) ==
    [tx EXCEPT !.todo = @ \ {n},
               !.published = IF ok /\ ~tx.aborted THEN @ \cup {n} ELSE @,
               !.failed = IF ~ok /\ ~tx.aborted THEN @ \cup {n} ELSE @]

\* One turn of the loop: publish the item with x-attempt set to the attempts
\* that Claim read, then mark it. The loop does not look at the error of a
\* mark: it publishes the rest of the batch after an abort as well.
RelayItem(r) ==
    \E n \in relay[r].todo, p \in Publication :
        LET tx == relay[r]
            m  == [n |-> n, attempt |-> tx.attempts[n]]
        IN  /\ Suffer(FaultOf(p))
            /\ work' = PutIf(Reaches(p), work, m)
            /\ relay' = [relay EXCEPT ![r] = AfterItem(tx, n, p = "confirmed")]
            /\ UNCHANGED <<dbVars, retry, dead, provider, workerVars, janitorVars>>

\* Postgres drops the locks and the marks of a transaction as soon as it aborts;
\* the relay keeps the items it has not reached.
Aborted(tx) ==
    [NoTx EXCEPT !.todo = tx.todo, !.attempts = tx.attempts, !.aborted = TRUE]

\* A mark fails, or the transaction's connection is lost in the middle of the
\* batch.
RelayAbort(r) ==
    /\ relay[r] # NoTx
    /\ ~relay[r].aborted
    /\ Suffer({"db"})
    /\ relay' = [relay EXCEPT ![r] = Aborted(relay[r])]
    /\ UNCHANGED <<dbVars, queueVars, provider, workerVars, janitorVars>>

\* Mutant: MarkFailed takes the row out of the pending set.
MarkedAsGivenUp(tx) ==
    [n \in Notifications |->
        IF n \in tx.published \cup tx.failed
        THEN [outbox[n] EXCEPT !.status = "published"] ELSE outbox[n]]

\* The outbox after a transaction's marks: MarkFailed leaves the row pending. It
\* writes the attempts that Claim read, plus one.
Marked(tx) ==
    [n \in Notifications |->
        CASE n \in tx.published -> [outbox[n] EXCEPT !.status = "published"]
          [] n \in tx.failed    -> [outbox[n] EXCEPT
                                       !.attempts = Capped(tx.attempts[n] + 1)]
          [] OTHER              -> outbox[n]]

\* Commit, or the rollback of an aborted transaction or of a failed commit.
RelayCommit(r) ==
    /\ relay[r] # NoTx
    /\ relay[r].todo = {}
    /\ \/ /\ ~relay[r].aborted
          /\ outbox' = Marked(relay[r])
          /\ Suffer({})
       \/ /\ UNCHANGED outbox
          /\ Suffer(IF relay[r].aborted THEN {} ELSE {"db"})
    /\ relay' = [relay EXCEPT ![r] = NoTx]
    /\ UNCHANGED <<row, queueVars, provider, workerVars, janitorVars>>

\* The relay process dies: Postgres rolls its transaction back.
RelayCrash(r) ==
    /\ relay[r] # NoTx
    /\ Suffer({"crash"})
    /\ relay' = [relay EXCEPT ![r] = NoTx]
    /\ UNCHANGED <<dbVars, queueVars, provider, workerVars, janitorVars>>
=============================================================================
