------------------------------ MODULE Janitor ------------------------------
(***************************************************************************)
(* The janitor (internal/service/rescue_stuck.go): a pass lists the rows   *)
(* that have been in_flight for too long and, for each, republishes the    *)
(* notification and then sets its status back to enqueued.                 *)
(***************************************************************************)
EXTENDS PipelineState

\* ListStuckInFlight. The attempt a row shows is the one it is republished with.
StuckRows ==
    {[n |-> n, attempt |-> row[n].attempt] :
        n \in {x \in Notifications : row[x].status = "in_flight" /\ row[x].aged}}

\* The rows are read once; the pass then works from what it read.
JanitorList(j) ==
    /\ stuck[j] = {}
    /\ rescued[j] = NoMsg
    /\ \E batch \in SUBSET StuckRows :
        /\ batch # {}
        /\ Cardinality(batch) <= JanitorBatch
        /\ stuck' = [stuck EXCEPT ![j] = batch]
    /\ Suffer({"rescue"})
    /\ UNCHANGED <<dbVars, queueVars, provider, relay, workerVars, rescued>>

\* A publish error skips the row.
JanitorPublish(j) ==
    /\ rescued[j] = NoMsg
    /\ \E m \in stuck[j], p \in Publication :
        /\ Suffer(FaultOf(p))
        /\ work' = PutIf(Reaches(p), work, m)
        /\ stuck' = [stuck EXCEPT ![j] = @ \ {m}]
        /\ rescued' = [rescued EXCEPT ![j] = IF p = "confirmed" THEN m ELSE NoMsg]
    /\ UNCHANGED <<dbVars, retry, dead, provider, relay, workerVars>>

\* The unconditional write of the status read as in_flight some time ago.
JanitorUpdate(j) ==
    /\ rescued[j] # NoMsg
    /\ UpdateStatus(rescued[j].n, "enqueued", rescued[j].attempt)
    /\ rescued' = [rescued EXCEPT ![j] = NoMsg]
    /\ UNCHANGED <<outbox, queueVars, provider, relay, workerVars, stuck>>

JanitorCrash(j) ==
    /\ stuck[j] # {} \/ rescued[j] # NoMsg
    /\ Suffer({"crash"})
    /\ stuck' = [stuck EXCEPT ![j] = {}]
    /\ rescued' = [rescued EXCEPT ![j] = NoMsg]
    /\ UNCHANGED <<dbVars, queueVars, provider, relay, workerVars>>
=============================================================================
