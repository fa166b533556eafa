--------------------------- MODULE PipelineState ---------------------------
(***************************************************************************)
(* The state that the processes of the delivery pipeline share: the two    *)
(* Postgres tables, the three RabbitMQ queues of a channel, the provider's *)
(* ledger, and the local state of every relay, worker slot and janitor.    *)
(* One notification channel is modelled: the channels share nothing but    *)
(* the tables, whose rows they partition.                                  *)
(***************************************************************************)
EXTENDS Naturals, FiniteSets, NotificationStatus

CONSTANTS
    Notifications,  \* ids of the notifications that clients may submit
    Relays,         \* outbox-relay replicas
    Workers,        \* concurrent handler slots (Concurrency x worker replicas)
    Janitors,       \* janitor replicas
    MaxRetries,     \* ProcessNotificationConfig.MaxRetries
    ScheduleLen,    \* len(BackoffSchedule)
    RelayBatch,     \* RelayConfig.BatchSize
    JanitorBatch,   \* RescueStuckConfig.BatchSize
    FaultBudget,    \* how often each kind of fault may strike in one behaviour
    NoMsg           \* the job of an idle worker slot

FaultKinds == {"crash", "connection", "db", "publish", "answer", "rescue"}

\* Publisher.Retry parks a message once its attempt reaches either bound.
RetryLimit == IF MaxRetries < ScheduleLen THEN MaxRetries ELSE ScheduleLen

\* x-attempt is only compared with RetryLimit and incremented below it, so the
\* values from RetryLimit on are one value here.
Attempts == 0..RetryLimit

Capped(a) == IF a < RetryLimit THEN a ELSE RetryLimit

\* A queued message: the notification in its body and its x-attempt header.
Msg == [n : Notifications, attempt : Attempts]

ASSUME PipelineAssumption ==
    /\ MaxRetries \in Nat
    /\ ScheduleLen \in Nat
    /\ RelayBatch \in Nat \ {0}
    /\ JanitorBatch \in Nat \ {0}
    /\ FaultBudget \in [FaultKinds -> Nat]
    /\ NoMsg \notin Msg

VARIABLES
    row,       \* notification_log: status, attempt, older than StuckThreshold
    outbox,    \* notification_outbox: status and publish attempts
    work,      \* notifications.<channel>: how many copies of each message
    retry,     \* notifications.<channel>.retry, messages waiting for their TTL
    dead,      \* notifications.<channel>.dead: how many per notification
    provider,  \* what the provider answered, per notification
    relay,     \* the open transaction of each relay
    pc,        \* where each worker slot is in handle / Execute
    job,       \* the message each worker slot handles
    owned,     \* the broker still holds the slot's delivery as unacked
    stuck,     \* rows read by each janitor's pass and not yet rescued
    rescued,   \* the row a janitor republished and has not yet updated
    budget     \* faults that may still strike

dbVars      == <<row, outbox>>
queueVars   == <<work, retry, dead>>
workerVars  == <<pc, job, owned>>
janitorVars == <<stuck, rescued>>
vars == <<dbVars, queueVars, provider, relay, workerVars, janitorVars, budget>>

-----------------------------------------------------------------------------
\* Types

Row == [status : Status \cup {"absent"}, attempt : Attempts, aged : BOOLEAN]

Absent == [status |-> "absent", attempt |-> 0, aged |-> FALSE]

OutboxRow == [status : {"absent", "pending", "published"}, attempts : Attempts]

Ledger == [ok : Nat, transient : Nat, rejected : Nat]

Tx == [claimed   : SUBSET Notifications,   \* rows it locks FOR UPDATE
       attempts  : [Notifications -> Attempts],  \* of its items, as claimed
       todo      : SUBSET Notifications,   \* items the loop has not reached
       published : SUBSET Notifications,   \* MarkPublished in this transaction
       failed    : SUBSET Notifications,   \* MarkFailed in this transaction
       aborted   : BOOLEAN]                \* only rollback

NoTx == [claimed |-> {}, attempts |-> [n \in Notifications |-> 0],
         todo |-> {}, published |-> {}, failed |-> {}, aborted |-> FALSE]

PC == {"idle", "received", "sending", "sent", "transient", "retried",
       "exhausted", "rejected", "parking", "acking"}

-----------------------------------------------------------------------------
\* Faults

\* The step is struck by the faults in S, each of which must be left in the
\* budget.
Suffer(S) ==
    /\ \A k \in S : budget[k] > 0
    /\ budget' = [k \in FaultKinds |->
                    IF k \in S THEN budget[k] - 1 ELSE budget[k]]

\* publishRaw returns nil only for a confirmed message. An error says nothing:
\* the message may be lost or may sit in the queue unconfirmed.
Publication == {"confirmed", "unconfirmed", "lost"}

Reaches(p) == p # "lost"

FaultOf(p) == IF p = "confirmed" THEN {} ELSE {"publish"}

-----------------------------------------------------------------------------
\* Queues and rows

Put(q, m) == [q EXCEPT ![m] = @ + 1]

Take(q, m) == [q EXCEPT ![m] = @ - 1]

PutIf(cond, q, m) == IF cond THEN Put(q, m) ELSE q

Holds(q, n) == \E a \in Attempts : q[[n |-> n, attempt |-> a]] > 0

\* NotificationRepository.UpdateStatus: an UPDATE by id, whatever the row says.
\* Its error is only logged by every caller.
UpdateStatus(n, status, attempt) ==
    \/ /\ row' = [row EXCEPT ![n] = [status  |-> status,
                                     attempt |-> attempt,
                                     aged    |-> FALSE]]
       /\ Suffer({})
    \/ /\ Suffer({"db"})
       /\ UNCHANGED row
=============================================================================
