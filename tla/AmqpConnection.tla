-------------------------- MODULE AmqpConnection --------------------------
(***************************************************************************)
(* The managed AMQP connection of one process                              *)
(* (infrastructure/rabbitmq/topology.go): Dial and its supervisor, the     *)
(* redeclaration of the topology after a redial, Close, and the two users  *)
(* of the connection, the confirm-mode publisher and the consume loop of a *)
(* worker. Connections are numbered in the order they were dialled. The    *)
(* backoff between two dials has no duration here.                         *)
(***************************************************************************)
EXTENDS Naturals, FiniteSets

CONSTANTS
    Losses,     \* bound: how many single connections the network breaks
    Outages,    \* bound: how often the broker goes down
    Refusals,   \* bound: declarations that fail on a living connection
    Publishes   \* bound: publishes that reach the broker

ASSUME ConnectionAssumption ==
    {Losses, Outages, Refusals, Publishes} \subseteq Nat

\* declareTopology declares the exchange, then the queues, then the binding.
Exchange == 1
Queues == 2
Bound == 3

VARIABLES
    up,         \* the broker answers
    topology,   \* what the broker has declared, 0 to Bound
    opened,     \* connections that are alive
    dials,      \* connections dialled so far
    current,    \* Conn.conn, 0 while it is nil
    channels,   \* Conn.channels has been set
    closing,    \* Conn.closed has been closed
    byClose,    \* the connection that Close closed, 0 if none
    main,       \* where the process is: Dial, Setup, the running loops, Close
    sup,        \* where the supervisor is
    setupOn,    \* the connection of Setup's channel, 0 if it has none yet
    declared,   \* how far declareTopology has come, per goroutine running it
    missed,     \* the supervisor registered for a connection already dead
    pub, pch,   \* the publisher, and the connection its channel belongs to
    con,        \* the connection of the consume channel, 0 if there is none
    faults      \* how much of each bound is used up

connVars == <<current, channels, closing, byClose>>
userVars == <<pub, pch, con>>
vars == <<up, topology, opened, dials, connVars, main, sup, setupOn, declared, missed,
          userVars, faults>>

\* Conn.Channel opens a channel; otherwise it returns ErrNotReady or an error.
Channel == current \in opened

Count(kind) == faults' = [faults EXCEPT ![kind] = @ + 1]

\* Mutant: what exists is declared once more.
DeclareAnother(who) ==
    /\ declared' = [declared EXCEPT ![who] = @ + 1]
    /\ topology' = topology + 1

\* One declaration reaches the broker; declarations are idempotent.
Declare(who) ==
    /\ declared' = [declared EXCEPT ![who] = @ + 1]
    /\ topology' = IF topology < declared'[who] THEN declared'[who] ELSE topology

\* declareTopology returns an error: its connection is gone, or the broker
\* refuses a declaration and closes the channel.
DeclareFails(connection) ==
    \/ connection \notin opened /\ UNCHANGED faults
    \/ faults.refusals < Refusals /\ Count("refusals")

-----------------------------------------------------------------------------
\* The process: Dial, Setup, run, Close

\* connect: a new connection becomes the current one.
Connect ==
    /\ up
    /\ dials' = dials + 1
    /\ opened' = opened \cup {dials + 1}
    /\ current' = dials + 1

\* A process that cannot dial exits and is started again.
Dial ==
    /\ main = "start"
    /\ Connect
    /\ main' = "dialled"
    /\ sup' = "register"
    /\ UNCHANGED <<up, topology, channels, closing, byClose, setupOn, declared, missed,
                   userVars, faults>>

\* Setup first remembers the channels for the supervisor.
Setup ==
    /\ main = "dialled"
    /\ channels' = TRUE
    /\ main' = "setup"
    /\ UNCHANGED <<up, topology, opened, dials, current, closing, byClose, sup, setupOn,
                   declared, missed, userVars, faults>>

\* declareTopology then opens a channel on the connection that is current by
\* now, which may be a redialled one; on an error run returns, and its deferred
\* Close follows.
OpenSetupChannel ==
    /\ main = "setup"
    /\ IF Channel
         THEN main' = "declaring" /\ setupOn' = current
         ELSE main' = "stopped" /\ UNCHANGED setupOn
    /\ UNCHANGED <<up, topology, opened, dials, connVars, sup, declared, missed, userVars,
                   faults>>

\* The declarations on that channel, which is closed however they end.
SetupDeclares ==
    /\ main = "declaring"
    /\ \/ /\ setupOn \in opened
          /\ Declare("main")
          /\ main' = IF declared'.main = Bound THEN "running" ELSE "declaring"
          /\ UNCHANGED faults
       \/ /\ DeclareFails(setupOn)
          /\ main' = "stopped"
          /\ UNCHANGED <<declared, topology>>
    /\ setupOn' = IF main' = "declaring" THEN setupOn ELSE 0
    /\ UNCHANGED <<up, opened, dials, connVars, sup, missed, userVars>>

\* SIGTERM: Consumer.Run waits for its handlers and returns.
Stop ==
    /\ main = "running"
    /\ pub = "idle"
    /\ main' = "stopped"
    /\ con' = 0
    /\ UNCHANGED <<up, topology, opened, dials, connVars, sup, setupOn, declared, missed,
                   pub, pch, faults>>

\* Close: first the closed channel, then, under the lock, the connection.
Close ==
    \/ /\ main = "stopped"
       /\ main' = "closing"
       /\ closing' = TRUE
       /\ UNCHANGED <<opened, byClose>>
    \/ /\ main = "closing"
       /\ main' = "closed"
       /\ opened' = opened \ {current}
       /\ byClose' = IF Channel THEN current ELSE 0
       /\ UNCHANGED closing

CloseStep ==
    /\ Close
    /\ UNCHANGED <<up, topology, dials, current, channels, sup, setupOn, declared, missed,
                   userVars, faults>>

-----------------------------------------------------------------------------
\* The supervisor

\* supervise asks for the close notification of the current connection. The
\* library closes the receiver at once when that connection is already dead,
\* which supervise takes for a graceful close.
Register ==
    /\ sup = "register"
    /\ sup' = IF Channel THEN "watching" ELSE "returned"
    /\ missed' = (missed \/ (~Channel /\ ~closing))

\* Mutant: supervise waits for the connection only.
WatchConnectionOnly ==
    /\ sup = "watching"
    /\ ~Channel
    /\ sup' = IF byClose = current THEN "returned" ELSE "redial"
    /\ UNCHANGED missed

\* Mutant: supervise watches the channel of Setup, which Setup closes.
WatchSetupChannel ==
    /\ sup = "watching"
    /\ IF closing THEN sup' = "returned" ELSE main = "running" /\ sup' = "redial"
    /\ UNCHANGED missed

\* The select of supervise.
Watch ==
    /\ sup = "watching"
    /\ \/ /\ closing
          /\ sup' = "returned"
       \/ /\ ~Channel
          /\ sup' = IF byClose = current THEN "returned" ELSE "redial"
    /\ UNCHANGED missed

\* The head of the loop of reconnectWithBackoff.
CheckClosed ==
    /\ sup = "redial"
    /\ sup' = IF closing THEN "returned" ELSE "dialling"
    /\ UNCHANGED missed

Observe ==
    /\ Register \/ Watch \/ CheckClosed
    /\ UNCHANGED <<up, topology, opened, dials, connVars, main, setupOn, declared,
                   userVars, faults>>

\* Mutant: the first failed dial ends the supervisor.
RedialOnce ==
    /\ sup = "dialling"
    /\ \/ /\ Connect
          /\ sup' = "connected"
       \/ /\ ~up
          /\ sup' = "returned"
          /\ UNCHANGED <<opened, dials, current>>
    /\ UNCHANGED declared

\* connect in reconnectWithBackoff: a failed dial is tried again.
Redial ==
    /\ sup = "dialling"
    /\ \/ /\ Connect
          /\ sup' = "connected"
       \/ /\ ~up
          /\ sup' = "redial"
          /\ UNCHANGED <<opened, dials, current>>
    /\ UNCHANGED declared

\* Mutant: the remembered channels are not looked at.
ForgetChannels ==
    /\ sup = "connected"
    /\ sup' = "register"
    /\ UNCHANGED <<opened, dials, current, declared>>

\* Without remembered channels there is nothing to declare yet: Setup, which has
\* not begun, finds the new connection.
ReadChannels ==
    /\ sup = "connected"
    /\ sup' = IF channels THEN "declaring" ELSE "register"
    /\ declared' = [declared EXCEPT !.sup = 0]
    /\ UNCHANGED <<opened, dials, current>>

RedialStep ==
    /\ Redial \/ ReadChannels
    /\ UNCHANGED <<up, topology, channels, closing, byClose, main, setupOn, missed,
                   userVars, faults>>

\* declareTopology after a redial. When it fails, the loop dials again and does
\* not close the connection it has.
Redeclare ==
    /\ sup = "declaring"
    /\ \/ /\ Channel
          /\ Declare("sup")
          /\ sup' = IF declared'.sup = Bound THEN "register" ELSE "declaring"
          /\ UNCHANGED faults
       \/ /\ DeclareFails(current)
          /\ sup' = "redial"
          /\ UNCHANGED <<declared, topology>>

RedeclareStep ==
    /\ Redeclare
    /\ UNCHANGED <<up, opened, dials, connVars, main, setupOn, missed, userVars>>

Supervise == Observe \/ RedialStep \/ RedeclareStep

-----------------------------------------------------------------------------
\* The publisher

\* ensureChannelLocked: the channel is used as long as its own connection
\* lives, which need not be the current one.
EnsureChannel ==
    /\ main = "running"
    /\ pub = "idle"
    /\ faults.publishes < Publishes
    /\ \/ pch \in opened /\ UNCHANGED pch
       \/ pch \notin opened /\ Channel /\ pch' = current
    /\ pub' = "ready"
    /\ UNCHANGED faults

\* What the broker does with a message to the exchange, or straight to a queue.
\* No message is mandatory: one that no queue takes is confirmed and dropped.
Verdict(target) ==
    CASE target = "exchange" /\ topology < Exchange -> "refused"
      [] target = "exchange" /\ topology \in Exchange .. Bound - 1 -> "dropped"
      [] target = "queue" /\ topology < Queues -> "dropped"
      [] OTHER -> "stored"

\* A refusal closes the channel, and the next publish opens another.
PublishTo(target) ==
    /\ pub = "ready"
    /\ Count("publishes")
    /\ IF pch \notin opened \/ Verdict(target) = "refused"
         THEN pub' = "idle" /\ pch' = 0
         ELSE pub' = Verdict(target) /\ UNCHANGED pch

\* The confirm, or an error when the connection dies before it comes.
Confirmed ==
    /\ pub \in {"stored", "dropped"}
    /\ pub' = "idle"
    /\ UNCHANGED <<pch, faults>>

Publish ==
    /\ EnsureChannel \/ (\E target \in {"exchange", "queue"} : PublishTo(target)) \/ Confirmed
    /\ UNCHANGED <<up, topology, opened, dials, connVars, main, sup, setupOn, declared,
                   missed, con>>

-----------------------------------------------------------------------------
\* The consume loop

\* runOnce opens a channel and consumes from the work queue; an error leaves
\* the loop in AfterReconnect, which lets it try again.
Subscribe ==
    /\ con = 0
    /\ Channel
    /\ topology >= Queues
    /\ con' = current

\* The deliveries channel is closed: runOnce waits for its handlers and ends.
DeliveriesEnd ==
    /\ con \notin opened \cup {0}
    /\ con' = 0

Consume ==
    /\ main = "running"
    /\ Subscribe \/ DeliveriesEnd
    /\ UNCHANGED <<up, topology, opened, dials, connVars, main, sup, setupOn, declared,
                   missed, pub, pch, faults>>

-----------------------------------------------------------------------------
\* The broker and the network

Lose ==
    /\ faults.losses < Losses
    /\ Count("losses")
    /\ \E c \in opened : opened' = opened \ {c}
    /\ UNCHANGED <<up, topology, dials, connVars, main, sup, setupOn, declared, missed,
                   userVars>>

\* The broker goes down, and may come back without what was declared.
Down ==
    /\ up
    /\ faults.outages < Outages
    /\ Count("outages")
    /\ up' = FALSE
    /\ opened' = {}
    /\ topology' \in {topology, 0}
    /\ UNCHANGED <<dials, connVars, main, sup, setupOn, declared, missed, userVars>>

Up ==
    /\ ~up
    /\ up' = TRUE
    /\ UNCHANGED <<topology, opened, dials, connVars, main, sup, setupOn, declared,
                   missed, userVars, faults>>

\* The process has exited.
Exited ==
    /\ main = "closed"
    /\ sup = "returned"
    /\ UNCHANGED vars

Init ==
    /\ up = TRUE
    /\ topology = 0
    /\ opened = {}
    /\ dials = 0
    /\ current = 0
    /\ channels = FALSE
    /\ closing = FALSE
    /\ byClose = 0
    /\ main = "start"
    /\ sup = "unborn"
    /\ setupOn = 0
    /\ declared = [main |-> 0, sup |-> 0]
    /\ missed = FALSE
    /\ pub = "idle"
    /\ pch = 0
    /\ con = 0
    /\ faults = [losses |-> 0, outages |-> 0, refusals |-> 0, publishes |-> 0]

Next ==
    \/ Dial \/ Setup \/ OpenSetupChannel \/ SetupDeclares \/ Stop \/ CloseStep
    \/ Supervise
    \/ Publish
    \/ Consume
    \/ Lose \/ Down \/ Up
    \/ Exited

Spec == Init /\ [][Next]_vars

\* Goroutines that can run do run, and the broker is started again after an
\* outage. Nothing says that the process ever stops.
Fairness ==
    /\ WF_vars(Dial) /\ WF_vars(Setup) /\ WF_vars(OpenSetupChannel)
    /\ WF_vars(SetupDeclares) /\ WF_vars(CloseStep)
    /\ WF_vars(Supervise)
    /\ WF_vars(Publish)
    /\ WF_vars(Consume)
    /\ WF_vars(Up)

FairSpec == Spec /\ Fairness

-----------------------------------------------------------------------------
TypeOK ==
    /\ up \in BOOLEAN
    /\ topology \in 0..Bound
    /\ opened \in SUBSET (1..dials)
    /\ dials \in Nat
    /\ current = dials
    /\ channels \in BOOLEAN
    /\ closing \in BOOLEAN
    /\ byClose \in 0..dials
    /\ main \in {"start", "dialled", "setup", "declaring", "running", "stopped", "closing",
                "closed"}
    /\ sup \in {"unborn", "register", "watching", "redial", "dialling", "connected",
               "declaring", "returned"}
    /\ setupOn \in 0..dials
    /\ declared \in [{"main", "sup"} -> 0..Bound]
    /\ missed \in BOOLEAN
    /\ pub \in {"idle", "ready", "stored", "dropped"}
    /\ pch \in 0..dials
    /\ con \in 0..dials
    /\ faults \in [{"losses", "outages", "refusals", "publishes"} -> Nat]

\* A connection that the process no longer knows stays open only for a
\* redeclaration that failed: nothing else leaks one.
\* (reconnectWithBackoff, Close)
ConnectionsArePaid == Cardinality(opened) <= 1 + faults.refusals

\* The supervisor knows of a loss and has not yet brought the topology back.
Redeclaring == {"redial", "dialling", "connected", "declaring"}

\* A publish that the broker confirms and drops happens only while the
\* supervisor is still redeclaring what the broker has lost, on a connection
\* that users already get. (connect before declareTopology)
DropsWhileRedeclaring ==
    [][pub = "ready" /\ pub' = "dropped" => sup \in Redeclaring]_vars

\* Only Close ends the supervisor, or a connection that died before supervise
\* could watch it: no failed dial, refused declaration or later loss does.
\* (supervise, reconnectWithBackoff)
SupervisorStays == sup = "returned" => closing \/ missed

\* A worker that goes on running consumes again after every failure, unless
\* its connection died before supervise could watch it.
\* (supervise, Consumer.Run)
ConsumesAgain ==
    main = "running" ~> \/ con # 0 /\ con \in opened
                        \/ missed
                        \/ main # "running"

\* Close ends the supervisor, wherever it is. (Close, reconnectWithBackoff)
CloseEndsSupervisor == closing ~> sup = "returned"

\* What topology.go says of Dial: "Even if the broker drops afterwards, Conn
\* will redial without caller action."
RedialsByItself ==
    main = "running" ~> \/ con # 0 /\ con \in opened
                        \/ main # "running"
=============================================================================
