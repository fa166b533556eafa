----------------------------- MODULE Submission -----------------------------
(***************************************************************************)
(* POST /v1/notifications (internal/service/submit_notification.go) with   *)
(* concurrent and repeated requests for the same event id: the Redis claim *)
(* (infrastructure/redis/dedupe.go), the read-back of a duplicate, the     *)
(* policies, and the transaction that the unique index on event_id guards. *)
(***************************************************************************)
EXTENDS Naturals

CONSTANTS
    Events,     \* event ids
    Clients,    \* clients that submit, and submit again after a failure
    EventOf,    \* the event id a client uses
    Budget      \* how often each kind of trouble may strike in one behaviour

Troubles == {"db", "redis", "expiry", "refusal", "crash"}

ASSUME SubmissionAssumption ==
    /\ EventOf \in [Clients -> Events]
    /\ Budget \in [Troubles -> Nat]

VARIABLES
    claims,     \* events whose dedupe key is in Redis
    log,        \* notification_log rows per event
    outbox,     \* notification_outbox rows per event
    pc,         \* where each client's request is in Execute
    answer,     \* the last answer each client got
    accepted,   \* 202 answers per event
    replay,     \* the event had a row when the client's request began
    budget      \* trouble that may still strike

vars == <<claims, log, outbox, pc, answer, accepted, replay, budget>>

tables == <<log, outbox>>

-----------------------------------------------------------------------------
Suffer(k) ==
    /\ budget[k] > 0
    /\ budget' = [budget EXCEPT ![k] = @ - 1]

Goto(c, next) ==
    /\ pc' = [pc EXCEPT ![c] = next]
    /\ UNCHANGED <<answer, accepted>>

\* The request of c ends with the answer a.
Answer(c, a) ==
    /\ pc' = [pc EXCEPT ![c] = "idle"]
    /\ answer' = [answer EXCEPT ![c] = a]
    /\ accepted' = IF a = "accepted"
                   THEN [accepted EXCEPT ![EventOf[c]] = @ + 1] ELSE accepted

\* A client sends its request, again if the last one was not served.
Call(c) ==
    /\ pc[c] = "idle"
    /\ answer[c] \notin {"accepted", "duplicate"}
    /\ Goto(c, "claiming")
    /\ replay' = [replay EXCEPT ![c] = log[EventOf[c]] > 0]
    /\ UNCHANGED <<claims, tables, budget>>

\* Deduper.Claim: SETNX, or fail-open when the circuit is open or Redis errs,
\* in which case the key may or may not have been set.
Claim(c) ==
    LET e == EventOf[c] IN
    /\ pc[c] = "claiming"
    /\ \/ /\ Goto(c, IF e \in claims THEN "found" ELSE "checking")
          /\ claims' = claims \cup {e}
          /\ UNCHANGED budget
       \/ /\ Goto(c, "checking")
          /\ claims' \in {claims, claims \cup {e}}
          /\ Suffer("redis")
    /\ UNCHANGED <<tables, replay>>

\* Mutant: a held claim is taken for a duplicate without reading the row.
LookupTrustsClaim(c) ==
    /\ pc[c] = "found"
    /\ Answer(c, "duplicate")
    /\ UNCHANGED <<claims, tables, replay, budget>>

\* Mutant: the read-back ends the request with the zero value of SubmitOutput.
LookupAnswersNothing(c) ==
    /\ pc[c] = "found"
    /\ Answer(c, "nothing")
    /\ UNCHANGED <<claims, tables, replay, budget>>

\* Mutant: a held claim without a row is taken for a request in progress.
LookupGivesUp(c) ==
    /\ pc[c] = "found"
    /\ Answer(c, IF log[EventOf[c]] > 0 THEN "duplicate" ELSE "error")
    /\ UNCHANGED <<claims, tables, replay, budget>>

\* GetByEventID: the row of an earlier request, or none although the claim is
\* held, and then the request goes on as a fresh one.
Lookup(c) ==
    /\ pc[c] = "found"
    /\ \/ log[EventOf[c]] > 0 /\ Answer(c, "duplicate") /\ UNCHANGED budget
       \/ log[EventOf[c]] = 0 /\ Goto(c, "checking") /\ UNCHANGED budget
       \/ Answer(c, "error") /\ Suffer("db")
    /\ UNCHANGED <<claims, tables, replay>>

\* Opt-out, rate limit, hydration, rendering and construction: any of them may
\* refuse the request, or fail. The claim is kept.
Check(c) ==
    /\ pc[c] = "checking"
    /\ \/ Goto(c, "persisting") /\ UNCHANGED budget
       \/ Answer(c, "refused") /\ Suffer("refusal")
       \/ Answer(c, "error") /\ Suffer("db")
    /\ UNCHANGED <<claims, tables, replay>>

Insert(e) ==
    /\ log' = [log EXCEPT ![e] = @ + 1]
    /\ outbox' = [outbox EXCEPT ![e] = @ + 1]

\* Mutant: no unique index on event_id.
PersistUnchecked(c) ==
    /\ pc[c] = "persisting"
    /\ Insert(EventOf[c])
    /\ Answer(c, "accepted")
    /\ UNCHANGED <<claims, replay, budget>>

\* Mutant: the insert ignores a row that is already there.
PersistIgnoresConflict(c) ==
    LET e == EventOf[c] IN
    /\ pc[c] = "persisting"
    /\ \/ log[e] = 0 /\ Insert(e) /\ Answer(c, "accepted")
       \/ log[e] > 0 /\ UNCHANGED tables /\ Answer(c, "accepted")
    /\ UNCHANGED <<claims, replay, budget>>

\* SubmitWithOutbox. The unique index refuses a second row of the event; a
\* failed transaction leaves nothing behind; the reply to a commit may be lost.
Persist(c) ==
    LET e == EventOf[c] IN
    /\ pc[c] = "persisting"
    /\ \/ log[e] = 0 /\ Insert(e) /\ Answer(c, "accepted") /\ UNCHANGED budget
       \/ log[e] > 0 /\ UNCHANGED tables /\ Answer(c, "error") /\ UNCHANGED budget
       \/ UNCHANGED tables /\ Answer(c, "error") /\ Suffer("db")
       \/ log[e] = 0 /\ Insert(e) /\ Answer(c, "error") /\ Suffer("db")
    /\ UNCHANGED <<claims, replay>>

\* The API process dies, or the client's connection does.
Crash(c) ==
    /\ pc[c] # "idle"
    /\ Suffer("crash")
    /\ Answer(c, "error")
    /\ UNCHANGED <<claims, tables, replay>>

\* DedupeTTL has passed, or Redis evicted or lost the key.
ExpireClaim(e) ==
    /\ e \in claims
    /\ Suffer("expiry")
    /\ claims' = claims \ {e}
    /\ UNCHANGED <<tables, pc, answer, accepted, replay>>

\* Every client has been served.
Done ==
    /\ \A c \in Clients : pc[c] = "idle" /\ answer[c] \in {"accepted", "duplicate"}
    /\ UNCHANGED vars

-----------------------------------------------------------------------------
Init ==
    /\ claims = {}
    /\ log = [e \in Events |-> 0]
    /\ outbox = [e \in Events |-> 0]
    /\ pc = [c \in Clients |-> "idle"]
    /\ answer = [c \in Clients |-> "none"]
    /\ accepted = [e \in Events |-> 0]
    /\ replay = [c \in Clients |-> FALSE]
    /\ budget = Budget

RequestStep(c) == Claim(c) \/ Lookup(c) \/ Check(c) \/ Persist(c)

Next ==
    \/ \E c \in Clients : Call(c) \/ RequestStep(c) \/ Crash(c)
    \/ \E e \in Events : ExpireClaim(e)
    \/ Done

Spec == Init /\ [][Next]_vars

\* A request that has begun runs to its end, and clients that were not served
\* try again.
FairSpec == Spec /\ \A c \in Clients : WF_vars(Call(c)) /\ WF_vars(RequestStep(c))

-----------------------------------------------------------------------------
TypeOK ==
    /\ claims \in SUBSET Events
    /\ log \in [Events -> Nat]
    /\ outbox \in [Events -> Nat]
    /\ pc \in [Clients -> {"idle", "claiming", "found", "checking", "persisting"}]
    /\ answer \in [Clients -> {"none", "accepted", "duplicate", "refused", "error"}]
    /\ accepted \in [Events -> Nat]
    /\ replay \in [Clients -> BOOLEAN]
    /\ budget \in [Troubles -> Nat]

\* However often an event id is submitted, at once or again, it makes at most
\* one notification, with its outbox row, and at most one client is told that
\* its request made it. (The claim is an optimisation; the index decides.)
OncePerEvent ==
    \A e \in Events : log[e] <= 1 /\ outbox[e] = log[e] /\ accepted[e] <= log[e]

\* A client that is told "accepted" or "duplicate" has a notification behind
\* the answer, whatever the dedupe key said. (The read-back of Execute.)
AnswersAreBacked ==
    \A c \in Clients : answer[c] \in {"accepted", "duplicate"} => log[EventOf[c]] > 0

\* A client that keeps trying is served in the end: no failed, refused or
\* crashed request leaves a claim behind that blocks the event.
EveryoneIsServed == \A c \in Clients : <>[](answer[c] \in {"accepted", "duplicate"})

\* What can be seen of the tables and the requests from outside.
Stored == {e \in Events : log[e] > 0}

Told == [c \in Clients |->
           CASE answer[c] = "none"                 -> "nothing"
             [] answer[c] \in {"refused", "error"} -> "failure"
             [] OTHER                              -> answer[c]]

Promise == INSTANCE SubmitPromise WITH stored <- Stored, told <- Told

\* The requests together keep the promise of SubmitPromise: from outside, each of
\* them stores its event, or finds it stored, at one moment. (Execute as a whole:
\* claim, read-back, checks and transaction.)
PromiseIsKept == Promise!Spec

\* What the repository says and the code does not do.

\* If the claim is lost but the row exists, the request is recognised as a
\* duplicate: it does not end in an error when nothing fails.
ReplayIsRecognised == \A c \in Clients : replay[c] => answer[c] # "error"
=============================================================================
