-------------------------- MODULE SubmissionProofs --------------------------
(***************************************************************************)
(* Submission is idempotent for any number of clients and events and       *)
(* whatever fails: one notification per event id, one "accepted" answer,   *)
(* and a notification behind every "accepted" and "duplicate". The three   *)
(* invariants are inductive together: the answers only add up because      *)
(* Persist looks at the row count, and rows never go away. From them,      *)
(* every step of a request is a step of SubmitPromise or is not seen.      *)
(***************************************************************************)
EXTENDS Submission, TLAPS

Inv == TypeOK /\ OncePerEvent /\ AnswersAreBacked

\* A step that leaves the tables alone and answers no client "accepted" or, of
\* an event without a row, "duplicate" keeps the invariants.
LEMMA TablesUntouched ==
    ASSUME Inv, NEW c \in Clients, UNCHANGED tables,
           \/ \E next \in {"claiming", "found", "checking", "persisting"} : Goto(c, next)
           \/ \E a \in {"refused", "error"} : Answer(c, a)
           \/ log[EventOf[c]] > 0 /\ Answer(c, "duplicate")
    PROVE  /\ OncePerEvent' /\ AnswersAreBacked'
           /\ pc' \in [Clients -> {"idle", "claiming", "found", "checking", "persisting"}]
           /\ answer' \in [Clients -> {"none", "accepted", "duplicate", "refused", "error"}]
           /\ accepted' \in [Events -> Nat]
BY SubmissionAssumption
   DEF Inv, TypeOK, OncePerEvent, AnswersAreBacked, Goto, Answer, tables

\* The first row of an event may be answered "accepted", or the answer lost.
LEMMA FirstRow ==
    ASSUME Inv, NEW c \in Clients, log[EventOf[c]] = 0, Insert(EventOf[c]),
           Answer(c, "accepted") \/ Answer(c, "error")
    PROVE  /\ OncePerEvent' /\ AnswersAreBacked'
           /\ log' \in [Events -> Nat]
           /\ outbox' \in [Events -> Nat]
           /\ pc' \in [Clients -> {"idle", "claiming", "found", "checking", "persisting"}]
           /\ answer' \in [Clients -> {"none", "accepted", "duplicate", "refused", "error"}]
           /\ accepted' \in [Events -> Nat]
<1> DEFINE e == EventOf[c]
<1>1. e \in Events /\ log[e] = 0 /\ outbox[e] = 0 /\ accepted[e] = 0
  BY SubmissionAssumption DEF Inv, TypeOK, OncePerEvent
<1>2. /\ log' \in [Events -> Nat] /\ outbox' \in [Events -> Nat]
      /\ log'[e] = 1 /\ outbox'[e] = 1
      /\ \A x \in Events : x # e => log'[x] = log[x] /\ outbox'[x] = outbox[x]
  BY <1>1 DEF Insert, Inv, TypeOK
<1>3. /\ accepted' \in [Events -> Nat]
      /\ accepted'[e] <= 1
      /\ \A x \in Events : x # e => accepted'[x] = accepted[x]
  BY <1>1 DEF Answer, Inv, TypeOK
<1>4. OncePerEvent'
  BY <1>1, <1>2, <1>3 DEF Inv, OncePerEvent
<1>5. \A x \in Events : log[x] > 0 => log'[x] > 0
  BY <1>1, <1>2
<1>6. AnswersAreBacked'
  BY <1>1, <1>2, <1>5, SubmissionAssumption DEF Answer, Inv, TypeOK, AnswersAreBacked
<1>7. QED
  BY <1>2, <1>3, <1>4, <1>6 DEF Answer, Inv, TypeOK

\* Trouble is paid from the budget, which stays a natural number.
LEMMA SufferType ==
    ASSUME Inv, NEW k \in Troubles, Suffer(k)
    PROVE  budget' \in [Troubles -> Nat]
BY DEF Inv, TypeOK, Suffer

\* Every step of every request, and every mishap, keeps the invariant: only
\* Persist writes rows, and only where the unique index finds none.
LEMMA InvStays == Inv /\ [Next]_vars => Inv'
<1> SUFFICES ASSUME Inv, [Next]_vars
             PROVE  Inv'
  OBVIOUS
<1>1. ASSUME NEW c \in Clients, Call(c)
      PROVE  Inv'
  <2>1. replay' \in [Clients -> BOOLEAN]
    BY <1>1, SubmissionAssumption DEF Call, Inv, TypeOK
  <2>2. Goto(c, "claiming") /\ UNCHANGED tables
    BY <1>1 DEF Call
  <2>3. QED
    BY <1>1, <2>1, <2>2, TablesUntouched DEF Call, Inv, TypeOK, tables
<1>2. ASSUME NEW c \in Clients, Claim(c)
      PROVE  Inv'
  <2>1. claims' \in SUBSET Events
    BY <1>2, SubmissionAssumption DEF Claim, Inv, TypeOK
  <2>2. budget' \in [Troubles -> Nat]
    BY <1>2, SufferType DEF Claim, Inv, TypeOK, Troubles
  <2>3. /\ UNCHANGED <<tables, replay>>
        /\ Goto(c, "found") \/ Goto(c, "checking")
    BY <1>2 DEF Claim
  <2>4. QED
    BY <2>1, <2>2, <2>3, TablesUntouched DEF Inv, TypeOK, tables
<1>3. ASSUME NEW c \in Clients, Lookup(c)
      PROVE  Inv'
  <2>1. budget' \in [Troubles -> Nat]
    BY <1>3, SufferType DEF Lookup, Inv, TypeOK, Troubles
  <2>2. /\ UNCHANGED <<claims, tables, replay>>
        /\ \/ log[EventOf[c]] > 0 /\ Answer(c, "duplicate")
           \/ Goto(c, "checking")
           \/ Answer(c, "error")
    BY <1>3 DEF Lookup
  <2>3. QED
    BY <2>1, <2>2, TablesUntouched DEF Inv, TypeOK, tables
<1>4. ASSUME NEW c \in Clients, Check(c)
      PROVE  Inv'
  <2>1. budget' \in [Troubles -> Nat]
    BY <1>4, SufferType DEF Check, Inv, TypeOK, Troubles
  <2>2. /\ UNCHANGED <<claims, tables, replay>>
        /\ Goto(c, "persisting") \/ Answer(c, "refused") \/ Answer(c, "error")
    BY <1>4 DEF Check
  <2>3. QED
    BY <2>1, <2>2, TablesUntouched DEF Inv, TypeOK, tables
<1>5. ASSUME NEW c \in Clients, Persist(c)
      PROVE  Inv'
  <2>1. budget' \in [Troubles -> Nat]
    BY <1>5, SufferType DEF Persist, Inv, TypeOK, Troubles
  <2>2. UNCHANGED <<claims, replay>>
    BY <1>5 DEF Persist
  <2>3. CASE UNCHANGED tables /\ Answer(c, "error")
    BY <2>1, <2>2, <2>3, TablesUntouched DEF Inv, TypeOK, tables
  <2>4. CASE /\ log[EventOf[c]] = 0 /\ Insert(EventOf[c])
             /\ Answer(c, "accepted") \/ Answer(c, "error")
    BY <2>1, <2>2, <2>4, FirstRow DEF Inv, TypeOK
  <2>5. QED
    BY <1>5, <2>3, <2>4 DEF Persist
<1>6. ASSUME NEW c \in Clients, Crash(c)
      PROVE  Inv'
  <2>1. budget' \in [Troubles -> Nat]
    BY <1>6, SufferType DEF Crash, Troubles
  <2>2. QED
    BY <1>6, <2>1, TablesUntouched DEF Crash, Inv, TypeOK, tables
<1>7. ASSUME NEW e \in Events, ExpireClaim(e)
      PROVE  Inv'
  <2>1. budget' \in [Troubles -> Nat]
    BY <1>7, SufferType DEF ExpireClaim, Troubles
  <2>2. QED
    BY <1>7, <2>1
       DEF ExpireClaim, Inv, TypeOK, OncePerEvent, AnswersAreBacked, tables
<1>8. CASE Done \/ UNCHANGED vars
  BY <1>8 DEF Done, vars, tables, Inv, TypeOK, OncePerEvent, AnswersAreBacked
<1>9. QED
  BY <1>1, <1>2, <1>3, <1>4, <1>5, <1>6, <1>7, <1>8 DEF Next, RequestStep

\* The three invariants hold in every behaviour.
THEOREM SubmissionInvariant == Spec => []Inv
<1>1. Init => Inv
  BY SubmissionAssumption DEF Init, Inv, TypeOK, OncePerEvent, AnswersAreBacked
<1>2. QED
  BY <1>1, InvStays, PTL DEF Spec

\* The tables, the answers and the places of the requests keep their types.
THEOREM SubmissionTypes == Spec => []TypeOK
<1>1. Inv => TypeOK
  BY DEF Inv
<1>2. QED
  BY <1>1, SubmissionInvariant, PTL

\* An event id makes at most one notification, with its outbox row, and at most
\* one "accepted" answer. (Execute over the unique index of notification_log.)
THEOREM SubmitIsIdempotent == Spec => []OncePerEvent
<1>1. Inv => OncePerEvent
  BY DEF Inv
<1>2. QED
  BY <1>1, SubmissionInvariant, PTL

\* Whatever the dedupe key says, no client is told of a notification that does
\* not exist. (The read-back by GetByEventID.)
THEOREM AnswersAreTrue == Spec => []AnswersAreBacked
<1>1. Inv => AnswersAreBacked
  BY DEF Inv
<1>2. QED
  BY <1>1, SubmissionInvariant, PTL
-----------------------------------------------------------------------------
\* The promise to the clients

\* A client with a request under way has not been served.
Asking == \A c \in Clients : pc[c] # "idle" => answer[c] \notin {"accepted", "duplicate"}

\* Only Call starts a request, and only of a client that was not served.
LEMMA AskingStays == Inv /\ Asking /\ [Next]_vars => Asking'
<1> SUFFICES ASSUME Inv, Asking, [Next]_vars
             PROVE  Asking'
  OBVIOUS
<1>1. /\ pc \in [Clients -> {"idle", "claiming", "found", "checking", "persisting"}]
      /\ answer \in [Clients -> {"none", "accepted", "duplicate", "refused", "error"}]
  BY DEF Inv, TypeOK
<1>2. ASSUME NEW c \in Clients, NEW next, Goto(c, next),
             answer[c] \notin {"accepted", "duplicate"}
      PROVE  Asking'
  BY <1>1, <1>2 DEF Goto, Asking
<1>3. ASSUME NEW c \in Clients, NEW a, Answer(c, a)
      PROVE  Asking'
  BY <1>1, <1>3 DEF Answer, Asking
<1>4. ASSUME NEW c \in Clients, Call(c) \/ RequestStep(c) \/ Crash(c)
      PROVE  Asking'
  <2>1. /\ answer[c] \notin {"accepted", "duplicate"}
        /\ \/ \E next \in {"claiming", "found", "checking", "persisting"} : Goto(c, next)
           \/ \E a \in {"accepted", "duplicate", "refused", "error"} : Answer(c, a)
    BY <1>4 DEF Call, RequestStep, Claim, Lookup, Check, Persist, Crash, Asking
  <2>2. QED
    BY <1>2, <1>3, <2>1
<1>5. CASE UNCHANGED <<pc, answer>>
  BY <1>5 DEF Asking
<1>6. QED
  BY <1>4, <1>5 DEF Next, ExpireClaim, Done, vars

\* An answer is told to its client alone.
LEMMA AnswerIsTold ==
    ASSUME Inv, Asking, NEW c \in Clients, pc[c] # "idle", NEW a, Answer(c, a)
    PROVE  /\ a \in {"accepted", "duplicate"} => Promise!Tell(c, a)
           /\ a \in {"refused", "error"} => Promise!Tell(c, "failure")
<1>1. answer \in [Clients -> {"none", "accepted", "duplicate", "refused", "error"}]
      /\ answer' = [answer EXCEPT ![c] = a]
  BY DEF Inv, TypeOK, Answer
<1>2. ~Promise!Served(c)
  BY <1>1 DEF Asking, Told, Promise!Served
<1>3. ASSUME a \in {"accepted", "duplicate"}
      PROVE  Told' = [Told EXCEPT ![c] = a]
  BY <1>1, <1>3 DEF Told
<1>4. ASSUME a \in {"refused", "error"}
      PROVE  Told' = [Told EXCEPT ![c] = "failure"]
  BY <1>1, <1>4 DEF Told
<1>5. QED
  BY <1>2, <1>3, <1>4 DEF Promise!Tell

\* A request that neither answers nor writes rows is not seen.
LEMMA UnseenStep ==
    ASSUME UNCHANGED <<log, answer>>
    PROVE  UNCHANGED Promise!vars
BY DEF Promise!vars, Stored, Told

\* A request that fails, or finds its event stored, while the rows stay.
LEMMA AnsweredStep ==
    ASSUME Inv, Asking, NEW c \in Clients, pc[c] # "idle", UNCHANGED tables,
           \/ \E a \in {"refused", "error"} : Answer(c, a)
           \/ log[EventOf[c]] > 0 /\ Answer(c, "duplicate")
    PROVE  Promise!Next
<1>1. UNCHANGED Stored
  BY DEF tables, Stored
<1>2. CASE \E a \in {"refused", "error"} : Answer(c, a)
  <2>1. Promise!Fail(c)
    BY <1>1, <1>2, AnswerIsTold DEF Promise!Fail
  <2>2. QED
    BY <2>1 DEF Promise!Next
<1>3. CASE log[EventOf[c]] > 0 /\ Answer(c, "duplicate")
  <2>1. EventOf[c] \in Stored
    BY <1>3, SubmissionAssumption DEF Stored
  <2>2. Promise!Repeat(c)
    BY <1>1, <1>3, <2>1, AnswerIsTold DEF Promise!Repeat
  <2>3. QED
    BY <2>2 DEF Promise!Next, Promise!Serve
<1>4. QED
  BY <1>2, <1>3

\* The transaction that writes the rows is the moment at which the event is stored.
LEMMA StoringStep ==
    ASSUME Inv, Asking, NEW c \in Clients, pc[c] # "idle",
           log[EventOf[c]] = 0, Insert(EventOf[c]),
           Answer(c, "accepted") \/ Answer(c, "error")
    PROVE  Promise!Next
<1>1. EventOf[c] \in Events /\ log \in [Events -> Nat]
  BY SubmissionAssumption DEF Inv, TypeOK
<1>2. Promise!Store(c)
  <2>1. log' = [log EXCEPT ![EventOf[c]] = 1]
    BY <1>1 DEF Insert
  <2>2. QED
    BY <1>1, <2>1 DEF Promise!Store, Stored
<1>3. CASE Answer(c, "accepted")
  <2>1. Promise!Accept(c)
    BY <1>2, <1>3, AnswerIsTold DEF Promise!Accept
  <2>2. QED
    BY <2>1 DEF Promise!Next, Promise!Serve
<1>4. CASE Answer(c, "error")
  <2>1. Promise!AcceptUnheard(c)
    BY <1>2, <1>4, AnswerIsTold DEF Promise!AcceptUnheard
  <2>2. QED
    BY <2>1 DEF Promise!Next
<1>5. QED
  BY <1>3, <1>4

\* Every step of a request is a step of the promise or is not seen.
LEMMA PromiseStep == Inv /\ Asking /\ [Next]_vars => [Promise!Next]_Promise!vars
<1> SUFFICES ASSUME Inv, Asking, [Next]_vars
             PROVE  [Promise!Next]_Promise!vars
  OBVIOUS
<1>1. CASE UNCHANGED <<log, answer>>
  BY <1>1, UnseenStep
<1>2. ASSUME NEW c \in Clients, Lookup(c) \/ Check(c) \/ Persist(c) \/ Crash(c)
      PROVE  [Promise!Next]_Promise!vars
  <2>1. pc[c] # "idle"
    BY <1>2 DEF Lookup, Check, Persist, Crash
  <2>2. \/ UNCHANGED <<log, answer>>
        \/ /\ UNCHANGED tables
           /\ \/ \E a \in {"refused", "error"} : Answer(c, a)
              \/ log[EventOf[c]] > 0 /\ Answer(c, "duplicate")
        \/ /\ log[EventOf[c]] = 0 /\ Insert(EventOf[c])
           /\ Answer(c, "accepted") \/ Answer(c, "error")
    BY <1>2 DEF Lookup, Check, Persist, Crash, Goto, tables
  <2>3. QED
    BY <2>1, <2>2, UnseenStep, AnsweredStep, StoringStep
<1>3. ASSUME NEW c \in Clients, Call(c) \/ Claim(c)
      PROVE  UNCHANGED <<log, answer>>
  BY <1>3 DEF Call, Claim, Goto, tables
<1>4. QED
  BY <1>1, <1>2, <1>3 DEF Next, RequestStep, ExpireClaim, Done, vars, tables

\* Submission implements the safety part of SubmitPromise, for any number of clients
\* and events and whatever fails: each request looks like one indivisible step on
\* a set of stored events.
THEOREM PromiseIsSafe == Spec => Promise!Safety
<1>1. Init => Asking
  BY DEF Init, Asking
<1>2. Init => Promise!Init
  <2> SUFFICES ASSUME Init
               PROVE  Stored = {} /\ Told = [c \in Clients |-> "nothing"]
    BY DEF Promise!Init
  <2>1. QED
    BY DEF Init, Stored, Told
<1>3. QED
  BY <1>1, <1>2, SubmissionInvariant, AskingStays, PromiseStep, PTL
     DEF Spec, Promise!Safety
=============================================================================
