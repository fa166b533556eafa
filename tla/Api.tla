--------------------------------- MODULE Api ---------------------------------
(***************************************************************************)
(* The API as its callers see it: requests about settings and              *)
(* devices, submissions that look them up in Execute                       *)
(* (service/submit_notification.go), the notifications they make, and a    *)
(* caller that lists these. The dedupe key and the rate limit are in       *)
(* Submission and RateLimiter; here they may only refuse a submission.     *)
(***************************************************************************)
EXTENDS Listing

CONSTANTS
    Clients,    \* requests to POST /v1/notifications at one time
    Submissions,\* what they ask for
    Budgets     \* bound: the mixes of requests that are looked at

Loads == {"setting", "look", "device", "stray", "copy", "submit", "walk", "sent", "tick"}

ASSUME ApiAssumption ==
    /\ Budgets \subseteq [Loads -> Nat]
    /\ Submissions \subseteq
          [user: Users \cup {Nobody}, behalf: Behalves, credential: Credentials,
           channel: Channels, given: BOOLEAN]

VARIABLES
    submits,    \* the submission each client has under way
    budget      \* requests that may still be made

vars == <<accountVars, listVars, submits, budget>>

Spend(load) ==
    /\ budget[load] > 0
    /\ budget' = [budget EXCEPT ![load] = @ - 1]

NoSubmit ==
    [pc |-> "idle", user |-> Nobody, channel |-> CHOOSE ch \in Channels : TRUE,
     given |-> FALSE, began |-> 0, to |-> "none", certain |-> FALSE]

\* The handler answers, with the notification or an error.
Answer(c) == submits' = [submits EXCEPT ![c] = NoSubmit]

-----------------------------------------------------------------------------
Load(call) ==
    CASE call.credential # "hmac" \/ call.behalf # call.user -> "stray"
      [] call.op \in {"setting", "look"} -> call.op
      [] OTHER -> "device"

\* From here on the user expects something else of the submissions under way.
SendRequest(call) ==
    /\ Send(call)
    /\ Spend(Load(call))
    /\ submits' = [c \in Clients |->
            [submits[c] EXCEPT !.certain =
                @ /\ ~Own(call, submits[c].user, submits[c].channel)]]
    /\ UNCHANGED listVars

\* The handler of POST /v1/notifications, up to the clock read by Execute.
\* certain is history: the user has been told that the channel is off.
Begin(c, call) ==
    /\ submits[c].pc = "idle"
    /\ MaySubmit(Authenticate(call, clock, clock), call.user)
    /\ submits' = [submits EXCEPT ![c] =
            [pc |-> IF call.user = Nobody THEN "persisting" ELSE "checking",
             user |-> call.user, channel |-> call.channel, given |-> call.given,
             began |-> clock, to |-> IF call.given THEN "given" ELSE "none",
             certain |-> call.user # Nobody /\ told[call.user][call.channel] = "out"]]
    /\ Spend("submit")
    /\ UNCHANGED <<accountVars, listVars>>

\* Mutant: the setting is not looked up.
CheckNothing(c) ==
    /\ submits[c].pc = "checking"
    /\ submits' = [submits EXCEPT ![c].pc = "hydrating"]

\* ErrOptedOut, or on to the rest of the policies.
CheckOptIn(c) ==
    /\ submits[c].pc = "checking"
    /\ IF GetSetting(submits[c].user, submits[c].channel) = "out"
         THEN Answer(c)
         ELSE submits' = [submits EXCEPT ![c].pc = "hydrating"]

\* hydrateRecipient: what the request names is kept. A user without a device
\* and a channel that no user record serves are refused.
Hydrate(c) ==
    LET s == submits[c]
        Use(to) == submits' = [submits EXCEPT ![c].pc = "persisting", ![c].to = to]
    IN  /\ s.pc = "hydrating"
        /\ \/ s.given /\ Use("given")
           \/ /\ ~s.given
              /\ s.channel \in PushChannels
              /\ IF DevicesForUser(s.user, s.channel) = {}
                   THEN Answer(c) ELSE Use(NewestDevice(s.user, s.channel))
           \/ ~s.given /\ s.channel \in AddressChannels /\ Use("address")
           \/ ~s.given /\ s.channel \in MessagingChannels /\ Answer(c)

\* Recipient.Validate: without a user, the request must name a destination.
Valid(s) == s.user # Nobody \/ s.given

\* The row of what NewNotification makes; its created_at is left to the database.
NewNotification(s, now) ==
    [user |-> s.user, channel |-> s.channel, to |-> s.to, created |-> now,
     status |-> "enqueued", certain |-> s.certain]

\* SubmitWithOutbox, or an error of NewNotification. The id is new and random, and
\* created_at, DEFAULT NOW(), is the time at which the transaction began.
Persist(c) ==
    LET s == submits[c] IN
    /\ s.pc = "persisting"
    /\ Answer(c)
    /\ \/ ~Valid(s) /\ UNCHANGED log
       \/ /\ Valid(s)
          /\ \E i \in Ids \ Stored, now \in s.began .. clock :
                log' = [log EXCEPT ![i] = NewNotification(s, now)]

\* Too many requests, a template that does not render, a failed statement.
Abandon(c) ==
    /\ submits[c].pc # "idle"
    /\ Answer(c)

SubmitStep(c) ==
    \/ /\ CheckOptIn(c) \/ Hydrate(c) \/ Abandon(c)
       /\ UNCHANGED <<accountVars, listVars, budget>>
    \/ /\ Persist(c)
       /\ UNCHANGED <<accountVars, walk, budget>>

-----------------------------------------------------------------------------
Init ==
    /\ AccountsInit
    /\ ListingInit
    /\ submits = [c \in Clients |-> NoSubmit]
    /\ budget \in Budgets

Next ==
    \/ \E call \in Calls : SendRequest(call)
    \/ AccountStep /\ UNCHANGED <<listVars, submits, budget>>
    \/ \E h \in Handlers, q \in inbox :
          ReceiveCopy(h, q) /\ Spend("copy") /\ UNCHANGED <<listVars, submits>>
    \/ Tick /\ Spend("tick") /\ UNCHANGED <<listVars, submits>>
    \/ \E c \in Clients :
          \/ \E call \in Submissions : Begin(c, call)
          \/ SubmitStep(c)
    \/ \E u \in Users, f \in Filters :
          /\ StartWalk([kind |-> "service", behalf |-> u], f)
          /\ Spend("walk")
          /\ UNCHANGED <<accountVars, submits>>
    \/ \E n \in Limits : ListNotifications(n) /\ UNCHANGED <<accountVars, submits, budget>>
    \/ \E i \in Ids : Sent(i) /\ Spend("sent") /\ UNCHANGED <<accountVars, submits>>

Spec == Init /\ [][Next]_vars

-----------------------------------------------------------------------------
Submits ==
    [pc: {"idle", "checking", "hydrating", "persisting"}, user: Users \cup {Nobody},
     channel: Channels, given: BOOLEAN, began: 0..MaxTime, to: Destinations,
     certain: BOOLEAN]

TypeOK ==
    /\ AccountsTypeOK
    /\ ListingTypeOK
    /\ submits \in [Clients -> Submits]
    /\ budget \in [Loads -> Nat]

\* No notification is made for a user and channel of which the user had been
\* told, before the submission began and until it was stored, that they are
\* switched off. (UpdateSetting, GetSettings, Execute)
OptOutIsRespected == \A i \in Stored : ~log[i].certain
=============================================================================
