------------------------------ MODULE Accounts ------------------------------
(***************************************************************************)
(* What the API keeps for a user: the opt-in settings and the push devices *)
(* (infrastructure/postgres/users.go), and the requests that change them.  *)
(* A request is signed and travels for any time, perhaps in several        *)
(* copies. A handler checks it once; whatever happens then, until its      *)
(* statement runs, has no time limit.                                      *)
(***************************************************************************)
EXTENDS Access, Sequences

CONSTANTS
    PushChannels,       \* push_ios, push_android
    AddressChannels,    \* email, sms, whatsapp: the user's record has the address
    MessagingChannels,  \* telegram, line, facebook_messenger
    Tokens,             \* device tokens
    Handlers,           \* requests that are handled at one time
    Calls,              \* what clients ask for, see AccountCalls
    MaxTime             \* bound: the last instant of the clock

Channels == PushChannels \cup AddressChannels \cup MessagingChannels

ASSUME AccountsAssumption == MaxTime \in Nat /\ Channels # {}

VARIABLES
    clock,
    inbox,      \* signed requests under way to a process
    handlers,   \* the requests being handled
    settings,   \* notification_settings: "none" where there is no row
    devices,    \* devices: user and last login per channel and token
    logins,     \* how many logins have read the database's NOW()
    told,       \* what each user knows of a setting, see Tell
    handled     \* history: the device requests that were carried out

accountVars == <<clock, inbox, handlers, settings, devices, logins, told, handled>>

Answers == {"in", "out"}

\* What a client asks for, and as whom.
AccountCalls ==
    [op: {"look"}, user: Users, behalf: Behalves, credential: Credentials]
    \cup
    [op: {"setting"}, user: Users, behalf: Behalves, credential: Credentials,
     channel: Channels, arg: Answers]
    \cup
    [op: {"register", "delete"}, user: Users, behalf: Behalves, credential: Credentials,
     channel: Channels, arg: Tokens]

ASSUME CallsAssumption == Calls \subseteq AccountCalls /\ Calls # {}

\* A request: a call, and the time that its signature covers.
Requests == [call: Calls, stamp: 0..MaxTime]

\* A call that its own user's client makes for one of its settings.
Own(call, user, channel) ==
    /\ call.op = "setting"
    /\ call.credential = "hmac"
    /\ call.behalf = user
    /\ call.user = user
    /\ call.channel = channel

\* The clock has not run past the time up to which the signature is accepted.
Pending(q, now) == q.stamp + Skew >= now

Permitted(q) == RequireUserOwnership(Authenticate(q.call, q.stamp, clock), q.call.user)

\* An answer that says nothing of any setting.
Silence == [channel \in Channels |-> "nothing"]

Free == [pc |-> "free", call |-> CHOOSE call \in Calls : TRUE, at |-> 0, says |-> Silence]

-----------------------------------------------------------------------------
\* Requests, up to their handlers

\* A client signs a request and sends it. Of a setting it is changing, its user
\* knows nothing.
Send(call) ==
    /\ [call |-> call, stamp |-> clock] \notin inbox
    /\ inbox' = inbox \cup {[call |-> call, stamp |-> clock]}
    /\ told' = IF call.op = "setting" /\ Own(call, call.user, call.channel)
               THEN [told EXCEPT ![call.user][call.channel] = "unsure"] ELSE told
    /\ UNCHANGED <<clock, handlers, settings, devices, logins, handled>>

\* A request is lost, or refused by Authenticate, AppKeyRateLimit or a handler.
Fail(q) ==
    /\ q \in inbox
    /\ inbox' = inbox \ {q}
    /\ UNCHANGED <<clock, handlers, settings, devices, logins, told, handled>>

\* Authenticate and the handler's RequireUserOwnership let a request through.
\* AppKeyRateLimit, the rest of the handler and the wait for a connection to the
\* database follow, and the signature is not looked at again.
Admit(h, q) ==
    /\ q \in inbox
    /\ handlers[h].pc = "free"
    /\ Permitted(q)
    /\ handlers' = [handlers EXCEPT ![h] = [Free EXCEPT !.pc = "admitted", !.call = q.call]]
    /\ UNCHANGED <<clock, settings, devices, logins, told, handled>>

Receive(h, q) == Admit(h, q) /\ inbox' = inbox \ {q}

\* Nothing tells a copy from a new request: a signature may be used again.
ReceiveCopy(h, q) == Admit(h, q) /\ UNCHANGED inbox

\* A handler fails, or its answer does not reach the client.
Drop(h) ==
    /\ handlers[h].pc # "free"
    /\ handlers' = [handlers EXCEPT ![h] = Free]
    /\ UNCHANGED <<clock, inbox, settings, devices, logins, told, handled>>

-----------------------------------------------------------------------------
\* Settings

\* GetSetting: without a row, DefaultSetting applies.
GetSetting(user, channel) == IF settings[user][channel] = "out" THEN "out" ELSE "in"

\* Mutant: the stored rows only.
ListSettingsStored(user) == settings[user]

\* ListSettings: the stored rows, with the default for every other channel.
ListSettings(user) ==
    [channel \in Channels |->
        IF settings[user][channel] = "none" THEN "in" ELSE settings[user][channel]]

\* Mutant: the row of a user and channel is written once.
UpsertSettingOnce(user, channel, value) ==
    settings' = [settings EXCEPT ![user][channel] = IF @ = "none" THEN value ELSE @]

\* UpsertSetting: the last writer wins.
UpsertSetting(user, channel, value) ==
    settings' = [settings EXCEPT ![user][channel] = value]

\* The answers that are under way when a setting changes tell an old value.
Overtaken(user, channel) ==
    [h \in Handlers |->
        IF handlers[h].call.user = user /\ handlers[h].says[channel] # "nothing"
        THEN [handlers[h] EXCEPT !.says[channel] = "unsure"] ELSE handlers[h]]

\* PUT /v1/users/{id}/settings, from the pool's connection on.
UpdateSetting(h) ==
    LET call == handlers[h].call
    IN  /\ handlers[h].pc = "admitted"
        /\ call.op = "setting"
        /\ UpsertSetting(call.user, call.channel, call.arg)
        /\ handlers' = [Overtaken(call.user, call.channel) EXCEPT ![h] =
                [Free EXCEPT !.pc = "answering", !.call = call,
                             !.says = [Silence EXCEPT ![call.channel] = call.arg]]]
        /\ UNCHANGED <<clock, inbox, devices, logins, told, handled>>

\* GET /v1/users/{id}/settings
GetSettings(h) ==
    LET call == handlers[h].call
    IN  /\ handlers[h].pc = "admitted"
        /\ call.op = "look"
        /\ handlers' = [handlers EXCEPT ![h].pc = "answering",
                                        ![h].says = ListSettings(call.user)]
        /\ UNCHANGED <<clock, inbox, settings, devices, logins, told, handled>>

\* A request of the user that may still change the setting: its signature can
\* still be accepted, or it was accepted and its handler has not written yet.
ChangeUnderWay(user, channel) ==
    \/ \E q \in inbox : Own(q.call, user, channel) /\ Pending(q, clock)
    \/ \E h \in Handlers :
          handlers[h].pc = "admitted" /\ Own(handlers[h].call, user, channel)

\* What an answer tells is what the user may count on, unless a change is under way.
Tell(user, channel, value) == IF ChangeUnderWay(user, channel) THEN "unsure" ELSE value

\* The answer arrives, any time after the statement.
Reply(h) ==
    LET user == handlers[h].call.user
        says == handlers[h].says
    IN  /\ handlers[h].pc = "answering"
        /\ told' = [told EXCEPT ![user] = [channel \in Channels |->
                        IF says[channel] = "nothing" THEN told[user][channel]
                                                     ELSE Tell(user, channel, says[channel])]]
        /\ handlers' = [handlers EXCEPT ![h] = Free]
        /\ UNCHANGED <<clock, inbox, settings, devices, logins, handled>>

-----------------------------------------------------------------------------
\* Devices

\* Only a push channel has devices: ErrInvalidInput.
PushOnly(call) == call.channel \in PushChannels

NoDevice == [user |-> Nobody, at |-> 0]

\* What the history keeps of a device request, with the time of a login.
Event(call, at) ==
    [op |-> call.op, user |-> call.user, channel |-> call.channel, arg |-> call.arg,
     at |-> at]

\* DevicesForUser: the tokens of a user on a channel.
DevicesForUser(user, channel) == {t \in Tokens : devices[channel][t].user = user}

\* The first row of DevicesForUser: ORDER BY last_logged_in_at DESC.
NewestDevice(user, channel) ==
    CHOOSE t \in DevicesForUser(user, channel) :
        \A s \in DevicesForUser(user, channel) : devices[channel][s].at <= devices[channel][t].at

\* Mutant: a token that is known keeps its user.
UpsertDeviceOnce(user, channel, token, at) ==
    devices' = [devices EXCEPT ![channel][token] =
                    IF @ = NoDevice THEN [user |-> user, at |-> at] ELSE @]

\* UpsertDevice: a token belongs to the user whose login was written last.
UpsertDevice(user, channel, token, at) ==
    devices' = [devices EXCEPT ![channel][token] = [user |-> user, at |-> at]]

\* POST /v1/users/{id}/devices. NOW() is the time at which the statement begins,
\* and no two logins have the same; the row may have to be waited for.
LoginTime(h) ==
    /\ handlers[h].pc = "admitted"
    /\ handlers[h].call.op = "register"
    /\ PushOnly(handlers[h].call)
    /\ logins' = logins + 1
    /\ handlers' = [handlers EXCEPT ![h].pc = "upserting", ![h].at = logins + 1]
    /\ UNCHANGED <<clock, inbox, settings, devices, told, handled>>

RegisterDevice(h) ==
    LET call == handlers[h].call
    IN  /\ handlers[h].pc = "upserting"
        /\ UpsertDevice(call.user, call.channel, call.arg, handlers[h].at)
        /\ handled' = Append(handled, Event(call, handlers[h].at))
        /\ handlers' = [handlers EXCEPT ![h] = Free]
        /\ UNCHANGED <<clock, inbox, settings, logins, told>>

\* The DELETE statement, which finds no row when the token is another user's.
RemoveDevice(user, channel, token) ==
    devices' = [devices EXCEPT ![channel][token] = IF @.user = user THEN NoDevice ELSE @]

\* DELETE /v1/users/{id}/devices: 204, or 404 when there was no such row.
DeleteDevice(h) ==
    LET call == handlers[h].call
    IN  /\ handlers[h].pc = "admitted"
        /\ call.op = "delete"
        /\ PushOnly(call)
        /\ RemoveDevice(call.user, call.channel, call.arg)
        /\ handled' = Append(handled, Event(call, 0))
        /\ handlers' = [handlers EXCEPT ![h] = Free]
        /\ UNCHANGED <<clock, inbox, settings, logins, told>>

Tick ==
    /\ clock < MaxTime
    /\ clock' = clock + 1
    /\ UNCHANGED <<inbox, handlers, settings, devices, logins, told, handled>>

AccountsInit ==
    /\ clock = 0
    /\ inbox = {}
    /\ handlers = [h \in Handlers |-> Free]
    /\ settings = [u \in Users |-> [ch \in Channels |-> "none"]]
    /\ devices = [ch \in PushChannels |-> [t \in Tokens |-> NoDevice]]
    /\ logins = 0
    /\ told = [u \in Users |-> [ch \in Channels |-> "unsure"]]
    /\ handled = <<>>

HandlerStep(h) ==
    \/ \E q \in inbox : Receive(h, q)
    \/ UpdateSetting(h) \/ GetSettings(h) \/ Reply(h)
    \/ LoginTime(h) \/ RegisterDevice(h) \/ DeleteDevice(h)
    \/ Drop(h)

AccountStep == (\E q \in inbox : Fail(q)) \/ (\E h \in Handlers : HandlerStep(h))

HandlerStates ==
    [pc: {"free", "admitted", "upserting", "answering"}, call: Calls, at: Nat,
     says: [Channels -> Answers \cup {"unsure", "nothing"}]]

Events ==
    [op: {"register", "delete"}, user: Users, channel: PushChannels, arg: Tokens, at: Nat]

AccountsTypeOK ==
    /\ clock \in 0..MaxTime
    /\ inbox \in SUBSET Requests
    /\ handlers \in [Handlers -> HandlerStates]
    /\ settings \in [Users -> [Channels -> Answers \cup {"none"}]]
    /\ devices \in [PushChannels -> [Tokens -> [user: Users \cup {Nobody}, at: Nat]]]
    /\ logins \in Nat
    /\ told \in [Users -> [Channels -> Answers \cup {"unsure"}]]
    /\ handled \in Seq(Events)

\* What an answer told a user of a setting is what the next submission will find,
\* as long as the user asks for no other value, if no earlier request of the user
\* wrote while the answer was under way, and none could still be accepted or was
\* being handled when it came: late, copied, reordered, stalled and foreign
\* requests included.
\* (Verify, RequireUserOwnership, UpsertSetting)
SettingsAreAsTold ==
    \A u \in Users, ch \in Channels :
        told[u][ch] # "unsure" => GetSetting(u, ch) = told[u][ch]

\* The logins of a user on a channel that still count: no later login took the
\* token over, and the user did not log out of it.
Logins(user, channel) ==
    {i \in DOMAIN handled :
        /\ handled[i].op = "register"
        /\ handled[i].user = user
        /\ handled[i].channel = channel
        /\ \A j \in DOMAIN handled :
              j > i /\ handled[j].channel = channel /\ handled[j].arg = handled[i].arg
                => handled[j].op = "delete" /\ handled[j].user # user}

\* The device that a submission looks up is the one on which its user logged in
\* last, of the logins that takeovers and logouts left, in whatever order their
\* statements began and wrote; and there is none only without such a login.
\* (UpsertDevice, DeleteDevice, DevicesForUser)
PushReachesLastLogin ==
    \A u \in Users, ch \in PushChannels :
        LET live == Logins(u, ch)
        IN  /\ live = {} <=> DevicesForUser(u, ch) = {}
            /\ \A i \in live :
                  (\A j \in live : handled[j].at <= handled[i].at)
                    => NewestDevice(u, ch) = handled[i].arg
=============================================================================
