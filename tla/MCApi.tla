------------------------------- MODULE MCApi -------------------------------
(***************************************************************************)
(* Instance of Api for TLC: each initial budget is one mix of requests, so *)
(* that every behaviour stays within one of them.                          *)
(***************************************************************************)
EXTENDS Api, TLC

CONSTANTS push, sms, chat, u1, u2, t1, t2

Call(op, user, channel, arg) ==
    [op |-> op, user |-> user, behalf |-> user, credential |-> "hmac",
     channel |-> channel, arg |-> arg]

SettingCalls ==
    {Call("setting", u1, ch, arg) : ch \in {push, sms}, arg \in Answers}
    \cup {Call("setting", u2, push, "out")}

LookCall == [op |-> "look", user |-> u1, behalf |-> u1, credential |-> "hmac"]

DeviceCalls ==
    {Call(op, u, push, t) : op \in {"register", "delete"}, u \in Users, t \in Tokens}
    \cup {Call("register", u1, sms, t1)}

\* Callers that are not who they should be.
StrayCalls ==
    LET call == Call("setting", u1, push, "out")
    IN  {[call EXCEPT !.credential = "jwt"], [call EXCEPT !.credential = "invalid"]}
        \cup {[call EXCEPT !.behalf = b] : b \in {u2, Nobody, Malformed}}

CallsMade == SettingCalls \cup {LookCall} \cup DeviceCalls \cup StrayCalls

Submit(user, channel, given) ==
    [user |-> user, behalf |-> user, credential |-> "hmac", channel |-> channel,
     given |-> given]

SubmissionsMade ==
    {Submit(u1, push, FALSE), Submit(u1, push, TRUE), Submit(u2, push, FALSE),
     Submit(u1, sms, FALSE), Submit(u1, chat, FALSE), Submit(Nobody, sms, FALSE),
     [Submit(Nobody, chat, TRUE) EXCEPT !.credential = "jwt"],
     [Submit(u1, push, TRUE) EXCEPT !.behalf = u2]}

Mix(loads) == [load \in Loads |-> IF load \in DOMAIN loads THEN loads[load] ELSE 0]

\* Settings that change, stall past their time and are told late, around a
\* submission; a request that is used again; one that is not its user's own;
\* logins around a submission; a listing while submissions end in any order.
Mixes == {Mix([setting |-> 2, look |-> 1, submit |-> 1, tick |-> 2]),
          Mix([setting |-> 1, copy |-> 1, submit |-> 1, tick |-> 2]),
          Mix([setting |-> 1, look |-> 1, stray |-> 1, submit |-> 1]),
          Mix([device |-> 3, submit |-> 1]),
          Mix([submit |-> 3, walk |-> 1, sent |-> 1, tick |-> 1])}

AnyRow == [status |-> "any", channel |-> "any", since |-> 0, until |-> MaxTime]
Enqueued == [AnyRow EXCEPT !.status = "enqueued"]
Recent == [AnyRow EXCEPT !.since = 1, !.channel = push]

FiltersUsed == {AnyRow, Enqueued, Recent}

\* Handlers differ in nothing, nor do clients.
Symmetry == Permutations(Handlers) \cup Permutations(Clients)
=============================================================================
