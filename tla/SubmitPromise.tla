--------------------------- MODULE SubmitPromise ---------------------------
(***************************************************************************)
(* What POST /v1/notifications promises to its clients: an event id is     *)
(* stored once, at one indivisible moment of the request that stores it;   *)
(* that client is told so, or that something failed; everyone after it who *)
(* is served is told of a duplicate; and whoever keeps asking is served.   *)
(* No dedupe key, no row count and no step of a request is visible.        *)
(***************************************************************************)
CONSTANTS
    Events,
    Clients,
    EventOf     \* the event id a client uses

VARIABLES
    stored,     \* events of which there is a notification
    told        \* the last answer each client got

vars == <<stored, told>>

Served(c) == told[c] \in {"accepted", "duplicate"}

Init ==
    /\ stored = {}
    /\ told = [c \in Clients |-> "nothing"]

Store(c) ==
    /\ EventOf[c] \notin stored
    /\ stored' = stored \cup {EventOf[c]}

\* A client that was served is not answered again.
Tell(c, a) ==
    /\ ~Served(c)
    /\ told' = [told EXCEPT ![c] = a]

Accept(c) == Store(c) /\ Tell(c, "accepted")

\* The notification is there, but the client only hears of a failure.
AcceptUnheard(c) == Store(c) /\ Tell(c, "failure")

Repeat(c) ==
    /\ EventOf[c] \in stored
    /\ Tell(c, "duplicate")
    /\ UNCHANGED stored

Fail(c) ==
    /\ Tell(c, "failure")
    /\ UNCHANGED stored

Serve(c) == Accept(c) \/ Repeat(c)

Next == \E c \in Clients : Serve(c) \/ AcceptUnheard(c) \/ Fail(c)

Safety == Init /\ [][Next]_vars

Spec == Safety /\ \A c \in Clients : WF_vars(Serve(c))
=============================================================================
