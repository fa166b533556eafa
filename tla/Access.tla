------------------------------- MODULE Access -------------------------------
(***************************************************************************)
(* Who may do what through the HTTP API: the two ways to authenticate a    *)
(* request (middleware/middleware.go, internal/platform/auth), and the     *)
(* ownership rules of the handlers (middleware/authorization.go). An app   *)
(* key signs the time, the path, the on-behalf-of header and the body      *)
(* together, so that a request that was altered is "invalid" as a whole.   *)
(***************************************************************************)
EXTENDS Integers

CONSTANTS
    Users,      \* user ids
    Nobody,     \* no user: no on-behalf-of header, no user_id in a recipient
    Malformed,  \* an on-behalf-of header that is no number
    Skew        \* HMAC_SKEW

ASSUME AccessAssumption ==
    /\ Nobody \notin Users
    /\ Malformed \notin Users
    /\ Malformed # Nobody
    /\ Skew \in Nat

Behalves == Users \cup {Nobody, Malformed}

\* A session token that Clerk issued, a signature of a known app key, or
\* headers that fit neither.
Credentials == {"jwt", "hmac", "invalid"}

Kinds == {"user", "service", "refused"}

\* ClerkVerifier.Verify: the token is Clerk's, and in date.
ClerkVerify(call) == call.credential = "jwt"

\* Verifier.Verify: the signature fits what arrived, and its time is near now.
Verify(call, stamp, now) ==
    /\ call.credential = "hmac"
    /\ now - stamp \in -Skew .. Skew

\* Authenticate: the identity a handler finds in the request's context. A
\* token of Clerk is looked at first, and needs no signature.
Authenticate(call, stamp, now) ==
    CASE ClerkVerify(call) -> [kind |-> "user", behalf |-> Nobody]
      [] Verify(call, stamp, now) /\ call.behalf # Malformed ->
            [kind |-> "service", behalf |-> call.behalf]
      [] OTHER -> [kind |-> "refused", behalf |-> Nobody]

\* RequireUserOwnership. Users that Clerk knows have no user id here yet, and
\* are refused.
RequireUserOwnership(id, user) == id.kind = "service" /\ id.behalf = user

\* RequireServiceIdentity
RequireServiceIdentity(id) == id.kind = "service" /\ id.behalf # Nobody

\* The rule of GetNotification: a notification for a user belongs to that user,
\* one for a raw destination is open to every service.
MayRead(id, user) ==
    \/ user # Nobody /\ RequireUserOwnership(id, user)
    \/ user = Nobody /\ id.kind = "service"

\* The rule of SubmitNotification, for requests that were authenticated.
MaySubmit(id, user) ==
    /\ id.kind # "refused"
    /\ user = Nobody \/ RequireUserOwnership(id, user)
=============================================================================
