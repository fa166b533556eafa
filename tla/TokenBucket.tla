---------------------------- MODULE TokenBucket ----------------------------
(***************************************************************************)
(* The textbook token bucket: the clock refills it, up to its capacity,    *)
(* and a call is granted if it finds a whole token, which it takes. There  *)
(* is no key, no expiry and no stored time.                                *)
(***************************************************************************)
EXTENDS Integers

CONSTANTS
    Token,      \* units of one token
    Capacity,   \* units in a full bucket
    Rate,       \* units per second
    Steps       \* amounts by which the clock moves

VARIABLES
    now,        \* the clock
    level,      \* units in the bucket
    behind,     \* seconds until the clock is again where a call last saw it
    granted,    \* calls granted since the count began
    mishaps     \* clock setbacks and lost buckets so far

vars == <<now, level, behind, granted, mishaps>>

UpTo(bound, x) == IF x < bound THEN x ELSE bound

Above(x) == IF x > 0 THEN x ELSE 0

Init ==
    /\ now = 0
    /\ level = Capacity
    /\ behind = 0
    /\ granted = 0
    /\ mishaps = 0

Grant ==
    /\ level >= Token
    /\ level' = level - Token
    /\ behind' = 0
    /\ granted' = granted + 1
    /\ UNCHANGED <<now, mishaps>>

Refuse ==
    /\ level < Token
    /\ behind' = 0
    /\ UNCHANGED <<now, level, granted, mishaps>>

\* A clock that was set back adds nothing before it has caught up, or a call has
\* seen it.
Pass(d) ==
    /\ now' = now + d
    /\ level' = UpTo(Capacity, level + Above(d - behind) * Rate)
    /\ behind' = Above(behind - d)
    /\ UNCHANGED <<granted, mishaps>>

\* A clock that is set back may take refills away that no call has seen.
SetBack(d) ==
    /\ now' = now - d
    /\ level' \in 0..level
    /\ behind' \in behind..(behind + d)
    /\ mishaps' = mishaps + 1
    /\ UNCHANGED granted

\* A bucket that is lost is replaced by a full one.
Replace ==
    /\ level' = Capacity
    /\ behind' = 0
    /\ mishaps' = mishaps + 1
    /\ UNCHANGED <<now, granted>>

CountAnew ==
    /\ granted' = 0
    /\ UNCHANGED <<now, level, behind, mishaps>>

Next ==
    \/ Grant \/ Refuse \/ Replace \/ CountAnew
    \/ \E d \in Steps : Pass(d) \/ SetBack(d)

Spec == Init /\ [][Next]_vars
=============================================================================
