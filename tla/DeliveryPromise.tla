-------------------------- MODULE DeliveryPromise --------------------------
(***************************************************************************)
(* What the engine promises to the client of POST /v1/notifications: once  *)
(* a submission is accepted its delivery is owed, the debt is never        *)
(* forgotten, and it is settled by a final answer of the provider or by    *)
(* parking the notification in the dead queue. A notification nobody       *)
(* submitted is never sent; a settled one may be answered again            *)
(* (at-least-once delivery).                                               *)
(***************************************************************************)
EXTENDS Naturals

CONSTANT Notifications

VARIABLES
    phase,      \* "none", "owed" or "settled", per notification
    deliveries  \* final answers of the provider, per notification

vars == <<phase, deliveries>>

Init ==
    /\ phase = [n \in Notifications |-> "none"]
    /\ deliveries = [n \in Notifications |-> 0]

Accept(n) ==
    /\ phase[n] = "none"
    /\ phase' = [phase EXCEPT ![n] = "owed"]
    /\ UNCHANGED deliveries

Deliver(n) ==
    /\ phase[n] # "none"
    /\ phase' = [phase EXCEPT ![n] = "settled"]
    /\ deliveries' = [deliveries EXCEPT ![n] = @ + 1]

GiveUp(n) ==
    /\ phase[n] = "owed"
    /\ phase' = [phase EXCEPT ![n] = "settled"]
    /\ UNCHANGED deliveries

Next == \E n \in Notifications : Accept(n) \/ Deliver(n) \/ GiveUp(n)

Safety == Init /\ [][Next]_vars

DebtsArePaid == \A n \in Notifications : phase[n] = "owed" ~> phase[n] = "settled"

Spec == Safety /\ DebtsArePaid
=============================================================================
