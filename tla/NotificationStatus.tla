------------------------ MODULE NotificationStatus ------------------------
(***************************************************************************)
(* The life cycle of a notification (internal/domain/status.go) and the    *)
(* transition rule that the entity's Mark* methods go through              *)
(* (internal/domain/notification.go).                                      *)
(***************************************************************************)

Status == {"received", "enqueued", "in_flight", "sent", "failed",
           "retrying", "dead_letter"}

\* The statuses that a status may be followed by.
ValidTransitions ==
    [received    |-> {"enqueued", "failed"},
     enqueued    |-> {"in_flight", "failed"},
     in_flight   |-> {"sent", "failed", "retrying", "dead_letter"},
     retrying    |-> {"in_flight", "dead_letter", "enqueued"},
     failed      |-> {"retrying", "dead_letter"},
     sent        |-> {},
     dead_letter |-> {}]

Terminal(s) == ValidTransitions[s] = {}

CanTransitionTo(s, next) == next \in ValidTransitions[s]

\* The status an entity has after transitionTo: a rejected move leaves it alone.
TransitionTo(s, next) == IF CanTransitionTo(s, next) THEN next ELSE s
=============================================================================
