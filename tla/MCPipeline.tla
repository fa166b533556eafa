----------------------------- MODULE MCPipeline -----------------------------
(***************************************************************************)
(* Instances of Pipeline for TLC. Each budget names the faults that may    *)
(* strike in one behaviour, and how often.                                 *)
(***************************************************************************)
EXTENDS Pipeline, TLC

\* k faults of every kind in S, none of any other.
Budget(S, k) == [f \in FaultKinds |-> IF f \in S THEN k ELSE 0]

NoFaults       == Budget({}, 0)
StorageFaults  == Budget({"db", "answer", "rescue", "crash"}, 1)
RelayFaults    == Budget({"db", "publish", "crash"}, 1)
PromiseFaults  == Budget({"crash", "connection", "rescue", "db"}, 1)

Symmetry == Permutations(Notifications) \cup Permutations(Workers)
            \cup Permutations(Relays)
=============================================================================
