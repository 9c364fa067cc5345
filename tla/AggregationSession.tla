------------------------- MODULE AggregationSession -------------------------
(***************************************************************************)
(* What a Secure Aggregation session promises its owner, whatever happens  *)
(* to the clients: inputs are added one by one while the session collects; *)
(* the set of included inputs is then committed, if it is large enough,    *)
(* and is exactly the set whose sum is released, unless the session        *)
(* aborts, after which nothing is released.                                *)
(***************************************************************************)
CONSTANTS
  Clients,   \* the clients whose inputs may be aggregated
  Quorums    \* the sets of clients large enough to be aggregated

VARIABLES phase, included

sessionVars == <<phase, included>>

SessionInit == phase = "collecting" /\ included = {}

AddInput ==
  /\ phase = "collecting"
  /\ \E c \in Clients \ included : included' = included \cup {c}
  /\ UNCHANGED phase

Commit ==
  /\ phase = "collecting"
  /\ included \in Quorums
  /\ phase' = "committed"
  /\ UNCHANGED included

Release ==
  /\ phase = "committed"
  /\ phase' = "released"
  /\ UNCHANGED included

GiveUp ==
  /\ phase \in {"collecting", "committed"}
  /\ phase' = "aborted"
  /\ UNCHANGED included

SessionNext == AddInput \/ Commit \/ Release \/ GiveUp

SessionSpec == SessionInit /\ [][SessionNext]_sessionVars
=============================================================================
