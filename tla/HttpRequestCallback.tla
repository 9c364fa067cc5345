------------------------ MODULE HttpRequestCallback ------------------------
(***************************************************************************)
(* What http_client.h promises about the calls of one PerformRequests: per *)
(* request the response headers come first, then the body, then one last   *)
(* call; nothing follows a call that was refused or an error; nothing      *)
(* happens once PerformRequests has returned, and it returns when every    *)
(* request has had its last call, or when none was started.                *)
(***************************************************************************)
CONSTANT Requests

VARIABLES
    call,  \* per request, the last call of its HttpRequestCallback
    over   \* PerformRequests has returned

vars == <<call, over>>

Last == {"refused", "error", "completed"}

Init ==
    /\ call = [r \in Requests |-> "none"]
    /\ over = FALSE

\* What may follow which call.
Follows(from) ==
    CASE from = "none" -> {"started", "refused", "error"}
      [] from \in {"started", "body"} -> {"body", "refused", "error", "completed"}
      [] OTHER -> {}

Call(r) ==
    /\ ~over
    /\ \E next \in Follows(call[r]) : call' = [call EXCEPT ![r] = next]
    /\ UNCHANGED over

Return ==
    /\ ~over
    /\ (\A r \in Requests : call[r] \in Last) \/ (\A r \in Requests : call[r] = "none")
    /\ over' = TRUE
    /\ UNCHANGED call

Next == Return \/ \E r \in Requests : Call(r)

Spec == Init /\ [][Next]_vars
=============================================================================
