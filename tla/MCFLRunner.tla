----------------------------- MODULE MCFLRunner -----------------------------
(* Instances of FLRunner: a task "a" for single assignment and a task "b"  *)
(* for multiple assignment, with policies over the history.                *)
EXTENDS FLRunner

Swor(name, period, group) ==
    [name |-> name, type |-> "swor", version |-> 1, period |-> period, group |-> group]
MinSep == [name |-> "minsep", type |-> "minsep", version |-> 1, index |-> 3, separation |-> 1,
           trustPeriod |-> 0]
Data == [name |-> "data", type |-> "data", version |-> 1, count |-> 1]

\* One group of both tasks; a task of each mode.
GroupSpec == [tasks |-> <<"a", "b">>, mode |-> [a |-> "single", b |-> "multiple"],
              policies |-> <<Swor("group", 1, {"a", "b"}), Data>>,
              uses |-> [a |-> {1}, b |-> {1, 2}]]

SingleSpec == [tasks |-> <<"a">>, mode |-> [a |-> "single"],
               policies |-> <<Swor("own", 1, {}), MinSep>>, uses |-> [a |-> {1, 2}]]

MCConfigs == {[phaseStats |-> TRUE, spec |-> GroupSpec, index |-> NoIndex],
              [phaseStats |-> FALSE, spec |-> SingleSpec, index |-> 2]}

MCDevices == {[factory |-> TRUE, examples |-> 1, end |-> "OUT_OF_RANGE", custom |-> {}, checkTrust |-> TRUE]}

\* All but the task without a spec, after which the runner's check-in fails an FCP_CHECK.
MCEetAnswers == {a \in EligibilityEvalAnswers : a.kind # "task without spec"}
=============================================================================
