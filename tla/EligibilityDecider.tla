-------------------------- MODULE EligibilityDecider --------------------------
(***************************************************************************)
(* Which tasks of a population the device is eligible for                  *)
(* (fcp/client/eligibility_decider.cc), computed from the population's     *)
(* eligibility spec and the history in the operational statistics.         *)
(*                                                                         *)
(* A spec is [tasks, mode, policies, uses]: the task names in order, the   *)
(* assignment mode of each, the policies in order, and the indices of the  *)
(* policies each task uses.  A policy is a record with name, type,         *)
(* version (min_version) and the fields of its type:                       *)
(*   swor      period, group (the tasks group_regex matches, {} if unset)  *)
(*   data      count (min_example_count)                                   *)
(*   custom                                                                *)
(*   minsep    index, separation, trustPeriod                              *)
(* The device is dev: the examples an iterator yields, how it ends, and    *)
(* what the TensorFlow policy plan answers ("error" or a set of tasks).    *)
(***************************************************************************)
EXTENDS PhaseLogger

\* kSworImplementationVersion and its siblings; the flag that checks trustworthiness raises one.
ImplementedVersion(type, dev) == IF type = "minsep" /\ dev.checkTrust THEN 2 ELSE 1

PolicyTypes == {"swor", "data", "custom", "minsep"}

\* Strictly longer ago than the period.
ExecutionOutsideSworPeriod(period, at) == period < now - at

\* Defective variant: it does not matter how far back the history can be trusted.
ComputePerTaskSworTrustsAll(policy, names, data) ==
    LET Outside(tasks) ==
            LET last == GetLastSuccessfulContribution(data, tasks)
            IN  last = <<>> \/ ExecutionOutsideSworPeriod(policy.period, last[1].at)
    IN  IF policy.group # {} THEN (IF Outside(policy.group) THEN names ELSE {})
        ELSE {t \in names : Outside({t})}

\* No task unless the history covers the period; with a group, all of the tasks or none.
ComputePerTaskSworEligibility(policy, names, data) ==
    LET Outside(tasks) ==
            LET last == GetLastSuccessfulContribution(data, tasks)
            IN  last = <<>> \/ ExecutionOutsideSworPeriod(policy.period, last[1].at)
    IN  IF now - data.trust < policy.period THEN {}
        ELSE IF policy.group # {} THEN (IF Outside(policy.group) THEN names ELSE {})
        ELSE {t \in names : Outside({t})}

\* An answer of TRUE or FALSE, or "error"; a missing factory is an error, the end of the data is not.
ComputeDataAvailabilityEligibility(policy, dev) ==
    CASE ~dev.factory -> "error"
      [] dev.factory /\ dev.examples >= policy.count -> "enough"
      [] OTHER -> IF dev.end = "OUT_OF_RANGE" THEN "too few" ELSE "error"

\* The tasks the policy's plan gives a positive weight; its names need not be those it was asked.
ComputeTfCustomPolicyEligibility(dev) == dev.custom

ComputeMinimumSeparationPolicyEligibility(policy, names, data, checkTrust) ==
    IF checkTrust /\ policy.trustPeriod # 0 /\ now - data.trust < policy.trustPeriod THEN {}
    ELSE {t \in names :
             LET last == GetLastSuccessfulContribution(data, {t})
             IN  \/ last = <<>>
                 \/ last[1].index = NoIndex
                 \/ policy.index - last[1].index > policy.separation}

\* A type the client does not know, or a newer version of one it knows, is not implemented.
PolicyImplemented(policy, dev) ==
    policy.type \in PolicyTypes /\ policy.version <= ImplementedVersion(policy.type, dev)

\* The outcome of one policy for the tasks still eligible; an error makes none of them eligible.
EvaluatePolicy(policy, names, data, dev) ==
    CASE policy.type = "swor" -> ComputePerTaskSworEligibility(policy, names, data)
      [] policy.type = "data" -> IF ComputeDataAvailabilityEligibility(policy, dev) = "enough" THEN names ELSE {}
      [] policy.type = "custom" -> ComputeTfCustomPolicyEligibility(dev)
      [] policy.type = "minsep" ->
             ComputeMinimumSeparationPolicyEligibility(policy, names, data, dev.checkTrust)

\* The tasks left after every policy, in order; those that use an unimplemented policy go first.
\* The policies of a spec have names of their own, so a policy is known by its index.
ComputeEligibility(spec, data, dev) ==
    LET all == ToSet(spec.tasks)
        implemented == {i \in DOMAIN spec.policies : PolicyImplemented(spec.policies[i], dev)}
        unimplemented == {t \in all : spec.uses[t] \cap (DOMAIN spec.policies \ implemented) # {}}
        Step(eligible, i) ==
            LET names == {t \in eligible : i \in spec.uses[t]}
            IN  IF i \notin implemented \/ names = {} THEN eligible
                ELSE eligible \ (names \ EvaluatePolicy(spec.policies[i], names, data, dev))
    IN  FoldLeft(Step, all \ unimplemented, [i \in DOMAIN spec.policies |-> i])
=============================================================================
