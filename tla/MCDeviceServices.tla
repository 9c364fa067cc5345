------------------------- MODULE MCDeviceServices --------------------------
(***************************************************************************)
(* Instances of what the device's runner calls, as parts of one run:       *)
(* fetching in memory with the Java HTTP client, fetching through the      *)
(* cache of resources, the SecAgg client over HTTP, and the engines that   *)
(* run a plan.  Each part does nothing but its own steps.                  *)
(***************************************************************************)
EXTENDS Integers, Sequences

CONSTANTS NumRequests, Ids, MaxSize, MaxAge, Faults, MaxTime, HasCheckpoint,
          Iters, NumSlices, MaxExamples, MaxMade, MaxLogged

VARIABLES
    answer, cb, abort, main, pool, handle, thread,         \* of JavaHttpClient
    now, manifest, files, up, job,                         \* of ResourceCache
    secAggAbort, secAggMain, signal, round, mu, sending,   \* of SecAggOverHttp
    holder, worker, arrived, senders,
    plan, planMain, planWorker, planAbort, session,        \* of PlanEngine
    delegate, data,
    part                                                   \* what is done

\* Two chunks of known length, an error of the server, and an empty body that is compressed.
Answers == {[code |-> 200, length |-> 2, chunks |-> 2, encoded |-> FALSE],
            [code |-> 503, length |-> 0, chunks |-> 0, encoded |-> FALSE],
            [code |-> 200, length |-> 0, chunks |-> 0, encoded |-> TRUE]}

\* "a" and "b" fill the cache nearly when plain, "c" is only cached when compressed.
Size(id, form) ==
    CASE id = "a" -> IF form = "plain" THEN 3 ELSE 2
      [] id = "b" -> IF form = "plain" THEN 3 ELSE 1
      [] OTHER -> IF form = "plain" THEN 4 ELSE 3

Cached(id) == [id |-> id, kind |-> "cached"]
Fetches == {<<Cached("a"), Cached("b")>>, <<Cached("b"), Cached("b")>>, <<Cached("c")>>,
            <<Cached("a"), [id |-> "b", kind |-> "uri"], [id |-> "c", kind |-> "inline"]>>}

Http == INSTANCE JavaHttpClient
Cache == INSTANCE ResourceCache WITH Requests <- Fetches
SecAgg == INSTANCE SecAggOverHttp WITH abort <- secAggAbort, main <- secAggMain

\* A task's first iterator is over slices, that of any other plan over the environment's examples.
Plan ==
    INSTANCE PlanEngine
        WITH main <- planMain, worker <- planWorker, abort <- planAbort,
             Uri <- <<"federated_select", "opstats">>, Queries <- <<1, 2>>,
             DataTypes <- {"INT32", "BYTES"}

httpVars == <<answer, cb, abort, main, pool, handle, thread>>
cacheVars == <<now, manifest, files, up, job>>
secAggVars == <<secAggAbort, secAggMain, signal, round, mu, sending, holder, worker, arrived, senders>>
planVars == <<plan, planMain, planWorker, planAbort, session, delegate, data>>
vars == <<httpVars, cacheVars, secAggVars, planVars, part>>

Init ==
    /\ part \in {"http", "cache", "secagg", "plan"}
    /\ Http!Init /\ (part # "http" => \A r \in 1..NumRequests : answer[r].code = 503)
    /\ Cache!Init
    /\ SecAgg!Init
    /\ Plan!PlanInit /\ (part # "plan" => plan = CHOOSE p \in Plan!Plans : TRUE)

OfHttp(A) == part = "http" /\ A /\ UNCHANGED <<cacheVars, secAggVars, planVars, part>>
OfSecAgg(A) == part = "secagg" /\ A /\ UNCHANGED <<httpVars, cacheVars, planVars, part>>
OfPlan(A) == part = "plan" /\ A /\ UNCHANGED <<httpVars, cacheVars, secAggVars, part>>

Next ==
    \/ OfHttp(Http!Next)
    \/ part = "cache" /\ Cache!Next /\ UNCHANGED <<httpVars, secAggVars, planVars, part>>
    \/ OfSecAgg(SecAgg!Next)
    \/ OfPlan(Plan!PlanNext)

\* The fairness of the specifications.  As a behaviour has steps of one part only, an action of each
\* part shares a conjunct.
Fairness ==
    /\ WF_vars(OfHttp(Http!Running /\ Http!Local) \/ OfSecAgg(SecAgg!Worker) \/ OfPlan(Plan!MainStep))
    /\ WF_vars(OfSecAgg(SecAgg!Main))
    /\ WF_vars(OfSecAgg(SecAgg!Interrupted))

Spec == Init /\ [][Next]_vars /\ Fairness

-----------------------------------------------------------------------------
(* Properties.                                                             *)

\* Each request sees only the sequences of callbacks http_client.h promises, from its executor's
\* thread, from a cancelling thread and at the end of PerformRequests.
HonoursContract == Http!HonoursContract

\* An abort gets the calling thread out of InterruptibleRunner::Run although the network, the
\* server or TensorFlow never answers, be it fetching, taking part in Secure Aggregation or running
\* a plan.
AbortsEnd == Http!AbortEnds /\ SecAgg!AbortEnds /\ Plan!AbortedPlanEnds

\* Across failures and restarts the cache stays below its bound, and the form it says a resource has
\* is the form of the file.
CacheIsConsistent == Cache!CacheFits /\ Cache!MetadataMatchesFile

\* A response handed to the caller as OK carries the whole body the server sent, and a resource that
\* is fetched successfully is whole and decoded, be it from the server, from the cache or inline.
FetchedIsWhole == Http!OkMeansWhole /\ Cache!FetchedIsWhole

\* The server receives the requests of the protocol in order and once each, the client is never
\* given a message left over from an earlier round, and a run that is reported as a success has
\* submitted its result and was not aborted.
ServerSeesProtocol == SecAgg!ServerSeesProtocol /\ SecAgg!NoStaleMessage /\ SecAgg!OkMeansSubmitted

\* The outcome of a plan blames TensorFlow, an iterator or an abort only for what it did, and when it
\* is returned nothing of the computation lives and its examples are all accounted for.
PlanResultIsTruthful == Plan!PlanResultIsTruthful

\* Slices are served one by one in the order asked for, also after a write that failed.
SlicesAreServedInOrder == Plan!SlicesAreServedInOrder
=============================================================================
