-------------------------- MODULE ExampleIterators --------------------------
(***************************************************************************)
(* Where a plan's examples come from: the iterator factories of the        *)
(* runner, the iterators over federated select slices and over the         *)
(* operational statistics, and the DatasetIterator that stands between     *)
(* them and TensorFlow's threads (fcp/client/engine/plan_engine_helpers.cc,*)
(* fcp/client/federated_select.cc, fcp/client/opstats/opstats_example_store*)
(* .cc).                                                                   *)
(*                                                                         *)
(* What the iterators of a plan share and own is one record d, and their   *)
(* methods are operators from such a record to the next.  An example is    *)
(* reduced to its being there; a slice is known by its place in the        *)
(* selection, and every status but OK, OUT_OF_RANGE and CANCELLED is an    *)
(* error.                                                                  *)
(***************************************************************************)
EXTENDS Integers, Sequences, FiniteSets

CONSTANTS
    Iters,        \* the iterators the plan may make (bound)
    Uri,          \* the collection each one asks for
    NumSlices,    \* the slices a federated select query selects
    MaxExamples   \* bound on the examples any other query selects

NoFile == -1
Torn == -2

\* status is the ExampleIteratorStatus, total the total_example_count, and scratch the slice each
\* scratch file holds; errors remembers what went wrong.  Of an iterator, code is how its creation
\* and last how its last GetNext ended, count is example_count_ and recorded the examples it gave
\* (what its SingleExampleIteratorQueryRecorder counts, where there is one).
NewIter == [pc |-> "none", left |-> 0, code |-> "OK", count |-> 0, recorded |-> 0, last |-> "none"]

NewData(kind) ==
    [kind |-> kind, iter |-> [i \in Iters |-> NewIter], status |-> "OK", total |-> 0,
     stats |-> [i \in Iters |-> 0], scratch |-> [i \in Iters |-> NoFile], errors |-> {}]

-----------------------------------------------------------------------------
(* The factories, asked in this order.  Only the plans of a task have      *)
(* slices: what any other plan asks for them goes to the environment.      *)

EligibilityFactories == <<"opstats", "environment">>

LocalFactories == <<"opstats", "environment">>

TaskFactories == <<"federated_select", "opstats", "environment">>

Factories(kind) ==
    CASE kind = "eligibility" -> EligibilityFactories
      [] kind = "local" -> LocalFactories
      [] OTHER -> TaskFactories

CanHandle(factory, uri) == factory \in {uri, "environment"}

FindExampleIteratorFactory(factories, uri) ==
    factories[CHOOSE k \in DOMAIN factories :
        CanHandle(factories[k], uri) /\ \A j \in 1..(k - 1) : ~CanHandle(factories[j], uri)]

FactoryOf(d, i) == FindExampleIteratorFactory(Factories(d.kind), Uri[i])

ShouldCollectStats(d, i) == FactoryOf(d, i) # "federated_select"

\* A new iterator: how creating it ended, how many examples it has and whether there is a file.
Made(code, left, file) == [code |-> code, left |-> left, file |-> file]

DisabledFederatedSelect == {Made("error", 0, NoFile)}

\* All requests together fail, or one of the slices cannot be fetched.
FetchSlicesViaHttp == {"error", "OK"}

\* The criteria are not a SlicesSelector, there is no scratch file, or the slices are fetched: all
\* of them or none.  The scratch file of a failed fetch stays.
HttpFederatedSelect ==
    {Made("error", 0, NoFile)}
        \cup {Made(code, IF code = "OK" THEN NumSlices ELSE 0, 0) : code \in FetchSlicesViaHttp}

\* The entries within the time range, or the last successful contribution.
SelectedEntries == 0..MaxExamples

\* The criteria are no selection criteria or end before they start, the database cannot be read,
\* or the entries are selected; without any there is still one example.
OpStatsExamples ==
    {Made("error", 0, NoFile)}
        \cup {Made("OK", IF n = 0 THEN 1 ELSE n, NoFile) : n \in SelectedEntries}

EnvironmentExamples ==
    {Made(code, 0, NoFile) : code \in {"error", "CANCELLED"}}
        \cup {Made("OK", n, NoFile) : n \in 0..MaxExamples}

CreateExampleIterator(d, i) ==
    CASE FactoryOf(d, i) = "federated_select" -> DisabledFederatedSelect \cup HttpFederatedSelect
      [] FactoryOf(d, i) = "opstats" -> OpStatsExamples
      [] OTHER -> EnvironmentExamples

-----------------------------------------------------------------------------
(* ExampleIterator::Next of the three kinds: what it answers, the examples *)
(* left after it and the content of the scratch file.                      *)

\* Defective variant: the slice leaves the deque before it is in the file.
SlicesNextPopsFirst(left) ==
    IF left = 0 THEN {Made("OUT_OF_RANGE", 0, NoFile)}
    ELSE {Made("OK", left - 1, NumSlices - left + 1), Made("OK", left - 1, Torn), Made("error", left - 1, Torn)}

\* The slice is written to the file, over the one before, and leaves the deque once it is there;
\* after the last one the file is removed.  What close() fails to flush goes unnoticed.
SlicesNext(left) ==
    IF left = 0 THEN {Made("OUT_OF_RANGE", 0, NoFile)}
    ELSE {Made("OK", left - 1, NumSlices - left + 1), Made("OK", left - 1, Torn), Made("error", left, Torn)}

OpStatsNext(left) == {IF left = 0 THEN Made("OUT_OF_RANGE", 0, NoFile) ELSE Made("OK", left - 1, NoFile)}

EnvironmentNext(left) ==
    OpStatsNext(left) \cup {Made(code, left, NoFile) : code \in {"error", "CANCELLED"}}

NextAnswers(d, i) ==
    LET left == d.iter[i].left
    IN  CASE d.iter[i].pc = "failing" -> {Made(d.iter[i].code, 0, d.scratch[i])}
          [] d.iter[i].pc = "finished" -> {Made("OUT_OF_RANGE", left, d.scratch[i])}
          [] FactoryOf(d, i) = "federated_select" -> SlicesNext(left)
          [] FactoryOf(d, i) = "opstats" -> OpStatsNext(left)
          [] OTHER -> EnvironmentNext(left)

\* What Close leaves: closing the one over the statistics takes it back to its start, with no
\* entries, where it has its one example again.
LeftWhenClosed(d, i) == IF FactoryOf(d, i) = "opstats" THEN 1 ELSE 0

-----------------------------------------------------------------------------
(* The DatasetIterator.                                                    *)

\* Defective variant: the status of the last call, whatever it is.
SetStatusToLast(d, code) == [d EXCEPT !.status = code]

\* ExampleIteratorStatus: an error is not overwritten by a success of another thread.
SetStatus(d, code) == IF code \in {"OK", "OUT_OF_RANGE"} THEN d ELSE [d EXCEPT !.status = code]

Remembered(d, code) ==
    IF code \in {"OK", "OUT_OF_RANGE"} THEN d
    ELSE [d EXCEPT !.errors = @ \cup {code}]

\* The function MakeDataset gives to TensorFlow: an iterator that cannot be made is replaced by one
\* that fails.
MakeIterator(d, i, made) ==
    LET known == SetStatus(Remembered(d, made.code), made.code)
    IN  [known EXCEPT !.iter[i].pc = IF made.code = "OK" THEN "open" ELSE "failing",
                      !.iter[i].code = made.code, !.iter[i].left = made.left,
                      !.scratch[i] = made.file]

\* GetNext, under iterator_lock_; a is what the iterator's own Next answers.
GetNext(d, i, a) ==
    LET known == SetStatus(Remembered(d, a.code), a.code)
        counts == IF ShouldCollectStats(d, i) THEN 1 ELSE 0
        next == [known EXCEPT !.iter[i].left = a.left, !.iter[i].last = a.code, !.scratch[i] = a.file]
    IN  CASE d.iter[i].pc # "open" -> [d EXCEPT !.iter[i].last = a.code]
          [] a.code = "OUT_OF_RANGE" ->
                 [next EXCEPT !.iter[i].pc = "finished", !.iter[i].left = LeftWhenClosed(d, i)]
          [] a.code = "OK" ->
                 [next EXCEPT !.iter[i].recorded = @ + 1, !.iter[i].count = @ + counts, !.total = @ + counts]
          [] OTHER -> next

UpdateDatasetStats(stats, d, S) == [i \in Iters |-> IF i \in S THEN stats[i] + d.iter[i].count ELSE stats[i]]

\* ~DatasetIterator: its count goes to the statistics, and its iterator is destroyed.  A failing
\* iterator is not one of these.
Destroyed(d, S) ==
    LET live == {i \in S : d.iter[i].pc \in {"open", "finished"}}
    IN  [d EXCEPT !.iter = [i \in Iters |-> IF i \in S /\ @[i].pc # "none"
                                            THEN [@[i] EXCEPT !.pc = "destroyed", !.left = 0, !.last = "none"]
                                            ELSE @[i]],
                  !.stats = UpdateDatasetStats(@, d, {i \in live : ShouldCollectStats(d, i)}),
                  !.scratch = [i \in Iters |-> IF i \in live THEN NoFile ELSE @[i]]]
=============================================================================
