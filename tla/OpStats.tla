------------------------------- MODULE OpStats -------------------------------
(***************************************************************************)
(* The operational statistics of the device: the logger that collects the  *)
(* events of one run (fcp/client/opstats/opstats_logger_impl.cc), the      *)
(* database the runs are committed to (pds_backed_opstats_db.cc), and the  *)
(* queries over its history (opstats_utils.cc).                            *)
(*                                                                         *)
(* The logger is a record l:                                               *)
(*   real           FALSE for the no-op logger of a failed initialisation  *)
(*   phaseStats     the flag enable_phase_stats_logging (use_phase_stats_) *)
(*   events, task, index   the top level of the entry (stats_)             *)
(*   phases, cur    the finished phases and current_phase_stats_           *)
(*   committed      already_committed_                                     *)
(* An event is [kind, at]; the kinds that no query tells apart share one   *)
(* name.  An entry is kept in the database as the queries see it: the time *)
(* of its first top-level event, of its last event, and the uploads that   *)
(* count as contributions, oldest first (the conversion is pure, so doing  *)
(* it when the entry is written or when it is read is the same).           *)
(***************************************************************************)
EXTENDS Integers, Sequences, SequencesExt

CONSTANTS
    TTL,         \* opstats_ttl_days: how long an entry is kept
    MaxEntries,  \* opstats_db_size_limit_bytes, in entries (all of one size)
    Faults       \* the storage faults that may happen: {"read", "write"}

VARIABLES
    now,  \* the wall clock
    db    \* the database file: [entries, trust], trust the earliest_trustworthy_time

NoTime == -1
NoTask == "no task"
NoIndex == -1

\* absl::InfinitePast(), earlier than any now - TTL.
InfinitePast == -TTL - 1

NoPhase == [phase |-> "UNSPECIFIED", task |-> NoTask, events |-> <<>>]

NewLogger(real, phaseStats) ==
    [real |-> real, phaseStats |-> phaseStats, events |-> <<>>, task |-> NoTask, index |-> NoIndex,
     phases |-> <<>>, cur |-> NoPhase, committed |-> FALSE]

-----------------------------------------------------------------------------
(* OpStatsLoggerImpl.                                                      *)

InPhase(l) == l.phaseStats /\ l.cur.phase # "UNSPECIFIED"

\* AddEvent and AddEventWithErrorMessage, which differ in the message only.
AddEvent(l, kind) ==
    IF InPhase(l) THEN [l EXCEPT !.cur.events = Append(@, [kind |-> kind, at |-> now])]
                  ELSE [l EXCEPT !.events = Append(@, [kind |-> kind, at |-> now])]

AddEventAndSetTaskName(l, task, kind) ==
    IF InPhase(l) THEN [AddEvent(l, kind) EXCEPT !.cur.task = task]
                  ELSE [AddEvent(l, kind) EXCEPT !.task = task]

SetMinSepPolicyIndex(l, index) == [l EXCEPT !.index = index]

StopLoggingForTheCurrentPhase(l) ==
    IF InPhase(l) THEN [l EXCEPT !.phases = Append(@, l.cur), !.cur = NoPhase] ELSE l

StartLoggingForPhase(l, phase) ==
    IF l.phaseStats THEN [StopLoggingForTheCurrentPhase(l) EXCEPT !.cur.phase = phase] ELSE l

-----------------------------------------------------------------------------
(* opstats_utils.cc: one legacy entry per task from the phases of a run.   *)

\* The phases of a run grouped by task: every COMPUTATION starts a group made of the phases
\* before any assignment, the latest assignment, and what follows it.
GeneratePerTaskStats(phases) ==
    LET Step(acc, p) ==
            CASE p.phase \in {"ELIGIBILITY_EVAL_CHECKIN", "ELIGIBILITY_COMPUTATION"} ->
                     [acc EXCEPT !.pre = Append(@, p)]
              [] p.phase \in {"MULTIPLE_TASK_ASSIGNMENTS", "CHECKIN"} -> [acc EXCEPT !.latest = p]
              [] p.phase = "COMPUTATION" ->
                     [acc EXCEPT !.done = IF acc.pending = <<>> THEN @ ELSE Append(@, acc.pending),
                                 !.pending = acc.pre \o <<acc.latest, p>>]
              [] p.phase = "UPLOAD" -> [acc EXCEPT !.pending = Append(@, p)]
              [] OTHER -> acc
        end == FoldLeft(Step, [pre |-> <<>>, latest |-> NoPhase, pending |-> <<>>, done |-> <<>>], phases)
        groups == IF end.pending = <<>> THEN end.done ELSE Append(end.done, end.pending)
    IN  IF groups # <<>> THEN groups
        ELSE <<end.pre \o (IF end.latest.events = <<>> THEN <<>> ELSE <<end.latest>>)>>

\* The last task name of the group and all its events; the min-sep index of the run stays behind.
CreateLegacyOperationalStats(group) ==
    [task |-> FoldLeft(LAMBDA t, p : IF p.task = NoTask THEN t ELSE p.task, NoTask, group),
     events |-> FlattenSeq([i \in DOMAIN group |-> group[i].events]),
     index |-> NoIndex]

ConvertToLegacyOperationalStats(e) ==
    IF e.phases = <<>> THEN <<[task |-> e.task, events |-> e.events, index |-> e.index]>>
    ELSE LET groups == GeneratePerTaskStats(e.phases)
         IN  [i \in DOMAIN groups |-> CreateLegacyOperationalStats(groups[i])]

HasEvent(legacy, kind) == \E i \in DOMAIN legacy.events : legacy.events[i].kind = kind

\* What GetLastSuccessfulContributionForPredicate accepts: an upload was started and the server
\* did not abort it.
IsContribution(legacy) ==
    HasEvent(legacy, "RESULT_UPLOAD_STARTED") /\ ~HasEvent(legacy, "RESULT_UPLOAD_SERVER_ABORTED")

\* The time of its first upload-started event, with the index the entry was logged under.
GetContributionTimeForLegacyOpStats(legacy) ==
    [task |-> legacy.task, index |-> legacy.index,
     at |-> SelectSeq(legacy.events, LAMBDA ev : ev.kind = "RESULT_UPLOAD_STARTED")[1].at]

\* The contributions of a run, in the order the queries walk backwards through.
Contributions(e) ==
    LET all == SelectSeq(ConvertToLegacyOperationalStats(e), IsContribution)
    IN  [i \in DOMAIN all |-> GetContributionTimeForLegacyOpStats(all[i])]

\* The latest contribution of one of the tasks, over the whole history: <<>> when there is none.
GetLastSuccessfulContribution(data, tasks) ==
    LET all == FlattenSeq([i \in DOMAIN data.entries |-> data.entries[i].contributions])
        of == SelectSeq(all, LAMBDA c : c.task \in tasks)
    IN  IF of = <<>> THEN <<>> ELSE <<of[Len(of)]>>

-----------------------------------------------------------------------------
(* PdsBackedOpStatsDb.                                                     *)

GetLastUpdateTime(e) ==
    LET used == SelectSeq(e.phases, LAMBDA p : p.events # <<>>)
    IN  IF used # <<>> THEN Last(Last(used).events).at
        ELSE IF e.events = <<>> THEN InfinitePast ELSE Last(e.events).at

\* An entry as the database keeps it.
ToEntry(e) ==
    [first |-> IF e.events = <<>> THEN NoTime ELSE Head(e.events).at,
     last |-> GetLastUpdateTime(e),
     contributions |-> Contributions(e)]

CreateEmptyData == [entries |-> <<>>, trust |-> now]

GetEarliestTrustWorthyTime(entries) ==
    LET dated == SelectSeq(entries, LAMBDA e : e.first # NoTime)
    IN  IF dated = <<>> THEN now ELSE dated[1].first

RemoveOutdatedData(data) ==
    LET kept == SelectSeq(data.entries, LAMBDA e : e.last >= now - TTL)
    IN  [entries |-> kept, trust |-> IF Len(kept) < Len(data.entries) THEN now - TTL ELSE data.trust]

\* Defective variant: the trustworthy time stays when old entries are dropped.
PruneOldDataKeepsTrust(data) ==
    IF Len(data.entries) <= MaxEntries THEN data
    ELSE [data EXCEPT !.entries = SubSeq(@, Len(@) - MaxEntries + 1, Len(@))]

PruneOldDataUntilBelowSizeLimit(data) ==
    IF Len(data.entries) <= MaxEntries THEN data
    ELSE LET kept == SubSeq(data.entries, Len(data.entries) - MaxEntries + 1, Len(data.entries))
         IN  [entries |-> kept, trust |-> GetEarliestTrustWorthyTime(kept)]

\* What the logger passes to Transform.  The phase still open is part of what is written.  The first
\* commit of a run adds an entry; later ones replace the last entry, whatever became of the first.
CommitFunc(l, data) ==
    LET e == ToEntry([l EXCEPT !.phases = IF InPhase(l) THEN Append(@, l.cur) ELSE @])
    IN  [data EXCEPT !.entries = IF l.committed /\ @ # <<>> THEN [@ EXCEPT ![Len(@)] = e]
                                 ELSE Append(@, e)]

\* What Transform writes when it has read data.
Transformed(data, l) ==
    LET pruned == PruneOldDataUntilBelowSizeLimit(CommitFunc(l, data))
    IN  [pruned EXCEPT !.trust = IF @ = NoTime THEN GetEarliestTrustWorthyTime(pruned.entries) ELSE @]

\* The outcomes of Transform: a failed read resets the database and goes on from empty data with
\* no trustworthy time; a failed reset or write leaves what was there.
Transform(l) ==
    LET Outcome(fault, data, ok) == IF fault \subseteq Faults THEN {[db |-> data, ok |-> ok, faulty |-> fault # {}]} ELSE {}
    IN  Outcome({}, Transformed(RemoveOutdatedData(db), l), TRUE)
        \cup Outcome({"read"}, Transformed([entries |-> <<>>, trust |-> NoTime], l), TRUE)
        \cup Outcome({"write"}, db, FALSE)
        \cup Outcome({"read", "write"}, CreateEmptyData, FALSE)

\* The outcomes of Read, which resets the database when it fails.
Read ==
    {[db |-> db, ok |-> TRUE]}
    \cup (IF "read" \in Faults THEN {[db |-> CreateEmptyData, ok |-> FALSE]} ELSE {})
    \cup (IF {"read", "write"} \subseteq Faults THEN {[db |-> db, ok |-> FALSE]} ELSE {})

CommitToStorage(l) ==
    IF l.real THEN Transform(l) ELSE {[db |-> db, ok |-> TRUE, faulty |-> FALSE]}
=============================================================================
