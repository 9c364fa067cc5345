----------------------------- MODULE AlarmClock -----------------------------
(***************************************************************************)
(* Clock, RealTimeClock and SimulatedClock (fcp/base/clock.cc,             *)
(* fcp/base/simulated_clock.cc): waiters with deadlines, woken by whichever*)
(* thread happens to dispatch.                                             *)
(*                                                                         *)
(* A waiter is the number of its WakeupWithDeadline call, so that waiters  *)
(* are numbered in the order in which they entered pending_waiters_.  Time *)
(* is counted in half milliseconds.                                        *)
(***************************************************************************)
EXTENDS Integers, Sequences, FiniteSets

CONSTANTS
    Callers,     \* the threads that call the clock
    MaxTime,     \* bound on the time
    MaxWaiters,  \* bound on the waiters
    MaxLevel     \* bound on the dispatch_level_ at which the time is set

VARIABLES
    kind,      \* which of the two clocks this is
    now,       \* the time
    deadline,  \* the deadline of every waiter so far
    pending,   \* pending_waiters_, the waiters in it
    level,     \* dispatch_level_
    thread,    \* where each thread is and the wake-ups it still has to make
    timer,     \* next_wakeup_, and whether the worker has been signalled
    woken      \* the waiters woken so far, in order

clockVars == <<kind, now, deadline, pending, level, thread, timer, woken>>

Worker == "worker"
Dispatchers == Callers \cup {Worker}
InfiniteFuture == MaxTime + 2

Goto(t, pc) == thread' = [thread EXCEPT ![t].pc = pc]

\* The first of a set of waiters in the map's order: by deadline, then by arrival.
Before(v, w) == deadline[v] < deadline[w] \/ (deadline[v] = deadline[w] /\ v < w)
Earliest(S) == CHOOSE v \in S : \A w \in S \ {v} : Before(v, w)

\* A set of waiters as the sequence of the map's buckets.
InOrder(S) == CHOOSE q \in [1..Cardinality(S) -> S] : \A j, k \in DOMAIN q : j < k => Before(q[j], q[k])

-----------------------------------------------------------------------------
(* Calls from outside.                                                     *)

\* The waiter enters the map; then the thread dispatches.
WakeupWithDeadline(t, d) ==
    /\ thread[t].pc = "idle" /\ Len(deadline) < MaxWaiters
    /\ deadline' = Append(deadline, d)
    /\ pending' = pending \cup {Len(deadline) + 1}
    /\ Goto(t, "check")
    /\ UNCHANGED <<kind, now, level, timer, woken>>

\* SetTime and AdvanceTime of the SimulatedClock, which may also go back.
SetTime(t, time) ==
    /\ kind = "simulated" /\ thread[t].pc = "idle" /\ time # now /\ level < MaxLevel
    /\ now' = time
    /\ Goto(t, "check")
    /\ UNCHANGED <<kind, deadline, pending, level, timer, woken>>

\* The RealTimeClock's time passes.
Tick ==
    /\ kind = "real" /\ now < MaxTime
    /\ now' = now + 1
    /\ UNCHANGED <<kind, deadline, pending, level, thread, timer, woken>>

-----------------------------------------------------------------------------
(* DispatchWakeups.                                                        *)

CheckReentrancy(t) ==
    /\ thread[t].pc = "check"
    /\ level' = level + 1
    /\ Goto(t, IF level > 0 THEN "idle" ELSE "collect")
    /\ UNCHANGED <<kind, now, deadline, pending, timer, woken>>

GetExpiredWaiters(t) ==
    LET due == {w \in pending : deadline[w] <= now}
    IN  /\ thread[t].pc = "collect"
        /\ pending' = pending \ due
        /\ thread' = [thread EXCEPT ![t] = [pc |-> "wake", calls |-> InOrder(due)]]
        /\ UNCHANGED <<kind, now, deadline, level, timer, woken>>

\* Waiter::WakeUp, outside of the lock.  What it does is the waiter's; if it asks for another
\* wake-up, its own dispatch finds this one in progress.
WakeUp(t, rearms, d) ==
    /\ thread[t].pc = "wake" /\ thread[t].calls # <<>>
    /\ woken' = Append(woken, Head(thread[t].calls))
    /\ thread' = [thread EXCEPT ![t].calls = Tail(@)]
    /\ IF rearms /\ Len(deadline) < MaxWaiters
       THEN /\ deadline' = Append(deadline, d)
            /\ pending' = pending \cup {Len(deadline) + 1}
            /\ level' = level + 1
       ELSE UNCHANGED <<deadline, pending, level>>
    /\ UNCHANGED <<kind, now, timer>>

\* Defective variant: the worker is left asleep until the time it knows of.
ScheduleWakeupUnsignalled(time) ==
    timer' = [timer EXCEPT !.next = time + (time % 2)]

\* Rounded up to milliseconds; nothing is to be done if this is the time already.  The SimulatedClock
\* schedules nothing.
ScheduleWakeup(time) ==
    LET rounded == time + (time % 2)
    IN  timer' = IF kind = "simulated" \/ rounded = timer.next THEN timer
                 ELSE [timer EXCEPT !.next = rounded, !.signalled = TRUE]

FinishDispatchAndScheduleNextWakeup(t) ==
    LET next == deadline[Earliest(pending)]
    IN  /\ thread[t].pc = "wake" /\ thread[t].calls = <<>>
        /\ level' = 0
        /\ CASE pending = {} -> Goto(t, "idle") /\ UNCHANGED timer
             [] pending # {} /\ (level > 1 \/ next <= now) -> Goto(t, "check") /\ UNCHANGED timer
             [] OTHER -> Goto(t, "idle") /\ ScheduleWakeup(next)
        /\ UNCHANGED <<kind, now, deadline, pending, woken>>

-----------------------------------------------------------------------------
(* The worker of the RealTimeClock.                                        *)

\* WaitWithDeadline begins, until the time that is next_wakeup_ now.
WaitWithDeadline ==
    /\ kind = "real" /\ thread[Worker].pc = "idle"
    /\ Goto(Worker, "wait")
    /\ timer' = [timer EXCEPT !.until = timer.next, !.signalled = FALSE]
    /\ UNCHANGED <<kind, now, deadline, pending, level, woken>>

\* It ends, signalled or at its time.
WorkerLoop ==
    /\ thread[Worker].pc = "wait"
    /\ timer.signalled \/ now >= timer.until
    /\ IF now >= timer.next
       THEN Goto(Worker, "check") /\ timer' = [timer EXCEPT !.next = InfiniteFuture, !.signalled = FALSE]
       ELSE Goto(Worker, "idle") /\ timer' = [timer EXCEPT !.signalled = FALSE]
    /\ UNCHANGED <<kind, now, deadline, pending, level, woken>>

-----------------------------------------------------------------------------
ClockInit ==
    /\ kind \in {"real", "simulated"}
    /\ now = 0 /\ deadline = <<>> /\ pending = {} /\ level = 0 /\ woken = <<>>
    /\ thread = [t \in Dispatchers |-> [pc |-> "idle", calls |-> <<>>]]
    /\ timer = [next |-> InfiniteFuture, until |-> InfiniteFuture, signalled |-> FALSE]

Dispatch(t) ==
    \/ CheckReentrancy(t) \/ GetExpiredWaiters(t) \/ FinishDispatchAndScheduleNextWakeup(t)
    \/ \E rearms \in BOOLEAN, d \in 0..MaxTime : WakeUp(t, rearms, d)

WorkerStep == WaitWithDeadline \/ WorkerLoop

ClockNext ==
    \/ \E t \in Callers, d \in 0..MaxTime : WakeupWithDeadline(t, d) \/ SetTime(t, d)
    \/ Tick
    \/ \E t \in Dispatchers : Dispatch(t)
    \/ WorkerStep

\* Threads run, and a wake-up returns.  Nobody has to call, and time need not pass.
ClockFairness == WF_clockVars(WorkerStep) /\ \A t \in Dispatchers : WF_clockVars(Dispatch(t))

ClockSpec == ClockInit /\ [][ClockNext]_clockVars /\ ClockFairness

-----------------------------------------------------------------------------
(* Properties.                                                             *)

Dispatching == {t \in Dispatchers : thread[t].pc \in {"collect", "wake"}}

\* However the calls of the threads interleave, one thread dispatches at a time, a waiter is woken
\* once, and of two waiters the one that came first and is due no later is woken first.
WokenInOrder ==
    /\ Cardinality(Dispatching) <= 1
    /\ \A j, k \in DOMAIN woken :
           j < k => woken[j] # woken[k] /\ ~(woken[k] < woken[j] /\ deadline[woken[k]] <= deadline[woken[j]])

Due(w) == (IF kind = "real" THEN deadline[w] + (deadline[w] % 2) ELSE deadline[w]) <= now

\* A waiter whose deadline has come, rounded up to milliseconds, is woken, though the thread that
\* brought it or the timer that was meant for it gave way to a dispatch in progress (a
\* SimulatedClock may be set back first): again and again nobody is overdue.
DueWaitersAreWoken == []<>(\A w \in pending : ~Due(w))
=============================================================================
