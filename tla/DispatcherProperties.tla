------------------------ MODULE DispatcherProperties ------------------------
(***************************************************************************)
(* What makes the dispatcher of a backtest correct.                        *)
(***************************************************************************)
EXTENDS BacktestingDispatcher

Runs(w) == state[w] \in {"handed", "running"}
Busy == queue # <<>> \/ \E w \in Workers : Runs(w)

\* The task pool is what dispatchers take it for: what was pushed begins in that order, once, on
\* no more workers than there are, and a cancelation drops only what has not begun
\* (helpers.py:85).  What a worker was handed and has not begun still waits.
Waiting == [i \in 1..Len(handed) |-> doing[handed[i]]] \o queue
Running == [w \in Workers |-> IF state[w] = "running" THEN doing[w] ELSE Nothing]

Pool == INSTANCE HandlerPool
            WITH waiting <- Waiting, running <- Running, Room <- MaxQueue + Cardinality(Workers)

PoolImplemented == Pool!PoolSpec

\* A job runs at the time it was scheduled for, or, if that time was past by then, at the time when
\* it was scheduled: it never sees the future (dispatcher.py:389).
JobsOnTime ==
    \A w \in Workers : Handles(w, "job") =>
        lastDt = Max({doing[w].job.when, doing[w].job.from})

\* The loop ends by itself only when every event was dispatched and every job executed, except
\* those created by the last jobs themselves (dispatcher.py:378: "No more events. Dispatch all pending
\* scheduled jobs before stopping.").
EverythingDispatched ==
    loop = "over" =>
        /\ ~Busy
        /\ \A s \in SourceSet : \A i \in DOMAIN pending[s] : pending[s][i].late
        /\ \A j \in BagToSet(jobs) : j.late /\ j.when > target

\* Once the producers are finalized no handler runs, and none will (dispatcher.py:269).
FinalizedLast == loop = "ended" => ~Busy

\* The clock stands still while handlers or jobs run, or are about to.
ClockWaits == [][lastDt' # lastDt => lastDt' > lastDt /\ ~Busy]_vars

\* Events are dispatched in order (dispatcher.py:142): none is popped after a younger one, nor
\* while a source has an older one, or one of the same age and a higher priority.
EventsInOrder ==
    [][\A s \in SourceSet :
        Len(pending'[s]) < Len(pending[s]) =>
            /\ NextOf(s).when >= latest
            /\ \A t \in SourceSet : HasEvents(t) =>
                \/ NextOf(s).when < NextOf(t).when
                \/ (NextOf(s).when = NextOf(t).when /\ Priority[s] >= Priority[t])]_vars

\* A backtest ends, stopped or not.
RunEnds == <>(loop = "ended")

\* The assertion of the loop holds (dispatcher.py:370): "Check that events are processed in ascending order."
NeverLate == loop # "failed"
=============================================================================
