------------------------- MODULE RealtimeDispatcher -------------------------
(***************************************************************************)
(* The event dispatcher of live trading (core/dispatcher.py): a loop that  *)
(* feeds the task pool with the jobs and events whose time has come, and   *)
(* does not wait for their handlers.  Time is the time of day, which       *)
(* passes meanwhile; what pushes events and what handlers do is for the    *)
(* composition to say.                                                     *)
(***************************************************************************)
EXTENDS HandlerPool, Integers, FiniteSetsExt, SequencesExt

CONSTANTS
    Sources,       \* the subscribed event sources, in the order of their subscription
    Priority,      \* the priority of each
    MaxTime        \* bound: the clock

SourceSet == {Sources[i] : i \in DOMAIN Sources}

ASSUME RealtimeAssumption ==
    /\ Priority \in [SourceSet -> Int]
    /\ MaxTime \in Nat

VARIABLES
    clock,
    pending,    \* the events of each source
    jobs,       \* _scheduler_queue: the times of the jobs
    prevDt,     \* _prev_event_dt, 0 if there is none
    now,        \* what the clock said when the iteration began, 0 between iterations
    loop,       \* is the loop between iterations or pushing?
    jobHeld,    \* the job _push_scheduled waits to push
    eventHeld,  \* the event _push_events waits to push
    stopped     \* _stopped

dispatcher == <<pending, jobs, prevDt, now, loop, jobHeld, eventHeld, stopped>>

DispatcherInit ==
    /\ PoolInit
    /\ pending = [s \in SourceSet |-> <<>>]
    /\ jobs = {}
    /\ prevDt = [s \in SourceSet |-> 0]
    /\ now = 0 /\ loop = "between" /\ stopped = FALSE
    /\ jobHeld = Nothing /\ eventHeld = Nothing

-----------------------------------------------------------------------------
(* The event multiplexer: of the events whose time has come the oldest; of *)
(* those of one time the one of highest priority, and then the first.      *)

Due(s) == pending[s] # <<>> /\ Head(pending[s]).when <= now

Before(s, t) ==
    LET a == Head(pending[s]).when
        b == Head(pending[t]).when
        Place(u) == CHOOSE i \in DOMAIN Sources : Sources[i] = u
    IN  \/ a < b
        \/ a = b /\ Priority[s] > Priority[t]
        \/ a = b /\ Priority[s] = Priority[t] /\ Place(s) < Place(t)

Chosen == {s \in SourceSet : Due(s) /\ \A t \in SourceSet \ {s} : Due(t) => Before(s, t)}

-----------------------------------------------------------------------------
(* The dispatch loop.  _push_scheduled goes first, and lets _push_events   *)
(* go on only when it is through or waits for room in the pool.            *)

Iterate ==
    /\ loop = "between" /\ ~stopped
    /\ loop' = "pushing" /\ now' = clock
    /\ UNCHANGED <<handlerPool, pending, jobs, prevDt, jobHeld, eventHeld, stopped>>

JobDue == jobs # {} /\ Min(jobs) <= now

PushScheduled ==
    /\ loop = "pushing" /\ ~stopped
    /\ jobHeld = Nothing /\ JobDue
    /\ LET item == [kind |-> "job", when |-> Min(jobs)]
       IN  IF HasRoom THEN Push(item) /\ UNCHANGED jobHeld
                      ELSE jobHeld' = item /\ UNCHANGED handlerPool
    /\ jobs' = jobs \ {Min(jobs)}
    /\ UNCHANGED <<pending, prevDt, now, loop, eventHeld, stopped>>

\* Mutation of Refused: an event is passed on whatever its age.
NeverRefused(s, e) == FALSE

\* The sources' events are to come in order.
Refused(s, e) == e.when < prevDt[s]

PushEvents ==
    /\ loop = "pushing" /\ ~stopped
    /\ eventHeld = Nothing /\ (jobHeld # Nothing \/ ~JobDue)
    /\ \E s \in Chosen :
        LET e == Head(pending[s])
            item == [kind |-> "event", source |-> s, event |-> e]
        IN  /\ pending' = [pending EXCEPT ![s] = Tail(@)]
            /\ IF Refused(s, e)
               THEN UNCHANGED <<handlerPool, prevDt, eventHeld>>
               ELSE /\ prevDt' = [prevDt EXCEPT ![s] = e.when]
                    /\ IF HasRoom THEN Push(item) /\ UNCHANGED eventHeld
                                  ELSE eventHeld' = item /\ UNCHANGED handlerPool
    /\ UNCHANGED <<jobs, now, loop, jobHeld, stopped>>

PushHeldJob ==
    /\ loop = "pushing" /\ ~stopped /\ jobHeld # Nothing
    /\ Push(jobHeld)
    /\ jobHeld' = Nothing
    /\ UNCHANGED <<pending, jobs, prevDt, now, loop, eventHeld, stopped>>

PushHeldEvent ==
    /\ loop = "pushing" /\ ~stopped /\ eventHeld # Nothing
    /\ Push(eventHeld)
    /\ eventHeld' = Nothing
    /\ UNCHANGED <<pending, jobs, prevDt, now, loop, jobHeld, stopped>>

\* Both are through, and other tasks get a turn.
Pushed ==
    /\ loop = "pushing" /\ ~stopped
    /\ jobHeld = Nothing /\ eventHeld = Nothing /\ ~JobDue /\ Chosen = {}
    /\ loop' = "between" /\ now' = 0
    /\ UNCHANGED <<handlerPool, pending, jobs, prevDt, jobHeld, eventHeld, stopped>>

LoopStep ==
    Iterate \/ PushScheduled \/ PushEvents \/ PushHeldJob \/ PushHeldEvent \/ Pushed

\* stop(): the loop and the handlers are canceled.
Stop ==
    /\ ~stopped
    /\ stopped' = TRUE
    /\ Cancel
    /\ jobHeld' = Nothing /\ eventHeld' = Nothing
    /\ UNCHANGED <<pending, jobs, prevDt, now, loop>>
=============================================================================
