------------------------ MODULE BacktestingDispatcher ------------------------
(***************************************************************************)
(* The event dispatcher of a backtest (core/dispatcher.py): the dispatch   *)
(* loop, the event sources it merges, the scheduler's queue, and the       *)
(* handlers and jobs that the task pool runs meanwhile.                    *)
(*                                                                         *)
(* A handler is modelled by what it may do to the dispatcher: push events  *)
(* to other sources, schedule jobs, stop it.  A source is the queue of its *)
(* events, the one the multiplexer prefetched being the first.             *)
(***************************************************************************)
EXTENDS TaskPool, Integers, FiniteSetsExt, SequencesExt, Functions, Bags

CONSTANTS
    Sources,      \* the subscribed event sources, in the order of their subscription
    Priority,     \* the priority of each
    Scripts,      \* what the sources hold when the backtest starts: functions to times
    Forwards,     \* for each source, where its handlers push an event with the same time
    Emits,        \* for each source, where its handlers push an event with the current time
    JobEmits,     \* where jobs push an event with the current time
    FirstJobs,    \* times at which a job may be scheduled before the backtest starts
    Delays,       \* how far from now handlers and jobs schedule jobs
    MaxEvents,    \* bound on the events of a backtest
    MaxJobs,      \* bound on the jobs of a backtest
    MayStop       \* is the dispatcher stopped from outside or by a handler?

SourceSet == Range(Sources)

ASSUME DispatcherAssumption ==
    /\ Priority \in [SourceSet -> Int]
    /\ Scripts \subseteq [SourceSet -> Seq(Nat \ {0})]
    /\ Forwards \in [SourceSet -> SUBSET SourceSet]
    /\ Emits \in [SourceSet -> SUBSET SourceSet]
    /\ JobEmits \subseteq SourceSet
    /\ FirstJobs \in SUBSET (Nat \ {0}) /\ IsFiniteSet(FirstJobs)
    /\ Delays \in SUBSET Int
    /\ MaxEvents \in Nat /\ MaxJobs \in Nat
    /\ MayStop \in BOOLEAN

VARIABLES
    pending,   \* the events of each source
    jobs,      \* _scheduler_queue, a bag
    lastDt,    \* _last_dt, 0 if there is none
    stopped,   \* _stopped
    loop,      \* where _dispatch_loop, and then run(), are
    target,    \* the time _dispatch_scheduled and _dispatch_events work up to
    draining,  \* the sources are empty, the last jobs run
    blocked,   \* the work that waits for room in the pool
    created,   \* how many events and jobs the handlers created, for the bounds
    latest     \* history: the time of the last event popped

loopVars == <<pending, jobs, lastDt, stopped, loop, target, draining, blocked, created, latest>>
vars == <<poolVars, loopVars>>

\* "late" marks what was created when there were no more events.
Event == [when : Nat \ {0}, late : BOOLEAN]
Job == [when : Int, from : Nat, late : BOOLEAN]
Work == [kind : {"event"}, source : SourceSet, event : Event] \union [kind : {"job"}, job : Job]

TypeOK ==
    /\ PoolTypeOK(Work)
    /\ pending \in [SourceSet -> Seq(Event)]
    /\ IsABag(jobs) /\ BagToSet(jobs) \subseteq Job
    /\ lastDt \in Nat
    /\ stopped \in BOOLEAN
    /\ loop \in {"peek", "jobs", "jobWait", "events", "blocked", "eventsWait", "over", "failed",
                 "cleanup", "ended"}
    /\ target \in Int
    /\ draining \in BOOLEAN
    /\ blocked \in Work \union {Nothing}
    /\ created \in [events : Nat, jobs : Nat]
    /\ latest \in Nat

Init ==
    /\ PoolInit
    /\ \E script \in Scripts :
        pending = [s \in SourceSet |->
                    [i \in DOMAIN script[s] |-> [when |-> script[s][i], late |-> FALSE]]]
    /\ \E times \in SUBSET FirstJobs :
        jobs = SetToBag({[when |-> t, from |-> 0, late |-> FALSE] : t \in times})
    /\ lastDt = 0 /\ stopped = FALSE
    /\ loop = "peek" /\ target = 0 /\ draining = FALSE /\ blocked = Nothing
    /\ created = [events |-> 0, jobs |-> 0]
    /\ latest = 0
-----------------------------------------------------------------------------
(* The event multiplexer. *)

HasEvents(s) == pending[s] # <<>>
NextOf(s) == Head(pending[s])

\* Mutation of Better: priorities are not looked at.
Older(s, best, maxDt) ==
    HasEvents(s) /\ NextOf(s).when <= maxDt
        /\ \A b \in best : NextOf(s).when < NextOf(b).when

\* pop(): the sources one after the other, the best so far being replaced by an older event, or by
\* one of the same age and a higher priority.
Better(s, best, maxDt) ==
    LET upper == IF best = {} THEN maxDt ELSE NextOf(CHOOSE b \in best : TRUE).when
    IN  /\ HasEvents(s) /\ NextOf(s).when <= upper
        /\ \/ NextOf(s).when < upper
           \/ best = {}
           \/ \E b \in best : Priority[s] > Priority[b]

\* The source to pop from, as a set that is empty if there is none.
Chosen(maxDt) ==
    FoldLeft(LAMBDA best, s : IF Better(s, best, maxDt) THEN {s} ELSE best, {}, Sources)

NextDt == Min({NextOf(s).when : s \in {t \in SourceSet : HasEvents(t)}})
-----------------------------------------------------------------------------
(* The dispatch loop. *)

JobTimes == {j.when : j \in BagToSet(jobs)}

\* Whatever stops the dispatcher: the loop is canceled at its next await, and so are the handlers.
StopAll == stopped' = TRUE /\ Cancel

InOrder == lastDt = 0 \/ NextDt >= lastDt

\* The beginning of an iteration: what is next?
Peek ==
    /\ loop = "peek" /\ ~stopped
    /\ IF \E s \in SourceSet : HasEvents(s)
       THEN /\ IF InOrder
               THEN loop' = "jobs" /\ target' = NextDt
               ELSE loop' = "failed" /\ UNCHANGED target
            /\ UNCHANGED <<draining, stopped, poolVars>>
       ELSE IF jobs # EmptyBag
       THEN /\ loop' = "jobs" /\ target' = Max(JobTimes) /\ draining' = TRUE
            /\ UNCHANGED <<stopped, poolVars>>
       ELSE loop' = "over" /\ StopAll /\ UNCHANGED <<target, draining>>
    /\ UNCHANGED <<pending, jobs, lastDt, blocked, created, latest>>

\* Mutation of JobIsDue: not the jobs of the very time.
JobIsPast == jobs # EmptyBag /\ Min(JobTimes) < target

JobIsDue == jobs # EmptyBag /\ Min(JobTimes) <= target

\* The time when a job that was scheduled for a time runs.
TimeOfJob(when) == IF lastDt = 0 \/ when > lastDt THEN when ELSE lastDt

\* _dispatch_scheduled: one job, of those with the same time any.
RunJob ==
    /\ loop = "jobs" /\ ~stopped
    /\ JobIsDue
    /\ \E j \in BagToSet(jobs) :
        /\ j.when = Min(JobTimes)
        /\ jobs' = jobs (-) SetToBag({j})
        /\ lastDt' = TimeOfJob(j.when)
        /\ Push([kind |-> "job", job |-> j])
    /\ loop' = "jobWait"
    /\ UNCHANGED <<pending, stopped, target, draining, blocked, created, latest>>

JobDone ==
    /\ loop = "jobWait" /\ ~stopped
    /\ AllDone
    /\ loop' = "jobs"
    /\ UNCHANGED <<poolVars, pending, jobs, lastDt, stopped, target, draining, blocked, created, latest>>

\* No job is due any more: on to the events, or, if there were none, to the end.
JobsDone ==
    /\ loop = "jobs" /\ ~stopped
    /\ ~JobIsDue
    /\ IF draining
       THEN loop' = "over" /\ StopAll /\ UNCHANGED lastDt
       ELSE loop' = "events" /\ lastDt' = target /\ UNCHANGED <<stopped, poolVars>>
    /\ UNCHANGED <<pending, jobs, target, draining, blocked, created, latest>>

\* _dispatch_events: one event, which waits if the pool has no room for it.
PopEvent ==
    /\ loop = "events" /\ ~stopped
    /\ \E s \in SourceSet :
        /\ s \in Chosen(target) /\ HasEvents(s)
        /\ LET item == [kind |-> "event", source |-> s, event |-> NextOf(s)]
           IN  IF HasRoom
               THEN Push(item) /\ UNCHANGED <<loop, blocked>>
               ELSE loop' = "blocked" /\ blocked' = item /\ UNCHANGED poolVars
        /\ pending' = [pending EXCEPT ![s] = Tail(@)]
        /\ latest' = NextOf(s).when
    /\ UNCHANGED <<jobs, lastDt, stopped, target, draining, created>>

PushBlocked ==
    /\ loop = "blocked" /\ ~stopped
    /\ Push(blocked)
    /\ loop' = "events" /\ blocked' = Nothing
    /\ UNCHANGED <<pending, jobs, lastDt, stopped, target, draining, created, latest>>

EventsPushed ==
    /\ loop = "events" /\ ~stopped
    /\ Chosen(target) = {}
    /\ loop' = "eventsWait"
    /\ UNCHANGED <<poolVars, pending, jobs, lastDt, stopped, target, draining, blocked, created, latest>>

EventsDone ==
    /\ loop = "eventsWait" /\ ~stopped
    /\ AllDone
    /\ loop' = "peek"
    /\ UNCHANGED <<poolVars, pending, jobs, lastDt, stopped, target, draining, blocked, created, latest>>

\* run(): the loop ended, failed or was canceled; handlers are canceled and waited for.
CleanUp ==
    /\ loop = "failed" \/ (stopped /\ loop \notin {"cleanup", "ended"})
    /\ Cancel
    /\ loop' = "cleanup" /\ blocked' = Nothing
    /\ UNCHANGED <<pending, jobs, lastDt, stopped, target, draining, created, latest>>

\* The producers are finalized.
Finalize ==
    /\ loop = "cleanup"
    /\ AllDone
    /\ loop' = "ended"
    /\ UNCHANGED <<poolVars, pending, jobs, lastDt, stopped, target, draining, blocked, created, latest>>

LoopStep ==
    \/ Peek \/ RunJob \/ JobDone \/ JobsDone
    \/ PopEvent \/ PushBlocked \/ EventsPushed \/ EventsDone
    \/ CleanUp \/ Finalize
-----------------------------------------------------------------------------
(* Handlers and jobs. *)

Handles(w, kind) == state[w] = "running" /\ doing[w].kind = kind

\* FifoQueueEventSource.push.
PushEvent(s, when) ==
    /\ created.events < MaxEvents
    /\ pending' = [pending EXCEPT ![s] = Append(@, [when |-> when, late |-> draining])]
    /\ created' = [created EXCEPT !.events = @ + 1]
    /\ UNCHANGED <<poolVars, jobs, lastDt, stopped, loop, target, draining, blocked, latest>>

\* A handler passes its event on, as the exchange does with bars (exchange.py:496) and the risk
\* manager with signals (risk/manager.py:162).
Forward(w) ==
    /\ Handles(w, "event")
    /\ \E s \in Forwards[doing[w].source] : PushEvent(s, doing[w].event.when)

\* A handler does something that makes an event of the current time, as an order does
\* (order_mgr.py:367).
Emit(w) ==
    \/ (Handles(w, "event") /\ \E s \in Emits[doing[w].source] : PushEvent(s, lastDt))
    \/ (Handles(w, "job") /\ \E s \in JobEmits : PushEvent(s, lastDt))

Schedule(w) ==
    /\ state[w] = "running"
    /\ created.jobs < MaxJobs
    /\ \E delay \in Delays :
        jobs' = jobs (+) SetToBag({[when |-> lastDt + delay, from |-> lastDt, late |-> draining]})
    /\ created' = [created EXCEPT !.jobs = @ + 1]
    /\ UNCHANGED <<poolVars, pending, lastDt, stopped, loop, target, draining, blocked, latest>>

\* stop(): by a handler, by one that raises if stop_on_handler_exceptions is set, or by a signal.
Stop ==
    /\ MayStop /\ loop # "ended"
    /\ StopAll
    /\ UNCHANGED <<pending, jobs, lastDt, loop, target, draining, blocked, created, latest>>

Working(w) == WorkerStep(w) /\ UNCHANGED loopVars
Ending(w) == Finish(w) /\ UNCHANGED loopVars

Next ==
    \/ LoopStep
    \/ \E w \in Workers : Working(w) \/ Ending(w) \/ Forward(w) \/ Emit(w) \/ Schedule(w)
    \/ Stop

Spec == Init /\ [][Next]_vars

\* The event loop runs every task that is ready, and handlers end.
Fairness ==
    /\ WF_vars(LoopStep)
    /\ \A w \in Workers : WF_vars(Working(w)) /\ WF_vars(Ending(w))

FairSpec == Spec /\ Fairness
=============================================================================
