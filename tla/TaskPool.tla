------------------------------ MODULE TaskPool ------------------------------
(***************************************************************************)
(* The pool of asyncio tasks that runs event handlers and scheduled jobs   *)
(* (core/helpers.py:TaskPool).  Workers are created on demand, take work   *)
(* from a bounded queue and leave after a second without work.             *)
(*                                                                         *)
(* A worker's task goes from "created" (its body has not started) to       *)
(* "waiting" (inside wait_for(queue.get())), to "handed" (get() returned,  *)
(* wait_for did not: Python 3.10 and 3.11 run the two in different turns   *)
(* of the event loop, in the order of the gets), to "running".  A task     *)
(* that is canceled before its body starts never runs its finally clause:  *)
(* it is "abandoned".                                                      *)
(***************************************************************************)
EXTENDS Naturals, Sequences, FiniteSets

CONSTANTS Workers,  \* names of tasks; max_tasks is their number
          MaxQueue  \* max_queue_size

ASSUME PoolAssumption ==
    /\ IsFiniteSet(Workers) /\ Workers # {}
    /\ MaxQueue \in Nat \ {0}

VARIABLES queue,      \* _queue
          registry,   \* _tasks
          active,     \* _active
          unfinished, \* what _queue.join() waits for
          state,      \* where each worker is
          doing,      \* what each worker took
          canceled,   \* workers whose task has a cancelation pending
          handed      \* workers that took something and have not begun, in order

poolVars == <<queue, registry, active, unfinished, state, doing, canceled, handed>>

\* What a worker without work has; work is a record of another kind.
Nothing == [kind |-> "nothing"]

PoolTypeOK(Work) ==
    /\ queue \in Seq(Work) /\ Len(queue) <= MaxQueue
    /\ registry \subseteq Workers
    /\ active \in Nat
    /\ unfinished \in Nat
    /\ state \in [Workers -> {"none", "created", "waiting", "handed", "running", "abandoned"}]
    /\ doing \in [Workers -> Work \union {Nothing}]
    /\ canceled \subseteq Workers
    /\ handed \in Seq(Workers)

PoolInit ==
    /\ queue = <<>> /\ registry = {} /\ active = 0 /\ unfinished = 0
    /\ state = [w \in Workers |-> "none"]
    /\ doing = [w \in Workers |-> Nothing]
    /\ canceled = {}
    /\ handed = <<>>
-----------------------------------------------------------------------------
\* Mutation of HasRoom: off by one.
OneMore == Len(queue) <= MaxQueue

HasRoom == Len(queue) < MaxQueue

\* Is there a registered worker that executes nothing?
SeemsIdle == Cardinality(registry) - active # 0

\* push(): put, which waits for room, and a new worker if none seems idle.
Push(item) ==
    /\ HasRoom
    /\ queue' = Append(queue, item)
    /\ unfinished' = unfinished + 1
    /\ IF ~SeemsIdle /\ registry # Workers
       THEN \E w \in Workers \ registry :
                /\ registry' = registry \union {w}
                /\ state' = [state EXCEPT ![w] = "created"]
       ELSE UNCHANGED <<registry, state>>
    /\ UNCHANGED <<active, doing, canceled, handed>>

\* The worker's task runs for the first time, and registers itself again.
Start(w) ==
    /\ state[w] = "created"
    /\ registry' = registry \union {w}
    /\ state' = [state EXCEPT ![w] = "waiting"]
    /\ UNCHANGED <<queue, active, unfinished, doing, canceled, handed>>

\* queue.get() returns.
Take(w) ==
    /\ state[w] = "waiting" /\ w \notin canceled
    /\ queue # <<>>
    /\ queue' = Tail(queue)
    /\ state' = [state EXCEPT ![w] = "handed"]
    /\ doing' = [doing EXCEPT ![w] = Head(queue)]
    /\ handed' = Append(handed, w)
    /\ UNCHANGED <<registry, active, unfinished, canceled>>

\* wait_for() returns, and the coroutine function is called.
Begin(w) ==
    /\ handed # <<>> /\ w = Head(handed)
    /\ handed' = Tail(handed)
    /\ active' = active + 1
    /\ state' = [state EXCEPT ![w] = "running"]
    /\ UNCHANGED <<queue, registry, unfinished, doing, canceled>>

\* The worker's task ends, in its finally clause.
Leave(w) ==
    /\ registry' = registry \ {w}
    /\ state' = [state EXCEPT ![w] = "none"]
    /\ canceled' = canceled \ {w}

\* The coroutine returned, raised, or was interrupted by a cancelation, which ends the worker
\* as well.
Finish(w) ==
    /\ state[w] = "running"
    /\ active' = active - 1
    /\ unfinished' = unfinished - 1
    /\ doing' = [doing EXCEPT ![w] = Nothing]
    /\ \/ w \in canceled /\ Leave(w)
       \/ /\ w \notin canceled
          /\ state' = [state EXCEPT ![w] = "waiting"]
          /\ UNCHANGED <<registry, canceled>>
    /\ UNCHANGED <<queue, handed>>

\* After a timeout the worker looks at the queue again before it leaves.
MayLeave == queue = <<>>

TimeOut(w) ==
    /\ state[w] = "waiting" /\ w \notin canceled
    /\ MayLeave
    /\ Leave(w)
    /\ UNCHANGED <<queue, active, unfinished, doing, handed>>

\* A worker is canceled while it waits for work.
Canceled(w) ==
    /\ state[w] = "waiting" /\ w \in canceled
    /\ Leave(w)
    /\ UNCHANGED <<queue, active, unfinished, doing, handed>>

\* Mutation of Cancel: the work that is dropped is not reported as done.
CancelSilently ==
    /\ canceled' = canceled \union {w \in registry : state[w] \in {"waiting", "running"}}
    /\ state' = [w \in Workers |-> IF state[w] = "created" THEN "abandoned" ELSE state[w]]
    /\ queue' = <<>>
    /\ UNCHANGED <<registry, active, unfinished, doing, handed>>

\* cancel(): the tasks that started end at their next await, except the ones that were handed
\* something (wait_for drops the cancelation then); the queue is emptied.
Cancel ==
    /\ canceled' = canceled \union {w \in registry : state[w] \in {"waiting", "running"}}
    /\ state' = [w \in Workers |-> IF state[w] = "created" THEN "abandoned" ELSE state[w]]
    /\ queue' = <<>>
    /\ unfinished' = unfinished - Len(queue)
    /\ UNCHANGED <<registry, active, doing, handed>>

\* The property "idle".
LooksIdle == active = 0 /\ queue = <<>>

\* wait() returns when queue.join() does.
AllDone == unfinished = 0

WorkerStep(w) == Start(w) \/ Take(w) \/ Begin(w) \/ TimeOut(w) \/ Canceled(w)
-----------------------------------------------------------------------------

\* The workers that are at a step.
At(step) == {w \in Workers : state[w] = step}

\* The counters agree with what the workers do: wait() and idle are computed from them.
CountersAgree ==
    /\ active = Cardinality(At("running"))
    /\ unfinished = Len(queue) + Cardinality(At("handed")) + Cardinality(At("running"))
=============================================================================
