-------------------------- MODULE DispatcherProofs --------------------------
(***************************************************************************)
(* The dispatcher of a backtest, for any number of sources, workers,       *)
(* events and jobs: the clock stands still while anything runs, jobs run   *)
(* when they should, nothing is left over at the end but what the last     *)
(* jobs made, nothing runs after it, and the task pool keeps the promise   *)
(* of HandlerPool.  The lemmas about the task pool are about one operation *)
(* of it each, and the dispatcher's steps combine them.                    *)
(***************************************************************************)
EXTENDS DispatcherProperties, Foundations, TLAPS, FiniteSetTheorems, SequenceTheorems

\* What is inductive: the counters, and what keeps a worker from being counted twice.
HandedOnce ==
    /\ \A i \in 1..Len(handed) : state[handed[i]] = "handed"
    /\ \A i, j \in 1..Len(handed) : handed[i] = handed[j] => i = j

Registered == \A w \in Workers : state[w] # "none" => w \in registry

PoolInv(Items) ==
    /\ PoolTypeOK(Items)
    /\ CountersAgree
    /\ HandedOnce
    /\ Registered

\* What was pushed and is not finished.
Queued == {queue[i] : i \in 1..Len(queue)}
TakenBy(workers) == {doing[w] : w \in workers}
InPool == Queued \union TakenBy(At("handed") \union At("running"))
-----------------------------------------------------------------------------
(***************************************************************************)
(* Counting workers.                                                       *)
(***************************************************************************)
LEMMA WorkersAt ==
    ASSUME NEW step
    PROVE  /\ IsFiniteSet(At(step)) /\ Cardinality(At(step)) \in Nat
           /\ Cardinality(At(step)) = 0 <=> At(step) = {}
<1>1. At(step) \in SUBSET Workers
    BY DEF At
<1>2. IsFiniteSet(At(step))
    BY <1>1, FS_Subset, PoolAssumption
<1>. QED
    BY <1>2, FS_CardinalityType, FS_EmptySet

\* A worker goes from one step to another, and the others stay where they are.
LEMMA OneMoves ==
    ASSUME NEW w \in Workers, NEW from, NEW to, state[w] = from, from # to,
           DOMAIN state = Workers, state' = [state EXCEPT ![w] = to]
    PROVE  /\ At(from)' = At(from) \ {w} /\ w \in At(from)
           /\ At(to)' = At(to) \union {w} /\ w \notin At(to)
           /\ \A step : step # from /\ step # to => At(step)' = At(step)
           /\ Cardinality(At(from)') = Cardinality(At(from)) - 1
           /\ Cardinality(At(to)') = Cardinality(At(to)) + 1
           /\ Cardinality(At(from)) >= 1
<1>1. At(from)' = At(from) \ {w} /\ w \in At(from)
    BY DEF At
<1>2. At(to)' = At(to) \union {w} /\ w \notin At(to)
    BY DEF At
<1>3. \A step : step # from /\ step # to => At(step)' = At(step)
    BY DEF At
<1>4. IsFiniteSet(At(from)) /\ IsFiniteSet(At(to))
    BY WorkersAt
<1>5. Cardinality(At(from)') = Cardinality(At(from)) - 1
    BY <1>1, <1>4, FS_RemoveElement
<1>6. Cardinality(At(to)') = Cardinality(At(to)) + 1
    BY <1>2, <1>4, FS_AddElement
<1>7. Cardinality(At(from)) \in Nat /\ Cardinality(At(from)) # 0
    BY <1>1, WorkersAt
<1>. QED
    BY <1>1, <1>2, <1>3, <1>5, <1>6, <1>7
-----------------------------------------------------------------------------
LEMMA PoolInitInv ==
    ASSUME NEW Items, PoolInit
    PROVE  PoolInv(Items) /\ InPool = {} /\ unfinished = 0
<1>1. At("running") = {} /\ At("handed") = {}
    BY DEF PoolInit, At
<1>2. CountersAgree
    <2>1. Cardinality({}) = 0
        BY FS_EmptySet
    <2>2. Len(queue) = 0 /\ active = 0 /\ unfinished = 0
        BY DEF PoolInit
    <2>3. Cardinality(At("running")) = 0 /\ Cardinality(At("handed")) = 0
        BY <1>1, <2>1
    <2>. QED
        BY <2>2, <2>3 DEF CountersAgree
<1>3. PoolTypeOK(Items)
    BY PoolAssumption DEF PoolInit, PoolTypeOK
<1>4. InPool = {}
    BY <1>1 DEF InPool, Queued, TakenBy, PoolInit
<1>. QED
    BY <1>2, <1>3, <1>4 DEF PoolInit, PoolInv, HandedOnce, Registered

\* wait() returns only when there is nothing left to run.
LEMMA NothingLeft ==
    ASSUME NEW Items, PoolInv(Items), unfinished = 0
    PROVE  queue = <<>> /\ At("handed") = {} /\ At("running") = {} /\ InPool = {}
<1>1. Len(queue) \in Nat /\ queue \in Seq(Items)
    BY DEF PoolInv, PoolTypeOK
<1>2. Cardinality(At("handed")) \in Nat /\ Cardinality(At("running")) \in Nat
    BY WorkersAt
<1>3. Len(queue) = 0 /\ Cardinality(At("handed")) = 0 /\ Cardinality(At("running")) = 0
    BY <1>1, <1>2 DEF PoolInv, CountersAgree
<1>4. queue = <<>>
    BY <1>1, <1>3, EmptySeq
<1>5. At("handed") = {} /\ At("running") = {}
    BY <1>3, WorkersAt
<1>. QED
    BY <1>3, <1>4, <1>5 DEF InPool, Queued, TakenBy
-----------------------------------------------------------------------------
(***************************************************************************)
(* One lemma for each operation.                                           *)
(***************************************************************************)

\* What a step that moves no worker between "handed" and "running" leaves to show.
LEMMA SameAt ==
    ASSUME NEW Items, PoolTypeOK(Items), NEW w \in Workers, NEW to,
           state' = [state EXCEPT ![w] = to],
           state[w] \notin {"handed", "running"}, to \notin {"handed", "running"}
    PROVE  At("handed")' = At("handed") /\ At("running")' = At("running")
BY DEF At, PoolTypeOK

LEMMA PushInv ==
    ASSUME NEW Items, PoolInv(Items), NEW item \in Items, Push(item)
    PROVE  PoolInv(Items)' /\ InPool' = InPool \union {item}
<1>. USE DEF PoolInv
<1>1. queue \in Seq(Items) /\ queue' = Append(queue, item) /\ unfinished' = unfinished + 1
    BY DEF Push, PoolTypeOK
<1>2. Len(queue') = Len(queue) + 1 /\ Len(queue) \in Nat /\ queue' \in Seq(Items)
    BY <1>1
<1>3. /\ state' \in [Workers -> {"none", "created", "waiting", "handed", "running", "abandoned"}]
      /\ registry' \subseteq Workers
      /\ At("handed")' = At("handed") /\ At("running")' = At("running")
      /\ \A v \in Workers : state[v] = "handed" => state'[v] = "handed"
      /\ Registered'
    <2>1. CASE UNCHANGED <<registry, state>>
        BY <2>1 DEF PoolTypeOK, At, Registered
    <2>2. ASSUME NEW w \in Workers \ registry, registry' = registry \union {w},
                 state' = [state EXCEPT ![w] = "created"]
          PROVE  <1>3!1 /\ <1>3!2 /\ <1>3!3 /\ <1>3!4 /\ <1>3!5
        <3>1. state[w] = "none"
            BY DEF Registered
        <3>2. At("handed")' = At("handed") /\ At("running")' = At("running")
            BY <2>2, <3>1, SameAt
        <3>. QED
            BY <2>2, <3>1, <3>2 DEF PoolTypeOK, Registered
    <2>. QED
        BY <2>1, <2>2 DEF Push
<1>4. PoolTypeOK(Items)'
    <2>1. Len(queue') <= MaxQueue
        BY <1>2, PoolAssumption DEF Push, HasRoom
    <2>2. unfinished' \in Nat
        BY <1>1 DEF PoolTypeOK
    <2>3. UNCHANGED <<active, doing, canceled, handed>>
        BY DEF Push
    <2>. QED
        BY <1>2, <1>3, <2>1, <2>2, <2>3 DEF PoolTypeOK
<1>5. CountersAgree'
    <2>1. active' = active
        BY DEF Push
    <2>2. Cardinality(At("handed")) \in Nat /\ Cardinality(At("running")) \in Nat
        BY WorkersAt
    <2>. QED
        BY <1>1, <1>2, <1>3, <2>1, <2>2 DEF CountersAgree
<1>6. HandedOnce'
    BY <1>3 DEF HandedOnce, Push, PoolTypeOK
<1>7. InPool' = InPool \union {item}
    <2>1. Queued' = Queued \union {item}
        BY <1>1, <1>2 DEF Queued
    <2>2. doing' = doing
        BY DEF Push
    <2>. QED
        BY <1>3, <2>1, <2>2 DEF InPool, TakenBy
<1>. QED
    BY <1>3, <1>4, <1>5, <1>6, <1>7

LEMMA StartInv ==
    ASSUME NEW Items, PoolInv(Items), NEW w \in Workers, Start(w)
    PROVE  PoolInv(Items)' /\ InPool' = InPool
<1>. USE DEF PoolInv
<1>1. At("handed")' = At("handed") /\ At("running")' = At("running")
    BY SameAt DEF Start
<1>2. PoolTypeOK(Items)'
    BY DEF PoolTypeOK, Start
<1>3. CountersAgree'
    BY <1>1 DEF CountersAgree, Start
<1>4. HandedOnce'
    BY DEF HandedOnce, Start, PoolTypeOK
<1>5. Registered'
    BY DEF Registered, Start, PoolTypeOK
<1>6. InPool' = InPool
    BY <1>1 DEF InPool, Queued, TakenBy, Start
<1>. QED
    BY <1>2, <1>3, <1>4, <1>5, <1>6

LEMMA TakeInv ==
    ASSUME NEW Items, PoolInv(Items), NEW w \in Workers, Take(w)
    PROVE  PoolInv(Items)' /\ InPool' = InPool
<1>. USE DEF PoolInv
<1>1. /\ queue \in Seq(Items) /\ queue # <<>> /\ queue' = Tail(queue)
      /\ doing' = [doing EXCEPT ![w] = Head(queue)]
      /\ handed \in Seq(Workers) /\ handed' = Append(handed, w)
      /\ state' = [state EXCEPT ![w] = "handed"] /\ state[w] = "waiting"
      /\ UNCHANGED <<registry, active, unfinished, canceled>>
    BY DEF Take, PoolTypeOK
<1>2. /\ Len(queue) \in Nat \ {0} /\ Len(queue') = Len(queue) - 1 /\ queue' \in Seq(Items)
      /\ Head(queue) \in Items /\ Head(queue) = queue[1]
      /\ \A i \in 1..Len(queue') : queue'[i] = queue[i + 1]
    BY <1>1, HeadTailProperties, EmptySeq
<1>3. /\ At("handed")' = At("handed") \union {w} /\ w \notin At("handed")
      /\ At("running")' = At("running") /\ w \notin At("running")
      /\ Cardinality(At("handed")') = Cardinality(At("handed")) + 1
    <2>1. DOMAIN state = Workers
        BY DEF PoolTypeOK
    <2>2. w \notin At("running") /\ At("running")' = At("running")
        BY <1>1, <2>1 DEF At
    <2>3. /\ At("handed")' = At("handed") \union {w} /\ w \notin At("handed")
          /\ Cardinality(At("handed")') = Cardinality(At("handed")) + 1
        BY <1>1, <2>1, OneMoves
    <2>. QED
        BY <2>2, <2>3
<1>4. PoolTypeOK(Items)'
    <2>1. Len(queue') <= MaxQueue
        BY <1>2, PoolAssumption DEF PoolTypeOK
    <2>2. handed' \in Seq(Workers)
        BY <1>1
    <2>. QED
        BY <1>1, <1>2, <2>1, <2>2 DEF PoolTypeOK
<1>5. CountersAgree'
    <2>1. Cardinality(At("handed")) \in Nat /\ Cardinality(At("running")) \in Nat
        BY WorkersAt
    <2>. QED
        BY <1>1, <1>2, <1>3, <2>1 DEF CountersAgree
<1>6. HandedOnce'
    <2>1. Len(handed') = Len(handed) + 1 /\ Len(handed) \in Nat
        BY <1>1
    <2>2. /\ \A i \in 1..Len(handed) : handed'[i] = handed[i] /\ handed[i] \in Workers /\ handed[i] # w
          /\ handed'[Len(handed) + 1] = w
        <3>1. /\ \A i \in 1..Len(handed) : handed'[i] = handed[i] /\ handed[i] \in Workers
              /\ handed'[Len(handed) + 1] = w
            BY <1>1
        <3>2. \A i \in 1..Len(handed) : state[handed[i]] = "handed"
            BY DEF HandedOnce
        <3>3. state[w] # "handed"
            BY <1>1
        <3>. QED
            BY <3>1, <3>2, <3>3
    <2>3. \A i \in 1..Len(handed') : i \in 1..Len(handed) \/ i = Len(handed) + 1
        BY <2>1
    <2>4. \A v \in Workers : state[v] = "handed" => state'[v] = "handed"
        BY <1>1 DEF PoolTypeOK
    <2>5. state'[w] = "handed"
        BY <1>1 DEF PoolTypeOK
    <2>. QED
        BY <2>2, <2>3, <2>4, <2>5 DEF HandedOnce
<1>7. Registered'
    BY <1>1 DEF Registered, PoolTypeOK
<1>8. InPool' = InPool
    <2>. DEFINE busy == At("handed") \union At("running")
    <2>1. Queued = Queued' \union {Head(queue)}
        <3>1. Queued \subseteq Queued' \union {Head(queue)}
            <4>1. ASSUME NEW i \in 1..Len(queue), i # 1
                  PROVE  i - 1 \in 1..Len(queue') /\ queue'[i - 1] = queue[i]
                BY <1>2, <4>1
            <4>. QED
                BY <1>2, <4>1 DEF Queued
        <3>2. Queued' \subseteq Queued
            <4>1. \A i \in 1..Len(queue') : i + 1 \in 1..Len(queue)
                BY <1>2
            <4>. QED
                BY <1>2, <4>1 DEF Queued
        <3>3. Head(queue) \in Queued
            BY <1>2 DEF Queued
        <3>. QED
            BY <3>1, <3>2, <3>3
    <2>2. busy' = busy \union {w} /\ w \notin busy /\ busy \subseteq Workers
        BY <1>3 DEF At
    <2>3. \A v \in busy : doing'[v] = doing[v]
        BY <1>1, <2>2 DEF PoolTypeOK
    <2>4. doing'[w] = Head(queue)
        BY <1>1 DEF PoolTypeOK
    <2>5. TakenBy(busy)' = TakenBy(busy) \union {Head(queue)}
        <3>. HIDE DEF busy
        <3>. QED
            BY <2>2, <2>3, <2>4 DEF TakenBy
    <2>. QED
        BY <2>1, <2>5 DEF InPool
<1>. QED
    BY <1>4, <1>5, <1>6, <1>7, <1>8

LEMMA BeginInv ==
    ASSUME NEW Items, PoolInv(Items), NEW w \in Workers, Begin(w)
    PROVE  PoolInv(Items)' /\ InPool' = InPool
<1>. USE DEF PoolInv
<1>1. /\ handed \in Seq(Workers) /\ handed # <<>> /\ w = Head(handed) /\ handed' = Tail(handed)
      /\ active' = active + 1
      /\ state' = [state EXCEPT ![w] = "running"]
      /\ UNCHANGED <<queue, registry, unfinished, doing, canceled>>
    BY DEF Begin, PoolTypeOK
<1>2. /\ Len(handed) \in Nat \ {0} /\ Len(handed') = Len(handed) - 1 /\ handed' \in Seq(Workers)
      /\ w = handed[1]
      /\ \A i \in 1..Len(handed') : handed'[i] = handed[i + 1] /\ i + 1 \in 1..Len(handed)
    BY <1>1, HeadTailProperties, EmptySeq
<1>3. state[w] = "handed"
    BY <1>2 DEF HandedOnce
<1>4. /\ At("handed")' = At("handed") \ {w} /\ w \in At("handed")
      /\ At("running")' = At("running") \union {w}
      /\ Cardinality(At("handed")') = Cardinality(At("handed")) - 1
      /\ Cardinality(At("running")') = Cardinality(At("running")) + 1
    BY <1>1, <1>3, OneMoves DEF PoolTypeOK
<1>5. PoolTypeOK(Items)'
    BY <1>1, <1>2 DEF PoolTypeOK
<1>6. CountersAgree'
    <2>1. Cardinality(At("handed")) \in Nat /\ Cardinality(At("running")) \in Nat /\ Len(queue) \in Nat
        BY WorkersAt DEF PoolTypeOK
    <2>. QED
        BY <1>1, <1>4, <2>1 DEF CountersAgree
<1>7. HandedOnce'
    <2>1. \A i \in 1..Len(handed') : handed'[i] # w
        <3>1. 1 \in 1..Len(handed) /\ \A i \in 1..Len(handed') : i + 1 # 1
            BY <1>2
        <3>. QED
            BY <1>2, <3>1 DEF HandedOnce
    <2>2. \A i \in 1..Len(handed') : handed'[i] \in Workers /\ state[handed'[i]] = "handed"
        BY <1>1, <1>2 DEF HandedOnce
    <2>3. \A i \in 1..Len(handed') : state'[handed'[i]] = "handed"
        BY <1>1, <2>1, <2>2 DEF PoolTypeOK
    <2>4. ASSUME NEW i \in 1..Len(handed'), NEW j \in 1..Len(handed'), handed'[i] = handed'[j]
          PROVE  i = j
        <3>1. handed[i + 1] = handed[j + 1] /\ i + 1 \in 1..Len(handed) /\ j + 1 \in 1..Len(handed)
            BY <1>2, <2>4
        <3>2. i + 1 = j + 1
            BY <3>1 DEF HandedOnce
        <3>. QED
            BY <3>2
    <2>. QED
        BY <2>3, <2>4 DEF HandedOnce
<1>8. Registered'
    BY <1>1, <1>3 DEF Registered, PoolTypeOK
<1>9. InPool' = InPool
    BY <1>1, <1>4 DEF InPool, Queued, TakenBy
<1>. QED
    BY <1>5, <1>6, <1>7, <1>8, <1>9

LEMMA FinishInv ==
    ASSUME NEW Items, PoolInv(Items), NEW w \in Workers, Finish(w)
    PROVE  PoolInv(Items)' /\ InPool' \subseteq InPool
<1>. USE DEF PoolInv
<1>1. /\ state[w] = "running" /\ DOMAIN state = Workers
      /\ active' = active - 1 /\ unfinished' = unfinished - 1
      /\ doing' = [doing EXCEPT ![w] = Nothing]
      /\ UNCHANGED <<queue, handed>>
    BY DEF Finish, PoolTypeOK
<1>2. PICK to \in {"none", "waiting"} :
        /\ state' = [state EXCEPT ![w] = to]
        /\ IF to = "none" THEN registry' = registry \ {w} ELSE registry' = registry
        /\ canceled' \subseteq canceled
    BY DEF Finish, Leave
<1>3. /\ At("running")' = At("running") \ {w} /\ w \in At("running")
      /\ Cardinality(At("running")') = Cardinality(At("running")) - 1
      /\ Cardinality(At("running")) >= 1
    BY <1>1, <1>2, OneMoves
<1>4. At("handed")' = At("handed") /\ w \notin At("handed")
    BY <1>1, <1>2 DEF At
<1>5. CountersAgree' /\ active' \in Nat /\ unfinished' \in Nat
    <2>1. Cardinality(At("handed")) \in Nat /\ Cardinality(At("running")) \in Nat /\ Len(queue) \in Nat
        BY WorkersAt DEF PoolTypeOK
    <2>. QED
        BY <1>1, <1>3, <1>4, <2>1 DEF CountersAgree
<1>6. PoolTypeOK(Items)'
    BY <1>1, <1>2, <1>5 DEF PoolTypeOK
<1>7. HandedOnce'
    BY <1>1, <1>2 DEF HandedOnce, PoolTypeOK
<1>8. Registered'
    BY <1>1, <1>2 DEF Registered, PoolTypeOK
<1>9. InPool' \subseteq InPool
    BY <1>1, <1>3, <1>4 DEF InPool, Queued, TakenBy, At, PoolTypeOK
<1>. QED
    BY <1>5, <1>6, <1>7, <1>8, <1>9

\* A worker that waits for work leaves.
LEMMA LeaveInv ==
    ASSUME NEW Items, PoolInv(Items), NEW w \in Workers, TimeOut(w) \/ Canceled(w)
    PROVE  PoolInv(Items)' /\ InPool' = InPool
<1>. USE DEF PoolInv
<1>1. /\ state[w] = "waiting"
      /\ registry' = registry \ {w} /\ state' = [state EXCEPT ![w] = "none"]
      /\ canceled' = canceled \ {w}
      /\ UNCHANGED <<queue, active, unfinished, doing, handed>>
    BY DEF TimeOut, Canceled, Leave
<1>2. At("handed")' = At("handed") /\ At("running")' = At("running")
    BY <1>1, SameAt
<1>3. PoolTypeOK(Items)'
    BY <1>1 DEF PoolTypeOK
<1>4. CountersAgree'
    BY <1>1, <1>2 DEF CountersAgree
<1>5. HandedOnce'
    BY <1>1 DEF HandedOnce, PoolTypeOK
<1>6. Registered'
    BY <1>1 DEF Registered, PoolTypeOK
<1>7. InPool' = InPool
    BY <1>1, <1>2 DEF InPool, Queued, TakenBy
<1>. QED
    BY <1>3, <1>4, <1>5, <1>6, <1>7

LEMMA WorkerStepInv ==
    ASSUME NEW Items, PoolInv(Items), NEW w \in Workers, WorkerStep(w)
    PROVE  PoolInv(Items)' /\ InPool' = InPool /\ unfinished' = unfinished
<1>1. unfinished' = unfinished
    BY DEF WorkerStep, Start, Take, Begin, TimeOut, Canceled
<1>. QED
    BY <1>1, StartInv, TakeInv, BeginInv, LeaveInv DEF WorkerStep

LEMMA CancelInv ==
    ASSUME NEW Items, PoolInv(Items), Cancel
    PROVE  /\ PoolInv(Items)' /\ InPool' \subseteq InPool
           /\ unfinished = 0 => unfinished' = 0
<1>. USE DEF PoolInv
<1>1. /\ state' = [v \in Workers |-> IF state[v] = "created" THEN "abandoned" ELSE state[v]]
      /\ queue' = <<>> /\ unfinished' = unfinished - Len(queue)
      /\ UNCHANGED <<registry, active, doing, handed>>
    BY DEF Cancel
<1>2. At("handed")' = At("handed") /\ At("running")' = At("running")
    BY <1>1 DEF At, PoolTypeOK
<1>3. Len(queue) \in Nat /\ Len(queue') = 0 /\ queue' \in Seq(Items)
    BY <1>1 DEF PoolTypeOK
<1>4. CountersAgree' /\ unfinished' \in Nat /\ (unfinished = 0 => unfinished' = 0)
    <2>1. Cardinality(At("handed")) \in Nat /\ Cardinality(At("running")) \in Nat
        BY WorkersAt
    <2>2. active' = Cardinality(At("running")')
        BY <1>1, <1>2 DEF CountersAgree
    <2>3. /\ unfinished = Len(queue) + Cardinality(At("handed")) + Cardinality(At("running"))
          /\ unfinished' = 0 + Cardinality(At("handed")) + Cardinality(At("running"))
        BY <1>1, <1>3, <2>1 DEF CountersAgree
    <2>. QED
        BY <1>2, <1>3, <2>1, <2>2, <2>3 DEF CountersAgree
<1>5. PoolTypeOK(Items)'
    <2>1. Len(queue') <= MaxQueue
        BY <1>3, PoolAssumption
    <2>2. canceled' \subseteq Workers
        BY DEF Cancel, PoolTypeOK
    <2>. QED
        BY <1>1, <1>3, <1>4, <2>1, <2>2 DEF PoolTypeOK
<1>6. HandedOnce'
    BY <1>1 DEF HandedOnce, PoolTypeOK
<1>7. Registered'
    BY <1>1 DEF Registered, PoolTypeOK
<1>8. InPool' \subseteq InPool
    BY <1>1, <1>2, <1>3 DEF InPool, Queued, TakenBy
<1>. QED
    BY <1>4, <1>5, <1>6, <1>7, <1>8
-----------------------------------------------------------------------------
(***************************************************************************)
(* The dispatcher.                                                         *)
(***************************************************************************)
\* At these places of the loop nothing is left to run.
Quiet == loop \in {"peek", "jobs", "over", "ended"} => unfinished = 0

\* Jobs are run up to the time of the next event, which is not past.
TargetAhead == loop \in {"jobs", "jobWait"} /\ ~draining => target > 0 /\ lastDt <= target

\* Before the clock starts nothing has run, and the jobs that were scheduled have real times.
NotStarted ==
    lastDt = 0 =>
        /\ unfinished = 0
        /\ loop \notin {"jobWait", "events", "blocked", "eventsWait"}
        /\ \A j \in BagToSet(jobs) : j.when > 0

EventBlocked == loop = "blocked" => blocked \in Work /\ blocked.kind = "event"

JobsFinite == IsFiniteSet(BagToSet(jobs))

\* The clock does not pass the time of a job that waits, unless it was past when it was scheduled.
NotOverdue ==
    \A j \in BagToSet(jobs) : j.from <= lastDt /\ (lastDt <= j.when \/ lastDt <= j.from)

PoolOnTime ==
    \A item \in InPool : item.kind = "job" => lastDt = Max({item.job.when, item.job.from})

DInv ==
    /\ TypeOK /\ PoolInv(Work)
    /\ Quiet /\ TargetAhead /\ NotStarted /\ EventBlocked
    /\ JobsFinite /\ NotOverdue /\ PoolOnTime
-----------------------------------------------------------------------------
(***************************************************************************)
(* The scheduler's queue.                                                  *)
(***************************************************************************)
LEMMA AddJob ==
    ASSUME IsABag(jobs), JobsFinite, NEW j, jobs' = jobs (+) SetToBag({j})
    PROVE  IsABag(jobs') /\ JobsFinite' /\ BagToSet(jobs') = BagToSet(jobs) \union {j}
<1>1. DOMAIN jobs' = DOMAIN jobs \union {j}
    BY DEF SetToBag, (+)
<1>2. IsABag(jobs')
    BY <1>1 DEF IsABag, SetToBag, (+)
<1>3. IsFiniteSet(DOMAIN jobs \union {j})
    BY FS_AddElement DEF JobsFinite, BagToSet
<1>. QED
    BY <1>1, <1>2, <1>3 DEF JobsFinite, BagToSet

LEMMA RemoveJob ==
    ASSUME IsABag(jobs), JobsFinite, NEW j, jobs' = jobs (-) SetToBag({j})
    PROVE  IsABag(jobs') /\ JobsFinite' /\ BagToSet(jobs') \subseteq BagToSet(jobs)
<1>1. DOMAIN jobs' \subseteq DOMAIN jobs
    BY DEF SetToBag, (-)
<1>2. IsABag(jobs')
    BY DEF IsABag, SetToBag, (-)
<1>3. IsFiniteSet(DOMAIN jobs')
    BY <1>1, FS_Subset DEF JobsFinite, BagToSet
<1>. QED
    BY <1>1, <1>2, <1>3 DEF JobsFinite, BagToSet

LEMMA JobTimesExtrema ==
    ASSUME TypeOK, JobsFinite, jobs # EmptyBag
    PROVE  /\ Max(JobTimes) \in Int
           /\ Min(JobTimes) \in Int /\ \A j \in BagToSet(jobs) : Min(JobTimes) <= j.when
<1>. DEFINE D == DOMAIN jobs
            f == [j \in D |-> j.when]
<1>1. D # {}
    BY DEF TypeOK, IsABag, EmptyBag, SetToBag
<1>2. JobTimes = {j.when : j \in D}
    BY DEF JobTimes, BagToSet
<1>3. \A j \in D : j.when \in Int
    BY DEF TypeOK, BagToSet, Job
<1>4. f \in Surjection(D, JobTimes)
    BY <1>2 DEF Surjection
<1>5. IsFiniteSet(JobTimes)
    <2>. HIDE DEF f
    <2>. QED
        BY <1>4, FS_Surjection DEF JobsFinite, BagToSet
<1>6. JobTimes \in SUBSET Int /\ JobTimes # {}
    BY <1>1, <1>2, <1>3
<1>7. Max(JobTimes) \in JobTimes /\ Min(JobTimes) \in JobTimes /\ \A t \in JobTimes : Min(JobTimes) <= t
    BY <1>5, <1>6, MaxIsGreatest, MinIsLeastInt
<1>. QED
    BY <1>2, <1>6, <1>7 DEF BagToSet

\* The time of the next event is one.
LEMMA NextDtType ==
    ASSUME TypeOK, \E s \in SourceSet : HasEvents(s)
    PROVE  NextDt \in Nat \ {0}
<1>. DEFINE Times == {NextOf(s).when : s \in {t \in SourceSet : HasEvents(t)}}
<1>1. \A s \in SourceSet : HasEvents(s) => NextOf(s) \in Event
    BY HeadTailProperties DEF TypeOK, HasEvents, NextOf
<1>2. Times \in SUBSET (Nat \ {0}) /\ Times # {}
    BY <1>1 DEF Event
<1>3. Min(Times) \in Times
    <2>. HIDE DEF Times
    <2>. QED
        BY <1>2, MinIsLeast
<1>. QED
    BY <1>2, <1>3 DEF NextDt
-----------------------------------------------------------------------------
(***************************************************************************)
(* Whatever the pool does by itself.                                       *)
(***************************************************************************)
PoolGoesOn == UNCHANGED poolVars \/ Cancel \/ \E w \in Workers : WorkerStep(w) \/ Finish(w)

LEMMA PoolGoesOnInv ==
    ASSUME PoolInv(Work), PoolGoesOn
    PROVE  /\ PoolInv(Work)' /\ InPool' \subseteq InPool
           /\ unfinished = 0 => unfinished' = 0
<1>1. CASE UNCHANGED poolVars
    BY <1>1 DEF poolVars, PoolInv, PoolTypeOK, CountersAgree, HandedOnce, Registered, At,
               InPool, Queued, TakenBy
<1>2. CASE Cancel
    BY <1>2, CancelInv
<1>3. ASSUME NEW w \in Workers, WorkerStep(w)
      PROVE  PoolInv(Work)' /\ InPool' \subseteq InPool /\ (unfinished = 0 => unfinished' = 0)
    BY <1>3, WorkerStepInv
<1>4. ASSUME NEW w \in Workers, Finish(w)
      PROVE  PoolInv(Work)' /\ InPool' \subseteq InPool /\ unfinished # 0
    <2>1. PoolInv(Work)' /\ InPool' \subseteq InPool
        BY <1>4, FinishInv
    <2>2. unfinished' = unfinished - 1 /\ unfinished' \in Nat
        BY <1>4, <2>1 DEF Finish, PoolInv, PoolTypeOK
    <2>. QED
        BY <2>1, <2>2 DEF PoolInv, PoolTypeOK
<1>. QED
    BY <1>1, <1>2, <1>3, <1>4 DEF PoolGoesOn

\* Neither the clock nor the jobs that wait change.
LEMMA SameJobs ==
    ASSUME DInv, InPool' \subseteq InPool, UNCHANGED <<jobs, lastDt>>
    PROVE  JobsFinite' /\ NotOverdue' /\ PoolOnTime'
BY DEF DInv, JobsFinite, NotOverdue, PoolOnTime
-----------------------------------------------------------------------------
(***************************************************************************)
(* The initial states, and one lemma for each action.                      *)
(***************************************************************************)
LEMMA InitInv ==
    ASSUME Init
    PROVE  DInv
<1>1. PoolInv(Work) /\ InPool = {} /\ unfinished = 0
    BY PoolInitInv DEF Init
<1>2. PICK script \in Scripts :
        pending = [s \in SourceSet |->
                    [i \in DOMAIN script[s] |-> [when |-> script[s][i], late |-> FALSE]]]
    BY DEF Init
<1>3. PICK times \in SUBSET FirstJobs :
        jobs = SetToBag({[when |-> t, from |-> 0, late |-> FALSE] : t \in times})
    BY DEF Init
<1>. DEFINE D == {[when |-> t, from |-> 0, late |-> FALSE] : t \in times}
            f == [t \in times |-> [when |-> t, from |-> 0, late |-> FALSE]]
<1>4. DOMAIN jobs = D /\ IsABag(jobs)
    BY <1>3 DEF SetToBag, IsABag
<1>5. \A j \in D : j \in Job /\ j.when > 0 /\ j.from = 0
    <2>1. \A t \in times : t \in Nat \ {0}
        BY DispatcherAssumption
    <2>2. \A t \in times : [when |-> t, from |-> 0, late |-> FALSE] \in Job
        BY <2>1 DEF Job
    <2>. QED
        BY <2>1, <2>2
<1>6. IsFiniteSet(D)
    <2>1. IsFiniteSet(times)
        BY FS_Subset, DispatcherAssumption
    <2>2. f \in Surjection(times, D)
        BY DEF Surjection
    <2>. HIDE DEF f, D
    <2>. QED
        BY <2>1, <2>2, FS_Surjection
<1>7. pending \in [SourceSet -> Seq(Event)]
    <2>1. \A s \in SourceSet : script[s] \in Seq(Nat \ {0})
        BY DispatcherAssumption
    <2>2. ASSUME NEW s \in SourceSet
          PROVE  [i \in DOMAIN script[s] |-> [when |-> script[s][i], late |-> FALSE]] \in Seq(Event)
        <3>1. DOMAIN script[s] = 1..Len(script[s]) /\ Len(script[s]) \in Nat
            BY <2>1
        <3>2. \A i \in DOMAIN script[s] : [when |-> script[s][i], late |-> FALSE] \in Event
            BY <2>1 DEF Event
        <3>. QED
            BY <3>1, <3>2
    <2>. QED
        BY <1>2, <2>2
<1>. HIDE DEF D, f
<1>8. /\ lastDt = 0 /\ stopped = FALSE /\ loop = "peek" /\ target = 0 /\ draining = FALSE
      /\ blocked = Nothing /\ created = [events |-> 0, jobs |-> 0] /\ latest = 0
    BY DEF Init
<1>9. TypeOK
    <2>1. IsABag(jobs) /\ BagToSet(jobs) \subseteq Job
        BY <1>4, <1>5 DEF BagToSet
    <2>2. PoolTypeOK(Work)
        BY <1>1 DEF PoolInv
    <2>3. created \in [events : Nat, jobs : Nat]
        BY <1>8
    <2>4. blocked \in Work \union {Nothing}
        BY <1>8
    <2>5. stopped \in BOOLEAN /\ draining \in BOOLEAN
        BY <1>8
    <2>6. /\ lastDt \in Nat /\ latest \in Nat /\ target \in Int
          /\ loop \in {"peek", "jobs", "jobWait", "events", "blocked", "eventsWait", "over", "failed",
                       "cleanup", "ended"}
        BY <1>8
    <2>. QED
        BY <1>7, <2>1, <2>2, <2>3, <2>4, <2>5, <2>6 DEF TypeOK
<1>10. NotStarted /\ JobsFinite /\ NotOverdue /\ PoolOnTime
    <2>1. BagToSet(jobs) = D
        BY <1>4 DEF BagToSet
    <2>2. \A j \in D : j.when \in Int /\ j.when > 0 /\ j.from = 0
        BY <1>5 DEF Job
    <2>. QED
        BY <1>1, <1>6, <1>8, <2>1, <2>2 DEF NotStarted, JobsFinite, NotOverdue, PoolOnTime
<1>11. Quiet /\ TargetAhead /\ EventBlocked
    BY <1>1, <1>8 DEF Quiet, TargetAhead, EventBlocked
<1>. QED
    BY <1>1, <1>9, <1>10, <1>11 DEF DInv

\* Steps that leave the clock, the jobs and the target alone.
LEMMA LoopMovesInv ==
    ASSUME DInv, PoolGoesOn,
           UNCHANGED <<pending, jobs, lastDt, target, draining, created, latest>>,
           stopped' \in BOOLEAN,
           blocked' = blocked \/ blocked' = Nothing,
           \/ loop' \in {loop, "cleanup", "eventsWait"} /\ (loop' = "eventsWait" => lastDt # 0)
           \/ unfinished = 0 /\ loop' \in {"peek", "ended"}
           \/ unfinished = 0 /\ loop = "jobWait" /\ loop' = "jobs"
           \/ unfinished = 0 /\ loop = "jobs" /\ loop' = "over",
           loop' = "blocked" => blocked' = blocked
    PROVE  DInv'
<1>. USE DEF DInv
<1>1. PoolInv(Work)' /\ InPool' \subseteq InPool /\ (unfinished = 0 => unfinished' = 0)
    BY PoolGoesOnInv
<1>2. TypeOK'
    BY <1>1 DEF TypeOK, PoolInv
<1>3. JobsFinite' /\ NotOverdue' /\ PoolOnTime'
    BY <1>1, SameJobs
<1>4. Quiet'
    BY <1>1 DEF Quiet
<1>5. TargetAhead'
    BY DEF TargetAhead
<1>6. NotStarted'
    BY <1>1 DEF NotStarted
<1>7. EventBlocked'
    BY DEF EventBlocked
<1>. QED
    BY <1>1, <1>2, <1>3, <1>4, <1>5, <1>6, <1>7

LEMMA PeekInv ==
    ASSUME DInv, Peek
    PROVE  DInv'
<1>. USE DEF DInv
<1>1. /\ loop = "peek" /\ unfinished = 0
      /\ UNCHANGED <<pending, jobs, lastDt, blocked, created, latest>>
    BY DEF Peek, Quiet
<1>2. PoolGoesOn /\ stopped' \in BOOLEAN
    BY DEF Peek, PoolGoesOn, StopAll, TypeOK
<1>3. PoolInv(Work)' /\ InPool' \subseteq InPool /\ unfinished' = 0
    BY <1>1, <1>2, PoolGoesOnInv
<1>4. JobsFinite' /\ NotOverdue' /\ PoolOnTime'
    BY <1>1, <1>3, SameJobs
<1>5. /\ loop' \in {"jobs", "failed", "over"}
      /\ target' \in Int /\ draining' \in BOOLEAN
      /\ TargetAhead'
    <2>1. CASE \E s \in SourceSet : HasEvents(s)
        <3>1. NextDt \in Nat \ {0}
            BY <2>1, NextDtType
        <3>. QED
            BY <1>1, <2>1, <3>1 DEF Peek, TargetAhead, TypeOK, InOrder
    <2>2. CASE ~(\E s \in SourceSet : HasEvents(s)) /\ jobs # EmptyBag
        <3>1. Max(JobTimes) \in Int
            BY <2>2, JobTimesExtrema
        <3>. QED
            BY <2>2, <3>1 DEF Peek, TargetAhead
    <2>3. CASE ~(\E s \in SourceSet : HasEvents(s)) /\ jobs = EmptyBag
        BY <2>3 DEF Peek, TargetAhead, TypeOK
    <2>. QED
        BY <2>1, <2>2, <2>3
<1>6. TypeOK'
    BY <1>1, <1>2, <1>3, <1>5 DEF TypeOK, PoolInv
<1>7. NotStarted' /\ Quiet' /\ EventBlocked'
    BY <1>1, <1>3, <1>5 DEF NotStarted, Quiet, EventBlocked
<1>. QED
    BY <1>3, <1>4, <1>5, <1>6, <1>7

\* A job runs when it should: its time is the least, and nothing else runs.
LEMMA RunJobInv ==
    ASSUME DInv, RunJob
    PROVE  /\ DInv'
           /\ InPool = {} /\ lastDt' >= lastDt
<1>. USE DEF DInv
<1>1. /\ loop = "jobs" /\ unfinished = 0 /\ jobs # EmptyBag /\ Min(JobTimes) <= target
      /\ loop' = "jobWait"
      /\ UNCHANGED <<pending, stopped, target, draining, blocked, created, latest>>
    BY DEF RunJob, JobIsDue, Quiet
<1>2. PICK j \in BagToSet(jobs) :
        /\ j.when = Min(JobTimes)
        /\ jobs' = jobs (-) SetToBag({j})
        /\ lastDt' = TimeOfJob(j.when)
        /\ Push([kind |-> "job", job |-> j])
    BY DEF RunJob
<1>. DEFINE item == [kind |-> "job", job |-> j]
<1>3. j \in Job /\ j.when \in Int /\ j.from \in Nat /\ j.when <= target
    BY <1>1, <1>2 DEF TypeOK, Job
<1>4. item \in Work /\ item.kind = "job" /\ item.job = j /\ Push(item)
    BY <1>2, <1>3 DEF Work
<1>5. InPool = {}
    BY <1>1, NothingLeft
<1>6. PoolInv(Work)' /\ InPool' = {item}
    <2>1. PoolInv(Work)' /\ InPool' = InPool \union {item}
        <3>. HIDE DEF item
        <3>. QED
            BY <1>4, PushInv
    <2>. QED
        BY <1>5, <2>1
<1>7. \A k \in BagToSet(jobs) : j.when <= k.when
    BY <1>1, <1>2, JobTimesExtrema
<1>8. IsABag(jobs') /\ JobsFinite' /\ BagToSet(jobs') \subseteq BagToSet(jobs)
    BY <1>2, RemoveJob DEF TypeOK
<1>9. /\ lastDt \in Nat /\ lastDt' \in Nat /\ lastDt' > 0 /\ lastDt' >= lastDt
      /\ lastDt' = lastDt \/ lastDt' = j.when
    BY <1>2, <1>3 DEF TypeOK, TimeOfJob, NotStarted
<1>10. TypeOK'
    BY <1>1, <1>6, <1>8, <1>9 DEF TypeOK, PoolInv
<1>11. NotOverdue'
    <2>1. ASSUME NEW k \in BagToSet(jobs')
          PROVE  k.from <= lastDt' /\ (lastDt' <= k.when \/ lastDt' <= k.from)
        <3>1. k \in BagToSet(jobs) /\ k.when \in Int /\ k.from \in Nat
            BY <1>8 DEF TypeOK, Job
        <3>2. j.when <= k.when /\ k.from <= lastDt /\ (lastDt <= k.when \/ lastDt <= k.from)
            BY <1>7, <3>1 DEF NotOverdue
        <3>. QED
            BY <1>3, <1>9, <3>1, <3>2
    <2>. QED
        BY <2>1 DEF NotOverdue
<1>12. PoolOnTime'
    <2>1. lastDt' = Max({j.when, j.from})
        <3>1. j.from <= lastDt /\ (lastDt <= j.when \/ lastDt <= j.from)
            BY <1>2 DEF NotOverdue
        <3>2. Max({j.when, j.from}) = IF j.when >= j.from THEN j.when ELSE j.from
            BY <1>3, MaxOfTwo
        <3>. QED
            BY <1>2, <1>3, <3>1, <3>2 DEF TimeOfJob, TypeOK, NotStarted
    <2>. QED
        BY <1>4, <1>6, <2>1 DEF PoolOnTime
<1>13. TargetAhead'
    BY <1>1, <1>2, <1>3, <1>9 DEF TargetAhead, TypeOK, TimeOfJob
<1>14. NotStarted' /\ Quiet' /\ EventBlocked'
    BY <1>1, <1>9 DEF NotStarted, Quiet, EventBlocked
<1>. QED
    BY <1>5, <1>6, <1>8, <1>9, <1>10, <1>11, <1>12, <1>13, <1>14

\* The clock moves on when no job is due, to a time that is not past.
LEMMA JobsDoneInv ==
    ASSUME DInv, JobsDone
    PROVE  /\ DInv'
           /\ InPool = {} /\ lastDt' >= lastDt
<1>. USE DEF DInv
<1>1. /\ loop = "jobs" /\ unfinished = 0 /\ ~JobIsDue
      /\ UNCHANGED <<pending, jobs, target, draining, blocked, created, latest>>
    BY DEF JobsDone, Quiet
<1>2. InPool = {}
    BY <1>1, NothingLeft
<1>3. CASE draining
    <2>1. PoolGoesOn /\ stopped' = TRUE /\ loop' = "over" /\ lastDt' = lastDt
        BY <1>3 DEF JobsDone, StopAll, PoolGoesOn
    <2>2. DInv'
        BY <1>1, <2>1, LoopMovesInv
    <2>. QED
        BY <1>2, <2>1, <2>2 DEF TypeOK
<1>4. CASE ~draining
    <2>1. /\ loop' = "events" /\ lastDt' = target /\ UNCHANGED <<stopped, poolVars>>
          /\ lastDt \in Nat /\ target \in Int /\ target > 0 /\ lastDt <= target
        BY <1>1, <1>4 DEF JobsDone, TypeOK, TargetAhead
    <2>2. PoolInv(Work)' /\ InPool' = {} /\ unfinished' = 0
        BY <1>1, <1>2, <2>1, PoolGoesOnInv DEF PoolGoesOn
    <2>3. \A j \in BagToSet(jobs) : j.when \in Int /\ j.from \in Nat /\ target < j.when
        <3>1. ASSUME NEW j \in BagToSet(jobs)
              PROVE  j.when \in Int /\ j.from \in Nat /\ target < j.when
            <4>1. jobs # EmptyBag
                BY DEF EmptyBag, BagToSet, SetToBag
            <4>2. Min(JobTimes) \in Int /\ Min(JobTimes) <= j.when
                BY <4>1, JobTimesExtrema
            <4>3. ~(Min(JobTimes) <= target)
                BY <1>1, <4>1 DEF JobIsDue
            <4>. QED
                BY <2>1, <4>2, <4>3 DEF TypeOK, Job
        <3>. QED
            BY <3>1
    <2>4. TypeOK'
        BY <1>1, <2>1, <2>2 DEF TypeOK, PoolInv
    <2>5. JobsFinite' /\ PoolOnTime'
        BY <1>1, <2>2 DEF JobsFinite, PoolOnTime
    <2>6. NotOverdue'
        BY <1>1, <2>1, <2>3 DEF NotOverdue
    <2>7. Quiet' /\ TargetAhead' /\ NotStarted' /\ EventBlocked'
        BY <2>1 DEF Quiet, TargetAhead, NotStarted, EventBlocked
    <2>. QED
        BY <1>2, <2>1, <2>2, <2>4, <2>5, <2>6, <2>7
<1>. QED
    BY <1>3, <1>4

LEMMA PushedEventInv ==
    ASSUME DInv, NEW item \in Work, item.kind = "event", Push(item),
           loop \in {"events", "blocked"}, loop' = "events",
           pending' \in [SourceSet -> Seq(Event)], blocked' \in {blocked, Nothing}, latest' \in Nat,
           UNCHANGED <<jobs, lastDt, stopped, target, draining, created>>
    PROVE  DInv'
<1>. USE DEF DInv
<1>1. PoolInv(Work)' /\ InPool' = InPool \union {item}
    BY PushInv
<1>2. TypeOK'
    BY <1>1 DEF TypeOK, PoolInv
<1>3. JobsFinite' /\ NotOverdue'
    BY DEF JobsFinite, NotOverdue
<1>4. PoolOnTime'
    BY <1>1 DEF PoolOnTime
<1>5. Quiet' /\ TargetAhead' /\ NotStarted' /\ EventBlocked'
    BY DEF Quiet, TargetAhead, NotStarted, EventBlocked
<1>. QED
    BY <1>1, <1>2, <1>3, <1>4, <1>5

LEMMA PopEventInv ==
    ASSUME DInv, PopEvent
    PROVE  DInv'
<1>. USE DEF DInv
<1>1. /\ loop = "events"
      /\ UNCHANGED <<jobs, lastDt, stopped, target, draining, created>>
    BY DEF PopEvent
<1>2. PICK s \in SourceSet :
        /\ HasEvents(s)
        /\ LET item == [kind |-> "event", source |-> s, event |-> NextOf(s)]
           IN  IF HasRoom
               THEN Push(item) /\ UNCHANGED <<loop, blocked>>
               ELSE loop' = "blocked" /\ blocked' = item /\ UNCHANGED poolVars
        /\ pending' = [pending EXCEPT ![s] = Tail(@)]
        /\ latest' = NextOf(s).when
    BY DEF PopEvent
<1>. DEFINE item == [kind |-> "event", source |-> s, event |-> NextOf(s)]
<1>3. NextOf(s) \in Event /\ Tail(pending[s]) \in Seq(Event)
    BY <1>2, HeadTailProperties DEF TypeOK, HasEvents, NextOf
<1>4. item \in Work /\ item.kind = "event"
    BY <1>3 DEF Work
<1>5. pending' \in [SourceSet -> Seq(Event)] /\ latest' \in Nat
    BY <1>2, <1>3 DEF TypeOK, Event
<1>6. CASE HasRoom
    <2>1. Push(item) /\ UNCHANGED <<loop, blocked>>
        BY <1>2, <1>6
    <2>. HIDE DEF item
    <2>. QED
        BY <1>1, <1>4, <1>5, <2>1, PushedEventInv
<1>7. CASE ~HasRoom
    <2>1. loop' = "blocked" /\ blocked' = item /\ UNCHANGED poolVars
        BY <1>2, <1>7
    <2>. HIDE DEF item
    <2>2. PoolInv(Work)' /\ InPool' \subseteq InPool
        BY <2>1, PoolGoesOnInv DEF PoolGoesOn
    <2>3. TypeOK'
        BY <1>1, <1>4, <1>5, <2>1, <2>2 DEF TypeOK, PoolInv
    <2>4. JobsFinite' /\ NotOverdue' /\ PoolOnTime'
        BY <1>1, <2>2, SameJobs
    <2>5. Quiet' /\ TargetAhead' /\ NotStarted' /\ EventBlocked'
        BY <1>1, <1>4, <2>1 DEF Quiet, TargetAhead, NotStarted, EventBlocked
    <2>. QED
        BY <2>2, <2>3, <2>4, <2>5
<1>. QED
    BY <1>6, <1>7

LEMMA PushBlockedInv ==
    ASSUME DInv, PushBlocked
    PROVE  DInv'
<1>1. blocked \in Work /\ blocked.kind = "event"
    BY DEF PushBlocked, DInv, EventBlocked
<1>. QED
    BY <1>1, PushedEventInv DEF PushBlocked, DInv, TypeOK

\* The other steps of the loop.
LEMMA OtherLoopStepsInv ==
    ASSUME DInv, JobDone \/ EventsPushed \/ EventsDone \/ CleanUp \/ Finalize
    PROVE  DInv'
<1>. USE DEF DInv
<1>1. CASE JobDone
    BY <1>1, LoopMovesInv DEF JobDone, AllDone, PoolGoesOn, TypeOK
<1>2. CASE EventsPushed
    BY <1>2, LoopMovesInv DEF EventsPushed, PoolGoesOn, TypeOK, NotStarted
<1>3. CASE EventsDone
    BY <1>3, LoopMovesInv DEF EventsDone, AllDone, PoolGoesOn, TypeOK
<1>4. CASE CleanUp
    BY <1>4, LoopMovesInv DEF CleanUp, PoolGoesOn, TypeOK
<1>5. CASE Finalize
    BY <1>5, LoopMovesInv DEF Finalize, AllDone, PoolGoesOn, TypeOK
<1>. QED
    BY <1>1, <1>2, <1>3, <1>4, <1>5

\* Something runs, so the clock has started.
LEMMA Started ==
    ASSUME DInv, NEW w \in Workers, state[w] = "running"
    PROVE  lastDt \in Nat \ {0} /\ doing[w] \in InPool
<1>1. w \in At("running") /\ doing[w] \in InPool
    BY DEF At, InPool, TakenBy
<1>2. unfinished # 0
    BY <1>1, NothingLeft DEF DInv
<1>. QED
    BY <1>1, <1>2 DEF DInv, NotStarted, TypeOK

LEMMA PushEventInv ==
    ASSUME DInv, NEW s \in SourceSet, NEW when \in Nat \ {0}, PushEvent(s, when)
    PROVE  DInv'
<1>. USE DEF DInv
<1>1. UNCHANGED <<poolVars, jobs, lastDt, stopped, loop, target, draining, blocked, latest>>
    BY DEF PushEvent
<1>2. PoolInv(Work)' /\ InPool' \subseteq InPool
    BY <1>1, PoolGoesOnInv DEF PoolGoesOn
<1>3. pending' \in [SourceSet -> Seq(Event)]
    <2>1. [when |-> when, late |-> draining] \in Event
        BY DEF Event, TypeOK
    <2>2. Append(pending[s], [when |-> when, late |-> draining]) \in Seq(Event)
        BY <2>1 DEF TypeOK
    <2>. QED
        BY <2>2 DEF PushEvent, TypeOK
<1>4. created' \in [events : Nat, jobs : Nat]
    BY DEF PushEvent, TypeOK
<1>5. TypeOK'
    BY <1>1, <1>2, <1>3, <1>4 DEF TypeOK, PoolInv
<1>6. JobsFinite' /\ NotOverdue' /\ PoolOnTime'
    BY <1>1, <1>2, SameJobs
<1>7. Quiet' /\ TargetAhead' /\ NotStarted' /\ EventBlocked'
    BY <1>1 DEF poolVars, Quiet, TargetAhead, NotStarted, EventBlocked
<1>. QED
    BY <1>2, <1>5, <1>6, <1>7

LEMMA ForwardInv ==
    ASSUME DInv, NEW w \in Workers, Forward(w)
    PROVE  DInv'
<1>1. doing[w] \in Work \union {Nothing} /\ doing[w].kind = "event"
    BY DEF Forward, Handles, DInv, TypeOK, PoolTypeOK
<1>2. doing[w].source \in SourceSet /\ doing[w].event.when \in Nat \ {0}
    BY <1>1 DEF Work, Nothing, Event
<1>3. PICK s \in Forwards[doing[w].source] : PushEvent(s, doing[w].event.when)
    BY DEF Forward
<1>4. s \in SourceSet
    BY <1>2, DispatcherAssumption
<1>. QED
    BY <1>2, <1>3, <1>4, PushEventInv

LEMMA EmitInv ==
    ASSUME DInv, NEW w \in Workers, Emit(w)
    PROVE  DInv'
<1>1. state[w] = "running" /\ lastDt \in Nat \ {0}
    BY Started DEF Emit, Handles
<1>2. PICK s \in SourceSet : PushEvent(s, lastDt)
    <2>1. CASE Handles(w, "job") /\ \E s \in JobEmits : PushEvent(s, lastDt)
        BY <2>1, DispatcherAssumption
    <2>2. CASE Handles(w, "event") /\ \E s \in Emits[doing[w].source] : PushEvent(s, lastDt)
        <3>1. doing[w] \in Work \union {Nothing} /\ doing[w].kind = "event"
            BY <2>2 DEF Handles, DInv, TypeOK, PoolTypeOK
        <3>2. doing[w].source \in SourceSet
            BY <3>1 DEF Work, Nothing
        <3>. QED
            BY <2>2, <3>2, DispatcherAssumption
    <2>. QED
        BY <2>1, <2>2 DEF Emit
<1>. QED
    BY <1>1, <1>2, PushEventInv

LEMMA ScheduleInv ==
    ASSUME DInv, NEW w \in Workers, Schedule(w)
    PROVE  DInv'
<1>. USE DEF DInv
<1>1. /\ state[w] = "running"
      /\ UNCHANGED <<poolVars, pending, lastDt, stopped, loop, target, draining, blocked, latest>>
    BY DEF Schedule
<1>2. lastDt \in Nat \ {0}
    BY <1>1, Started
<1>3. PICK delay \in Delays :
        jobs' = jobs (+) SetToBag({[when |-> lastDt + delay, from |-> lastDt, late |-> draining]})
    BY DEF Schedule
<1>. DEFINE j == [when |-> lastDt + delay, from |-> lastDt, late |-> draining]
<1>4. j \in Job /\ j.from = lastDt
    BY <1>2, DispatcherAssumption DEF Job, TypeOK
<1>5. jobs' = jobs (+) SetToBag({j})
    BY <1>3
<1>. HIDE DEF j
<1>6. IsABag(jobs') /\ JobsFinite' /\ BagToSet(jobs') = BagToSet(jobs) \union {j}
    BY <1>5, AddJob DEF TypeOK
<1>7. PoolInv(Work)' /\ InPool' \subseteq InPool
    BY <1>1, PoolGoesOnInv DEF PoolGoesOn
<1>8. created' \in [events : Nat, jobs : Nat]
    BY DEF Schedule, TypeOK
<1>9. TypeOK'
    BY <1>1, <1>4, <1>6, <1>7, <1>8 DEF TypeOK, PoolInv
<1>10. NotOverdue'
    BY <1>1, <1>2, <1>4, <1>6 DEF NotOverdue
<1>11. PoolOnTime'
    BY <1>1, <1>7 DEF PoolOnTime
<1>12. Quiet' /\ TargetAhead' /\ NotStarted' /\ EventBlocked'
    BY <1>1, <1>2 DEF poolVars, Quiet, TargetAhead, NotStarted, EventBlocked
<1>. QED
    BY <1>6, <1>7, <1>9, <1>10, <1>11, <1>12

\* The pool goes on, or the dispatcher is stopped.
LEMMA OthersInv ==
    ASSUME DInv, Stop \/ (PoolGoesOn /\ UNCHANGED loopVars)
    PROVE  DInv'
<1>1. PoolGoesOn /\ stopped' \in BOOLEAN
    BY DEF DInv, TypeOK, Stop, StopAll, PoolGoesOn, loopVars
<1>2. UNCHANGED <<pending, jobs, lastDt, loop, target, draining, blocked, created, latest>>
    BY DEF Stop, loopVars
<1>3. loop = "eventsWait" => lastDt # 0
    BY DEF DInv, NotStarted
<1>. QED
    BY <1>1, <1>2, <1>3, LoopMovesInv

LEMMA NextInv ==
    ASSUME DInv, [Next]_vars
    PROVE  DInv'
<1>1. CASE LoopStep
    BY <1>1, PeekInv, RunJobInv, JobsDoneInv, PopEventInv, PushBlockedInv, OtherLoopStepsInv
        DEF LoopStep
<1>2. ASSUME NEW w \in Workers, Working(w) \/ Ending(w)
      PROVE  DInv'
    BY <1>2, OthersInv DEF Working, Ending, PoolGoesOn
<1>3. ASSUME NEW w \in Workers, Forward(w) \/ Emit(w) \/ Schedule(w)
      PROVE  DInv'
    BY <1>3, ForwardInv, EmitInv, ScheduleInv
<1>4. CASE Stop \/ UNCHANGED vars
    BY <1>4, OthersInv DEF vars, PoolGoesOn
<1>. QED
    BY <1>1, <1>2, <1>3, <1>4 DEF Next
-----------------------------------------------------------------------------
(***************************************************************************)
(* The theorems.                                                           *)
(***************************************************************************)

\* What the loop, the scheduler and the pool keep between any two steps.
THEOREM DispatcherInvariant == Spec => []DInv
BY InitInv, NextInv, PTL DEF Spec

\* Every variable of the dispatcher keeps its type.
THEOREM DispatcherTypes == Spec => []TypeOK
<1>1. DInv => TypeOK
    BY DEF DInv
<1>. QED
    BY <1>1, DispatcherInvariant, PTL

\* The pool's counters, from which wait() and idle are computed, agree with what its workers do,
\* whatever handlers push and whenever the dispatcher is stopped.
THEOREM CountersRight == Spec => []CountersAgree
<1>1. DInv => CountersAgree
    BY DEF DInv, PoolInv
<1>. QED
    BY <1>1, DispatcherInvariant, PTL

LEMMA NotBusy ==
    ASSUME DInv, unfinished = 0
    PROVE  ~Busy
BY NothingLeft DEF DInv, Busy, Runs, At

\* Producers are finalized when no handler runs any more, and none runs afterwards.
THEOREM FinalizedAfterHandlers == Spec => []FinalizedLast
<1>1. DInv => FinalizedLast
    BY NotBusy DEF DInv, FinalizedLast, Quiet
<1>. QED
    BY <1>1, DispatcherInvariant, PTL

\* A job sees the time it was scheduled for, or that at which it was scheduled.
THEOREM JobsSeeTheirTime == Spec => []JobsOnTime
<1>1. ASSUME DInv, NEW w \in Workers, Handles(w, "job")
      PROVE  lastDt = Max({doing[w].job.when, doing[w].job.from})
    <2>1. doing[w] \in InPool /\ doing[w].kind = "job"
        BY <1>1, Started DEF Handles
    <2>. QED
        BY <1>1, <2>1 DEF DInv, PoolOnTime
<1>2. DInv => JobsOnTime
    BY <1>1 DEF JobsOnTime
<1>. QED
    BY <1>2, DispatcherInvariant, PTL

\* The clock never goes back, and stands still while something runs or is about to.
THEOREM ClockStandsStill == Spec => ClockWaits
<1>1. ASSUME DInv, [Next]_vars, lastDt' # lastDt
      PROVE  lastDt' > lastDt /\ ~Busy
    <2>1. RunJob \/ JobsDone
        BY <1>1 DEF Next, LoopStep, vars, loopVars, Peek, JobDone, PopEvent, PushBlocked,
                    EventsPushed, EventsDone, CleanUp, Finalize, Working, Ending, Forward, Emit,
                    PushEvent, Schedule, Stop
    <2>2. lastDt' >= lastDt /\ DInv'
        BY <1>1, <2>1, RunJobInv, JobsDoneInv
    <2>3. unfinished = 0
        BY <1>1, <2>1 DEF RunJob, JobsDone, DInv, Quiet
    <2>. QED
        BY <1>1, <2>2, <2>3, NotBusy DEF DInv, TypeOK
<1>2. DInv /\ [Next]_vars => [lastDt' # lastDt => lastDt' > lastDt /\ ~Busy]_vars
    BY <1>1
<1>. QED
    BY <1>2, DispatcherInvariant, PTL DEF Spec, ClockWaits
-----------------------------------------------------------------------------
(***************************************************************************)
(* The end of a backtest.  Once the sources are empty the loop only runs   *)
(* jobs; what they create is marked late, and the jobs that were there     *)
(* before have times up to the target.                                     *)
(***************************************************************************)
EventsLate == \A s \in SourceSet : \A i \in DOMAIN pending[s] : pending[s][i].late

Draining ==
    draining => /\ loop \in {"jobs", "jobWait", "over", "cleanup", "ended"}
                /\ EventsLate
                /\ \A j \in BagToSet(jobs) : j.late \/ j.when <= target

AllDispatched ==
    loop = "over" => EventsLate /\ \A j \in BagToSet(jobs) : j.late /\ j.when > target

EndInv == Draining /\ AllDispatched

LEMMA JobsUpToTarget ==
    ASSUME TypeOK, JobsFinite, jobs # EmptyBag, NEW j \in BagToSet(jobs)
    PROVE  j.when <= Max(JobTimes)
<1>. DEFINE D == DOMAIN jobs
            f == [k \in D |-> k.when]
<1>1. JobTimes = {k.when : k \in D} /\ j \in D
    BY DEF JobTimes, BagToSet
<1>2. f \in Surjection(D, JobTimes)
    BY <1>1 DEF Surjection
<1>3. IsFiniteSet(JobTimes)
    <2>. HIDE DEF f
    <2>. QED
        BY <1>2, FS_Surjection DEF JobsFinite, BagToSet
<1>4. JobTimes \in SUBSET Int /\ j.when \in JobTimes
    BY <1>1 DEF TypeOK, BagToSet, Job
<1>. QED
    BY <1>3, <1>4, MaxIsGreatest

\* What only moves the loop, or takes a job, leaves to show.
LEMMA EndKept ==
    ASSUME EndInv, UNCHANGED <<pending, target, draining>>,
           BagToSet(jobs') \subseteq BagToSet(jobs),
           draining => loop' \in {"jobs", "jobWait", "over", "cleanup", "ended"},
           loop' = "over" => loop = "over"
    PROVE  EndInv'
BY DEF EndInv, Draining, AllDispatched, EventsLate

LEMMA PeekEnd ==
    ASSUME DInv, EndInv, Peek
    PROVE  EndInv'
<1>1. loop = "peek" /\ UNCHANGED <<pending, jobs>> /\ ~draining
    BY DEF Peek, EndInv, Draining
<1>2. CASE \E s \in SourceSet : HasEvents(s)
    <2>1. loop' \in {"jobs", "failed"} /\ draining' = draining
        BY <1>2 DEF Peek
    <2>. QED
        BY <1>1, <2>1 DEF EndInv, Draining, AllDispatched
<1>3. CASE ~(\E s \in SourceSet : HasEvents(s))
    <2>1. EventsLate'
        BY <1>1, <1>3, EmptySeq DEF EventsLate, HasEvents
    <2>2. CASE jobs # EmptyBag
        <3>1. loop' = "jobs" /\ target' = Max(JobTimes)
            BY <1>3, <2>2 DEF Peek
        <3>2. \A j \in BagToSet(jobs) : j.when <= target'
            BY <2>2, <3>1, JobsUpToTarget DEF DInv
        <3>. QED
            BY <1>1, <2>1, <3>1, <3>2 DEF EndInv, Draining, AllDispatched
    <2>3. CASE jobs = EmptyBag
        <3>1. loop' = "over" /\ draining' = draining
            BY <1>3, <2>3 DEF Peek
        <3>2. BagToSet(jobs) = {}
            BY <2>3 DEF BagToSet, EmptyBag, SetToBag
        <3>. QED
            BY <1>1, <2>1, <3>1, <3>2 DEF EndInv, Draining, AllDispatched
    <2>. QED
        BY <2>2, <2>3
<1>. QED
    BY <1>2, <1>3

LEMMA JobsDoneEnd ==
    ASSUME DInv, EndInv, JobsDone
    PROVE  EndInv'
<1>1. loop = "jobs" /\ ~JobIsDue /\ UNCHANGED <<pending, jobs, target, draining>>
    BY DEF JobsDone
<1>2. CASE ~draining
    <2>1. loop' = "events"
        BY <1>2 DEF JobsDone
    <2>. QED
        BY <1>1, <1>2, <2>1, EndKept
<1>3. CASE draining
    <2>1. loop' = "over"
        BY <1>3 DEF JobsDone
    <2>2. ASSUME NEW j \in BagToSet(jobs)
          PROVE  j.late /\ j.when > target
        <3>1. jobs # EmptyBag
            BY DEF EmptyBag, BagToSet, SetToBag
        <3>2. Min(JobTimes) \in Int /\ Min(JobTimes) <= j.when
            BY <3>1, JobTimesExtrema DEF DInv
        <3>3. ~(Min(JobTimes) <= target)
            BY <1>1, <3>1 DEF JobIsDue
        <3>4. j.when \in Int /\ target \in Int
            BY DEF DInv, TypeOK, Job
        <3>5. j.when > target
            BY <3>2, <3>3, <3>4
        <3>. QED
            BY <1>3, <3>4, <3>5 DEF EndInv, Draining
    <2>. QED
        BY <1>1, <1>3, <2>1, <2>2 DEF EndInv, Draining, AllDispatched, EventsLate
<1>. QED
    BY <1>2, <1>3

\* Only what runs creates events and jobs, and after the loop nothing runs.
LEMMA RunnerIsEarly ==
    ASSUME DInv, NEW w \in Workers, state[w] = "running"
    PROVE  loop # "over"
BY NothingLeft DEF DInv, Quiet, At

LEMMA PushEventEnd ==
    ASSUME DInv, EndInv, loop # "over", NEW s \in SourceSet, NEW when, PushEvent(s, when)
    PROVE  EndInv'
<1>. DEFINE e == [when |-> when, late |-> draining]
<1>1. /\ pending' = [pending EXCEPT ![s] = Append(pending[s], e)]
      /\ UNCHANGED <<jobs, loop, target, draining>>
    BY DEF PushEvent
<1>2. pending \in [SourceSet -> Seq(Event)]
    BY DEF DInv, TypeOK
<1>3. e.late = draining
    OBVIOUS
<1>. HIDE DEF e
<1>4. ASSUME draining, EventsLate
      PROVE  EventsLate'
    <2>1. ASSUME NEW t \in SourceSet, NEW i \in DOMAIN pending'[t]
          PROVE  pending'[t][i].late
        <3>1. CASE t # s
            BY <1>1, <1>2, <1>4, <2>1, <3>1 DEF EventsLate
        <3>2. CASE t = s
            <4>1. pending[s] \in Seq(Event) /\ pending'[s] = Append(pending[s], e)
                BY <1>1, <1>2
            <4>2. /\ i \in 1..(Len(pending[s]) + 1)
                  /\ pending'[s][i] = IF i = Len(pending[s]) + 1 THEN e ELSE pending[s][i]
                BY <2>1, <3>2, <4>1
            <4>3. i = Len(pending[s]) + 1 \/ i \in DOMAIN pending[s]
                BY <4>1, <4>2
            <4>. QED
                BY <1>3, <1>4, <3>2, <4>2, <4>3 DEF EventsLate
        <3>. QED
            BY <3>1, <3>2
    <2>. QED
        BY <2>1 DEF EventsLate
<1>. QED
    BY <1>1, <1>4 DEF EndInv, Draining, AllDispatched

LEMMA RunnersEnd ==
    ASSUME DInv, EndInv, NEW w \in Workers, Forward(w) \/ Emit(w) \/ Schedule(w)
    PROVE  EndInv'
<1>1. state[w] = "running"
    BY DEF Forward, Emit, Schedule, Handles
<1>2. loop # "over"
    BY <1>1, RunnerIsEarly
<1>3. CASE Schedule(w)
    <2>1. PICK delay \in Delays :
            jobs' = jobs (+) SetToBag({[when |-> lastDt + delay, from |-> lastDt, late |-> draining]})
        BY <1>3 DEF Schedule
    <2>. DEFINE j == [when |-> lastDt + delay, from |-> lastDt, late |-> draining]
    <2>2. jobs' = jobs (+) SetToBag({j}) /\ j.late = draining
        BY <2>1
    <2>. HIDE DEF j
    <2>3. BagToSet(jobs') = BagToSet(jobs) \union {j}
        BY <2>2, AddJob DEF DInv, TypeOK
    <2>4. UNCHANGED <<pending, loop, target, draining>>
        BY <1>3 DEF Schedule
    <2>. QED
        BY <1>2, <2>2, <2>3, <2>4 DEF EndInv, Draining, AllDispatched, EventsLate
<1>4. CASE Forward(w) \/ Emit(w)
    <2>1. doing[w] \in Work \union {Nothing}
        BY DEF DInv, TypeOK, PoolTypeOK
    <2>2. doing[w].kind = "event" => doing[w].source \in SourceSet
        BY <2>1 DEF Work, Nothing
    <2>3. \E s \in SourceSet, when \in {doing[w].event.when, lastDt} : PushEvent(s, when)
        BY <1>4, <2>2, DispatcherAssumption DEF Forward, Emit, Handles
    <2>. QED
        BY <1>2, <2>3, PushEventEnd
<1>. QED
    BY <1>3, <1>4

LEMMA EndStep ==
    ASSUME DInv, EndInv, [Next]_vars
    PROVE  EndInv'
<1>1. CASE Peek \/ JobsDone
    BY <1>1, PeekEnd, JobsDoneEnd
<1>2. CASE RunJob
    <2>1. PICK j : jobs' = jobs (-) SetToBag({j})
        BY <1>2 DEF RunJob
    <2>2. BagToSet(jobs') \subseteq BagToSet(jobs)
        BY <2>1, RemoveJob DEF DInv, TypeOK
    <2>. QED
        BY <1>2, <2>2, EndKept DEF RunJob
<1>3. CASE PopEvent \/ PushBlocked \/ EventsPushed \/ EventsDone
    <2>1. /\ loop \in {"events", "blocked", "eventsWait"}
          /\ loop' \in {"events", "blocked", "eventsWait", "peek"}
          /\ draining' = draining
        BY <1>3 DEF PopEvent, PushBlocked, EventsPushed, EventsDone
    <2>. QED
        BY <2>1 DEF EndInv, Draining, AllDispatched
<1>4. CASE JobDone \/ CleanUp \/ Finalize \/ Stop
    <2>1. UNCHANGED <<pending, jobs, target, draining>>
        BY <1>4 DEF JobDone, CleanUp, Finalize, Stop
    <2>2. loop' \in {"jobs", "cleanup", "ended"} \/ loop' = loop
        BY <1>4 DEF JobDone, CleanUp, Finalize, Stop
    <2>3. draining => loop' \in {"jobs", "jobWait", "over", "cleanup", "ended"}
        BY <2>2 DEF EndInv, Draining
    <2>. QED
        BY <2>1, <2>2, <2>3, EndKept
<1>5. CASE (\E w \in Workers : Working(w) \/ Ending(w)) \/ UNCHANGED vars
    <2>1. UNCHANGED <<pending, jobs, target, draining, loop>>
        BY <1>5 DEF Working, Ending, loopVars, vars
    <2>. QED
        BY <2>1, EndKept DEF EndInv, Draining
<1>6. CASE \E w \in Workers : Forward(w) \/ Emit(w) \/ Schedule(w)
    BY <1>6, RunnersEnd
<1>. QED
    BY <1>1, <1>2, <1>3, <1>4, <1>5, <1>6 DEF Next, LoopStep

\* A backtest that was not stopped ends with every event dispatched and every job executed, but
\* for what the last jobs created, and nothing runs.
THEOREM NothingIsLeftOver == Spec => []EverythingDispatched
<1>1. Init => EndInv
    BY DEF Init, EndInv, Draining, AllDispatched
<1>2. DInv /\ EndInv => EverythingDispatched
    BY NotBusy DEF DInv, Quiet, EndInv, AllDispatched, EventsLate, EverythingDispatched
<1>. QED
    BY <1>1, <1>2, EndStep, DispatcherInvariant, PTL DEF Spec
-----------------------------------------------------------------------------
(***************************************************************************)
(* The task pool implements HandlerPool: what was handed and has not begun *)
(* comes before the queue, which is the order in which both were pushed.   *)
(***************************************************************************)
BusyWithWork == \A w \in Workers : Runs(w) => doing[w] \in Work

\* What waits when the workers h have taken what d says, and q is the queue.
WaitingIn(h, d, q) == [i \in 1..Len(h) |-> d[h[i]]] \o q

LEMMA WaitingElements ==
    ASSUME NEW h \in Seq(Workers), NEW d, NEW q \in Seq(Work),
           \A i \in 1..Len(h) : d[h[i]] \in Work
    PROVE  /\ WaitingIn(h, d, q) \in Seq(Work)
           /\ Len(WaitingIn(h, d, q)) = Len(h) + Len(q)
           /\ \A i \in 1..Len(h) + Len(q) :
                WaitingIn(h, d, q)[i] = IF i <= Len(h) THEN d[h[i]] ELSE q[i - Len(h)]
<1>. DEFINE s == [i \in 1..Len(h) |-> d[h[i]]]
<1>1. s \in Seq(Work) /\ Len(s) = Len(h) /\ \A i \in 1..Len(h) : s[i] = d[h[i]]
    OBVIOUS
<1>2. WaitingIn(h, d, q) = s \o q
    BY DEF WaitingIn
<1>. HIDE DEF s
<1>3. Len(s) \in Nat /\ Len(q) \in Nat
    BY <1>1
<1>4. /\ s \o q \in Seq(Work) /\ Len(s \o q) = Len(s) + Len(q)
      /\ \A i \in 1..Len(s) + Len(q) : (s \o q)[i] = IF i <= Len(s) THEN s[i] ELSE q[i - Len(s)]
    BY <1>1, ConcatProperties
<1>5. \A i \in 1..Len(s) + Len(q) : i <= Len(s) => i \in 1..Len(s)
    BY <1>3
<1>. QED
    BY <1>1, <1>2, <1>4, <1>5

\* Every worker in "handed" has work, and there are no more of them than workers.
LEMMA HandedHaveWork ==
    ASSUME PoolInv(Work), BusyWithWork
    PROVE  /\ handed \in Seq(Workers) /\ queue \in Seq(Work)
           /\ \A i \in 1..Len(handed) : doing[handed[i]] \in Work
           /\ Waiting = WaitingIn(handed, doing, queue)
           /\ Len(handed) <= Cardinality(Workers)
<1>1. handed \in Seq(Workers) /\ queue \in Seq(Work)
    BY DEF PoolInv, PoolTypeOK
<1>2. \A i \in 1..Len(handed) : handed[i] \in Workers /\ state[handed[i]] = "handed"
    BY <1>1 DEF PoolInv, HandedOnce
<1>3. Len(handed) <= Cardinality(Workers)
    <2>1. handed \in Injection(1..Len(handed), Workers)
        BY <1>1, <1>2 DEF Injection, IsInjective, PoolInv, HandedOnce
    <2>2. Cardinality(1..Len(handed)) <= Cardinality(Workers)
        BY <2>1, FS_Injection, PoolAssumption
    <2>3. Cardinality(1..Len(handed)) = Len(handed)
        BY <1>1, FS_Interval
    <2>. QED
        BY <2>2, <2>3
<1>. QED
    BY <1>1, <1>2, <1>3 DEF BusyWithWork, Runs, Waiting, WaitingIn
LEMMA PushWaits ==
    ASSUME PoolInv(Work), BusyWithWork, NEW item \in Work, Push(item)
    PROVE  /\ BusyWithWork'
           /\ Len(Waiting) < MaxQueue + Cardinality(Workers)
           /\ Waiting' = Append(Waiting, item) /\ Running' = Running
<1>. DEFINE s == [i \in 1..Len(handed) |-> doing[handed[i]]]
<1>1. queue' = Append(queue, item) /\ UNCHANGED <<handed, doing>> /\ Len(queue) < MaxQueue
    BY DEF Push, HasRoom
<1>2. \A w \in Workers : state'[w] = state[w] \/ (state[w] = "none" /\ state'[w] = "created")
    BY DEF Push, PoolInv, PoolTypeOK, Registered
<1>3. BusyWithWork' /\ Running' = Running
    BY <1>1, <1>2 DEF BusyWithWork, Runs, Running
<1>4. /\ handed \in Seq(Workers) /\ queue \in Seq(Work) /\ Waiting = WaitingIn(handed, doing, queue)
      /\ \A i \in 1..Len(handed) : doing[handed[i]] \in Work
      /\ Len(handed) <= Cardinality(Workers)
    BY HandedHaveWork
<1>5. Len(Waiting) = Len(handed) + Len(queue)
    BY <1>4, WaitingElements
<1>6. Waiting' = Append(Waiting, item)
    <2>1. Waiting = s \o queue /\ Waiting' = s \o Append(queue, item)
        BY <1>1 DEF Waiting
    <2>2. s \in Seq(Work)
        BY <1>4
    <2>. HIDE DEF s
    <2>. QED
        BY <1>4, <2>1, <2>2
<1>. QED
    BY <1>1, <1>3, <1>4, <1>5, <1>6, FS_CardinalityType, PoolAssumption

LEMMA TakeKeepsOrder ==
    ASSUME NEW h \in Seq(Workers), NEW q \in Seq(Work), NEW d \in [Workers -> Work \union {Nothing}],
           NEW w \in Workers, q # <<>>,
           \A i \in 1..Len(h) : h[i] # w /\ d[h[i]] \in Work
    PROVE  WaitingIn(Append(h, w), [d EXCEPT ![w] = Head(q)], Tail(q)) = WaitingIn(h, d, q)
<1>. DEFINE hh == Append(h, w)
            dd == [d EXCEPT ![w] = Head(q)]
            qq == Tail(q)
<1>1. /\ Len(q) \in Nat \ {0} /\ Len(qq) = Len(q) - 1 /\ qq \in Seq(Work)
      /\ Head(q) \in Work /\ Head(q) = q[1]
      /\ \A i \in 1..Len(qq) : qq[i] = q[i + 1]
    BY HeadTailProperties, EmptySeq
<1>2. /\ hh \in Seq(Workers) /\ Len(hh) = Len(h) + 1 /\ Len(h) \in Nat
      /\ \A i \in 1..Len(h) : hh[i] = h[i] /\ dd[hh[i]] = d[h[i]]
      /\ dd[hh[Len(h) + 1]] = q[1]
    BY <1>1
<1>. HIDE DEF hh, dd, qq
<1>3. \A i \in 1..Len(hh) : dd[hh[i]] \in Work
    <2>1. \A i \in 1..Len(hh) : i \in 1..Len(h) \/ i = Len(h) + 1
        BY <1>2
    <2>. QED
        BY <1>1, <1>2, <2>1
<1>. DEFINE before == WaitingIn(h, d, q)
            after == WaitingIn(hh, dd, qq)
<1>4. /\ before \in Seq(Work) /\ Len(before) = Len(h) + Len(q)
      /\ \A i \in 1..Len(h) + Len(q) : before[i] = IF i <= Len(h) THEN d[h[i]] ELSE q[i - Len(h)]
    BY WaitingElements
<1>5. /\ after \in Seq(Work) /\ Len(after) = Len(hh) + Len(qq)
      /\ \A i \in 1..Len(hh) + Len(qq) : after[i] = IF i <= Len(hh) THEN dd[hh[i]] ELSE qq[i - Len(hh)]
    <2>1. hh \in Seq(Workers) /\ qq \in Seq(Work)
        BY <1>1, <1>2
    <2>. QED
        BY <2>1, <1>3, WaitingElements
<1>. HIDE DEF before, after
<1>6. ASSUME NEW i \in 1..Len(before)
      PROVE  after[i] = before[i]
    <2>1. i \in 1..Len(h) + Len(q) /\ i \in 1..Len(hh) + Len(qq)
        BY <1>1, <1>2, <1>4
    <2>2. CASE i <= Len(h)
        <3>1. i \in 1..Len(h) /\ i <= Len(hh)
            BY <1>2, <2>1, <2>2
        <3>. QED
            BY <1>2, <1>4, <1>5, <2>1, <2>2, <3>1
    <2>3. CASE i = Len(h) + 1
        BY <1>2, <1>4, <1>5, <2>1, <2>3
    <2>4. CASE i > Len(h) + 1
        <3>1. /\ i - Len(hh) \in 1..Len(qq) /\ ~(i <= Len(hh)) /\ ~(i <= Len(h))
              /\ (i - Len(hh)) + 1 = i - Len(h)
            BY <1>1, <1>2, <2>1, <2>4
        <3>2. qq[i - Len(hh)] = q[i - Len(h)]
            BY <1>1, <3>1
        <3>. QED
            BY <1>4, <1>5, <2>1, <3>1, <3>2
    <2>. QED
        BY <1>2, <2>1, <2>2, <2>3, <2>4
<1>7. Len(after) = Len(before)
    BY <1>1, <1>2, <1>4, <1>5
<1>8. after = before
    BY <1>4, <1>5, <1>6, <1>7, SeqEqual
<1>. QED
    BY <1>8 DEF hh, dd, qq, before, after

LEMMA BeginTakesFirst ==
    ASSUME NEW h \in Seq(Workers), NEW q \in Seq(Work), NEW d, h # <<>>,
           \A i \in 1..Len(h) : d[h[i]] \in Work
    PROVE  /\ WaitingIn(h, d, q) # <<>> /\ Head(WaitingIn(h, d, q)) = d[Head(h)]
           /\ WaitingIn(Tail(h), d, q) = Tail(WaitingIn(h, d, q))
<1>. DEFINE t == Tail(h)
            before == WaitingIn(h, d, q)
            after == WaitingIn(t, d, q)
            rest == Tail(before)
<1>1. /\ Len(h) \in Nat \ {0} /\ Len(t) = Len(h) - 1 /\ t \in Seq(Workers) /\ Head(h) = h[1]
      /\ \A i \in 1..Len(t) : t[i] = h[i + 1] /\ i + 1 \in 1..Len(h)
    BY HeadTailProperties, EmptySeq
<1>. HIDE DEF t
<1>2. \A i \in 1..Len(t) : d[t[i]] \in Work
    BY <1>1
<1>3. /\ before \in Seq(Work) /\ Len(before) = Len(h) + Len(q)
      /\ \A i \in 1..Len(h) + Len(q) : before[i] = IF i <= Len(h) THEN d[h[i]] ELSE q[i - Len(h)]
    BY WaitingElements
<1>4. /\ after \in Seq(Work) /\ Len(after) = Len(t) + Len(q)
      /\ \A i \in 1..Len(t) + Len(q) : after[i] = IF i <= Len(t) THEN d[t[i]] ELSE q[i - Len(t)]
    <2>1. t \in Seq(Workers)
        BY <1>1
    <2>. QED
        BY <2>1, <1>2, WaitingElements
<1>. HIDE DEF before, after
<1>5. Len(q) \in Nat /\ Len(before) \in Nat /\ Len(before) >= 1 /\ before # <<>>
    BY <1>1, <1>3, EmptySeq
<1>6. /\ Head(before) = d[Head(h)] /\ rest \in Seq(Work) /\ Len(rest) = Len(before) - 1
      /\ \A i \in 1..Len(rest) : rest[i] = before[i + 1]
    BY <1>1, <1>3, <1>5, HeadTailProperties
<1>. HIDE DEF rest
<1>7. ASSUME NEW i \in 1..Len(rest)
      PROVE  after[i] = rest[i]
    <2>1. i \in 1..Len(t) + Len(q) /\ i + 1 \in 1..Len(h) + Len(q) /\ rest[i] = before[i + 1]
        BY <1>1, <1>3, <1>5, <1>6
    <2>2. CASE i <= Len(t)
        <3>1. i \in 1..Len(t) /\ i + 1 <= Len(h)
            BY <1>1, <2>1, <2>2
        <3>2. t[i] = h[i + 1]
            BY <1>1, <3>1
        <3>. QED
            BY <1>3, <1>4, <2>1, <2>2, <3>1, <3>2
    <2>3. CASE i > Len(t)
        <3>1. ~(i <= Len(t)) /\ ~(i + 1 <= Len(h)) /\ i - Len(t) = (i + 1) - Len(h)
            BY <1>1, <2>1, <2>3
        <3>. QED
            BY <1>3, <1>4, <2>1, <3>1
    <2>. QED
        BY <1>1, <2>1, <2>2, <2>3
<1>8. Len(after) = Len(rest)
    BY <1>1, <1>3, <1>4, <1>5, <1>6
<1>9. after = rest
    BY <1>4, <1>6, <1>7, <1>8, SeqEqual
<1>. QED
    BY <1>5, <1>6, <1>9 DEF t, before, after, rest

LEMMA TakeWaits ==
    ASSUME PoolInv(Work), BusyWithWork, NEW w \in Workers, Take(w)
    PROVE  BusyWithWork' /\ Waiting' = Waiting /\ Running' = Running
<1>1. /\ queue \in Seq(Work) /\ queue # <<>> /\ queue' = Tail(queue)
      /\ doing' = [doing EXCEPT ![w] = Head(queue)]
      /\ handed \in Seq(Workers) /\ handed' = Append(handed, w)
      /\ state' = [state EXCEPT ![w] = "handed"] /\ state[w] = "waiting"
      /\ doing \in [Workers -> Work \union {Nothing}] /\ DOMAIN state = Workers
    BY DEF Take, PoolInv, PoolTypeOK
<1>2. Head(queue) \in Work
    BY <1>1, HeadTailProperties
<1>3. BusyWithWork' /\ Running' = Running
    BY <1>1, <1>2 DEF BusyWithWork, Runs, Running
<1>4. /\ Waiting = WaitingIn(handed, doing, queue)
      /\ Waiting' = WaitingIn(Append(handed, w), [doing EXCEPT ![w] = Head(queue)], Tail(queue))
      /\ \A i \in 1..Len(handed) : doing[handed[i]] \in Work
    BY <1>1, HandedHaveWork DEF Waiting, WaitingIn
<1>5. \A i \in 1..Len(handed) : handed[i] # w
    BY <1>1 DEF PoolInv, HandedOnce
<1>6. Waiting' = Waiting
    BY <1>1, <1>4, <1>5, TakeKeepsOrder
<1>. QED
    BY <1>3, <1>6

LEMMA BeginWaits ==
    ASSUME PoolInv(Work), BusyWithWork, NEW w \in Workers, Begin(w)
    PROVE  /\ BusyWithWork'
           /\ Waiting # <<>> /\ Running[w] = Nothing
           /\ Waiting' = Tail(Waiting) /\ Running' = [Running EXCEPT ![w] = Head(Waiting)]
<1>1. /\ handed \in Seq(Workers) /\ handed # <<>> /\ w = Head(handed) /\ handed' = Tail(handed)
      /\ state' = [state EXCEPT ![w] = "running"] /\ DOMAIN state = Workers
      /\ UNCHANGED <<queue, doing>> /\ queue \in Seq(Work)
    BY DEF Begin, PoolInv, PoolTypeOK
<1>2. state[w] = "handed"
    <2>1. w = handed[1] /\ 1 \in 1..Len(handed)
        BY <1>1, HeadTailProperties, EmptySeq
    <2>. QED
        BY <2>1 DEF PoolInv, HandedOnce
<1>3. /\ Waiting = WaitingIn(handed, doing, queue)
      /\ Waiting' = WaitingIn(Tail(handed), doing, queue)
      /\ \A i \in 1..Len(handed) : doing[handed[i]] \in Work
    BY <1>1, HandedHaveWork DEF Waiting, WaitingIn
<1>4. /\ Waiting # <<>> /\ Head(Waiting) = doing[w] /\ Waiting' = Tail(Waiting)
    BY <1>1, <1>3, BeginTakesFirst
<1>5. Running[w] = Nothing /\ Running' = [Running EXCEPT ![w] = Head(Waiting)]
    BY <1>1, <1>2, <1>4 DEF Running
<1>6. BusyWithWork'
    BY <1>1, <1>2 DEF BusyWithWork, Runs
<1>. QED
    BY <1>4, <1>5, <1>6

LEMMA FinishWaits ==
    ASSUME PoolInv(Work), BusyWithWork, NEW w \in Workers, Finish(w)
    PROVE  /\ BusyWithWork'
           /\ Running[w] # Nothing
           /\ Waiting' = Waiting /\ Running' = [Running EXCEPT ![w] = Nothing]
<1>1. /\ state[w] = "running" /\ DOMAIN state = Workers
      /\ doing' = [doing EXCEPT ![w] = Nothing] /\ DOMAIN doing = Workers
      /\ UNCHANGED <<queue, handed>> /\ handed \in Seq(Workers)
    BY DEF Finish, PoolInv, PoolTypeOK
<1>2. PICK to \in {"none", "waiting"} : state' = [state EXCEPT ![w] = to]
    BY DEF Finish, Leave
<1>3. \A i \in 1..Len(handed) : handed[i] \in Workers /\ handed[i] # w
    BY <1>1 DEF PoolInv, HandedOnce
<1>4. Waiting' = Waiting
    <2>1. \A i \in 1..Len(handed) : doing'[handed'[i]] = doing[handed[i]]
        BY <1>1, <1>3
    <2>2. [i \in 1..Len(handed') |-> doing'[handed'[i]]] = [i \in 1..Len(handed) |-> doing[handed[i]]]
        BY <1>1, <2>1
    <2>. QED
        BY <1>1, <2>2 DEF Waiting
<1>5. Running[w] # Nothing
    <2>1. doing[w] \in Work /\ Running[w] = doing[w]
        BY <1>1 DEF BusyWithWork, Runs, Running
    <2>. QED
        BY <2>1 DEF Work, Nothing
<1>6. Running' = [Running EXCEPT ![w] = Nothing] /\ BusyWithWork'
    BY <1>1, <1>2 DEF Running, BusyWithWork, Runs
<1>. QED
    BY <1>4, <1>5, <1>6

LEMMA CancelWaits ==
    ASSUME PoolInv(Work), BusyWithWork, Cancel
    PROVE  /\ BusyWithWork'
           /\ \E kept \in 0..Len(Waiting) : Waiting' = SubSeq(Waiting, 1, kept)
           /\ Running' = Running
<1>1. /\ state' = [v \in Workers |-> IF state[v] = "created" THEN "abandoned" ELSE state[v]]
      /\ queue' = <<>> /\ UNCHANGED <<doing, handed>>
    BY DEF Cancel
<1>2. BusyWithWork' /\ Running' = Running
    BY <1>1 DEF BusyWithWork, Runs, Running
<1>3. /\ handed \in Seq(Workers) /\ queue \in Seq(Work) /\ <<>> \in Seq(Work)
      /\ Waiting = WaitingIn(handed, doing, queue) /\ Waiting' = WaitingIn(handed, doing, <<>>)
      /\ \A i \in 1..Len(handed) : doing[handed[i]] \in Work
    BY <1>1, HandedHaveWork DEF Waiting, WaitingIn
<1>4. /\ Waiting \in Seq(Work) /\ Len(Waiting) = Len(handed) + Len(queue)
      /\ \A i \in 1..Len(handed) + Len(queue) :
            Waiting[i] = IF i <= Len(handed) THEN doing[handed[i]] ELSE queue[i - Len(handed)]
    BY <1>3, WaitingElements
<1>5. /\ Waiting' \in Seq(Work) /\ Len(Waiting') = Len(handed) + Len(<<>>)
      /\ \A i \in 1..Len(handed) + Len(<<>>) :
            (Waiting')[i] = IF i <= Len(handed) THEN doing[handed[i]] ELSE <<>>[i - Len(handed)]
    BY <1>3, WaitingElements
<1>6. Len(handed) \in 0..Len(Waiting) /\ Len(Waiting') = Len(handed)
    BY <1>3, <1>4, <1>5
<1>7. /\ SubSeq(Waiting, 1, Len(handed)) \in Seq(Work)
      /\ Len(SubSeq(Waiting, 1, Len(handed))) = Len(handed)
      /\ \A i \in 1..Len(handed) : SubSeq(Waiting, 1, Len(handed))[i] = Waiting[i]
    BY <1>4, <1>6
<1>8. Waiting' = SubSeq(Waiting, 1, Len(handed))
    BY <1>4, <1>5, <1>6, <1>7, SeqEqual
<1>. QED
    BY <1>2, <1>6, <1>8
\* The other steps of workers do not show.
LEMMA OthersWait ==
    ASSUME PoolInv(Work), BusyWithWork,
           UNCHANGED poolVars \/ \E w \in Workers : Start(w) \/ TimeOut(w) \/ Canceled(w)
    PROVE  BusyWithWork' /\ Waiting' = Waiting /\ Running' = Running
<1>1. UNCHANGED <<queue, doing, handed>>
    BY DEF poolVars, Start, TimeOut, Canceled
<1>2. \A v \in Workers :
        \/ state'[v] = state[v]
        \/ state[v] \in {"created", "waiting"} /\ state'[v] \in {"none", "waiting"}
    BY DEF poolVars, Start, TimeOut, Canceled, Leave, PoolInv, PoolTypeOK
<1>. QED
    BY <1>1, <1>2 DEF BusyWithWork, Runs, Waiting, Running

\* What a step of the pool is for those who use it.
PoolStep == Pool!PoolNext \/ UNCHANGED <<Waiting, Running>>

LEMMA PoolGoesOnStep ==
    ASSUME PoolInv(Work), BusyWithWork, PoolGoesOn
    PROVE  BusyWithWork' /\ PoolStep
<1>1. CASE Cancel
    <2>1. /\ \E kept \in 0..Len(Waiting) : Waiting' = SubSeq(Waiting, 1, kept)
          /\ BusyWithWork' /\ Running' = Running
        BY <1>1, CancelWaits
    <2>. QED
        BY <2>1 DEF PoolStep, Pool!PoolNext, Pool!Cancel
<1>2. ASSUME NEW w \in Workers, Begin(w)
      PROVE  BusyWithWork' /\ PoolStep
    <2>1. /\ Waiting # <<>> /\ Running[w] = Nothing
          /\ Waiting' = Tail(Waiting) /\ Running' = [Running EXCEPT ![w] = Head(Waiting)]
          /\ BusyWithWork'
        BY <1>2, BeginWaits
    <2>. QED
        BY <2>1 DEF PoolStep, Pool!PoolNext, Pool!Begin, Pool!Nothing, Nothing
<1>3. ASSUME NEW w \in Workers, Finish(w)
      PROVE  BusyWithWork' /\ PoolStep
    <2>1. /\ Running[w] # Nothing
          /\ Waiting' = Waiting /\ Running' = [Running EXCEPT ![w] = Nothing]
          /\ BusyWithWork'
        BY <1>3, FinishWaits
    <2>. QED
        BY <2>1 DEF PoolStep, Pool!PoolNext, Pool!Finish, Pool!Nothing, Nothing
<1>4. ASSUME NEW w \in Workers, Take(w)
      PROVE  BusyWithWork' /\ PoolStep
    BY <1>4, TakeWaits DEF PoolStep
<1>5. CASE UNCHANGED poolVars \/ \E w \in Workers : Start(w) \/ TimeOut(w) \/ Canceled(w)
    BY <1>5, OthersWait DEF PoolStep
<1>. QED
    BY <1>1, <1>2, <1>3, <1>4, <1>5 DEF PoolGoesOn, WorkerStep

LEMMA PushStep ==
    ASSUME PoolInv(Work), BusyWithWork, NEW item \in Work, Push(item)
    PROVE  BusyWithWork' /\ PoolStep
<1>1. /\ Len(Waiting) < MaxQueue + Cardinality(Workers)
      /\ Waiting' = Append(Waiting, item) /\ Running' = Running
      /\ BusyWithWork'
    BY PushWaits
<1>2. Waiting \in Seq(Work)
    <2>1. /\ handed \in Seq(Workers) /\ queue \in Seq(Work) /\ Waiting = WaitingIn(handed, doing, queue)
          /\ \A i \in 1..Len(handed) : doing[handed[i]] \in Work
        BY HandedHaveWork
    <2>. QED
        BY <2>1, WaitingElements
<1>3. item \in Pool!Range(Waiting')
    <2>1. Len(Waiting) + 1 \in DOMAIN Append(Waiting, item)
        BY <1>2
    <2>2. Append(Waiting, item)[Len(Waiting) + 1] = item
        BY <1>2
    <2>. QED
        BY <1>1, <2>1, <2>2 DEF Pool!Range
<1>. QED
    BY <1>1, <1>3 DEF PoolStep, Pool!PoolNext, Pool!Push, Pool!HasRoom

LEMMA PoolFollows ==
    ASSUME DInv, BusyWithWork, [Next]_vars
    PROVE  BusyWithWork' /\ PoolStep
<1>. USE DEF DInv
<1>1. CASE RunJob
    <2>1. PICK j \in BagToSet(jobs) : Push([kind |-> "job", job |-> j])
        BY <1>1 DEF RunJob
    <2>2. j \in Job
        BY DEF TypeOK
    <2>3. [kind |-> "job", job |-> j] \in Work
        BY <2>2 DEF Work
    <2>. QED
        BY <2>1, <2>3, PushStep
<1>2. CASE PopEvent
    <2>1. CASE UNCHANGED poolVars
        BY <2>1, PoolGoesOnStep DEF PoolGoesOn
    <2>2. CASE ~(UNCHANGED poolVars)
        <3>1. PICK s \in SourceSet :
                HasEvents(s) /\ Push([kind |-> "event", source |-> s, event |-> NextOf(s)])
            BY <1>2, <2>2 DEF PopEvent
        <3>2. NextOf(s) \in Event
            BY <3>1, HeadTailProperties DEF TypeOK, HasEvents, NextOf
        <3>3. [kind |-> "event", source |-> s, event |-> NextOf(s)] \in Work
            BY <3>2 DEF Work
        <3>. QED
            BY <3>1, <3>3, PushStep
    <2>. QED
        BY <2>1, <2>2
<1>3. CASE PushBlocked
    <2>1. blocked \in Work /\ Push(blocked)
        BY <1>3 DEF PushBlocked, EventBlocked
    <2>. QED
        BY <2>1, PushStep
<1>4. CASE ~(RunJob \/ PopEvent \/ PushBlocked)
    <2>1. PoolGoesOn
        <3>1. CASE LoopStep
            BY <1>4, <3>1 DEF LoopStep, Peek, JobDone, JobsDone, EventsPushed, EventsDone, CleanUp,
                              Finalize, StopAll, PoolGoesOn
        <3>2. ASSUME NEW w \in Workers, Working(w) \/ Ending(w)
              PROVE  PoolGoesOn
            BY <3>2 DEF Working, Ending, PoolGoesOn
        <3>3. ASSUME NEW w \in Workers, Forward(w) \/ Emit(w) \/ Schedule(w)
              PROVE  PoolGoesOn
            BY <3>3 DEF Forward, Emit, PushEvent, Schedule, PoolGoesOn
        <3>4. CASE Stop \/ UNCHANGED vars
            BY <3>4 DEF Stop, StopAll, vars, PoolGoesOn
        <3>. QED
            BY <3>1, <3>2, <3>3, <3>4 DEF Next
    <2>. QED
        BY <2>1, PoolGoesOnStep
<1>. QED
    BY <1>1, <1>2, <1>3, <1>4

\* Work begins in the order it was pushed, once, and only what has not begun is dropped, whatever
\* handlers do and whenever the dispatcher is stopped.
THEOREM PoolKeepsOrder == Spec => PoolImplemented
<1>1. Init => BusyWithWork /\ Pool!PoolInit
    BY DEF Init, PoolInit, BusyWithWork, Runs, Pool!PoolInit, Waiting, Running, Pool!Nothing, Nothing
<1>2. DInv /\ BusyWithWork /\ [Next]_vars => BusyWithWork' /\ [Pool!PoolNext]_(Pool!handlerPool)
    BY PoolFollows DEF PoolStep, Pool!handlerPool
<1>. QED
    BY <1>1, <1>2, DispatcherInvariant, PTL DEF Spec, PoolImplemented, Pool!PoolSpec
=============================================================================
