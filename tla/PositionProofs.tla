--------------------------- MODULE PositionProofs ---------------------------
(***************************************************************************)
(* The position manager.  For any number of coroutines at work, and        *)
(* whichever calls raise, its lock excludes, what it knows of an order's   *)
(* fills never goes back, once nothing is left to do it knows the order it *)
(* tracks as the exchange does, and the position it starts from is what    *)
(* the orders it accounts for filled.                                      *)
(***************************************************************************)
EXTENDS PositionManager, Foundations, TLAPS, SequenceTheorems, FiniteSetTheorems

\* Where a coroutine has the lock while it waits for an answer.
Critical == {"refresh", "cancel", "prices", "track"}

LockInv == \A t \in Tasks : task[t].at \in Critical => Holds(t)

Known(info) == info.id \in 0..Len(orders) /\ (info.open => info.id > 0)

\* What is tracked is an order of the exchange, as it is or was.
InfoInv ==
    /\ Known(tracked)
    /\ tracked.id > 0 => tracked.filled <= orders[tracked.id].filled
    /\ \A t \in Tasks : Known(task[t].copy)

EventsInv ==
    \A i \in DOMAIN events :
        /\ events[i].id \in DOMAIN orders
        /\ events[i].filled <= orders[events[i].id].filled

\* The answer to a call about the order tracked is not older than what is
\* known, since nobody else gets the lock meanwhile; an order that was just
\* created is not yet tracked.
AnswerFits(t) ==
    /\ task[t].at = "refresh" =>
        /\ tracked.id > 0
        /\ tracked.filled <= task[t].answer.filled
        /\ task[t].answer.filled <= orders[tracked.id].filled
    /\ task[t].at = "track" => tracked.id < Len(orders) /\ task[t].answer.filled = 0
    /\ task[t].at = "cancel" => task[t].copy.id > 0

AnswerInv == \A t \in Tasks : AnswerFits(t)

\* The handler has an update to handle.
HandlerInv == task[Handler].at = "event" => events # <<>>

PInv == TypeOK /\ LockInv /\ InfoInv /\ EventsInv /\ AnswerInv /\ HandlerInv

-----------------------------------------------------------------------------
(***************************************************************************)
(* What every step keeps.                                                  *)
(***************************************************************************)

LEMMA OrdersTyped ==
    ASSUME NEW s \in Seq(OrderRecords)
    PROVE  /\ Len(s) \in Nat /\ DOMAIN s = 1..Len(s)
           /\ \A id \in DOMAIN s : s[id] \in OrderRecords /\ s[id].filled \in Nat
<1>1. Len(s) \in Nat /\ DOMAIN s = 1..Len(s) /\ \A id \in DOMAIN s : s[id] \in OrderRecords
    OBVIOUS
<1>. QED
    BY <1>1 DEF OrderRecords

LEMMA UpdatesTyped ==
    ASSUME NEW s \in Seq(Updates)
    PROVE  /\ Len(s) \in Nat /\ DOMAIN s = 1..Len(s)
           /\ \A i \in DOMAIN s : s[i] \in Updates /\ s[i].filled \in Nat
<1>1. Len(s) \in Nat /\ DOMAIN s = 1..Len(s) /\ \A i \in DOMAIN s : s[i] \in Updates
    OBVIOUS
<1>. QED
    BY <1>1 DEF Updates

\* A lock is asked for at the end and released by its holder, so no other
\* coroutine loses it.
LEMMA LockKept ==
    ASSUME LockInv, lock \in Seq(Coroutines), NEW c \in Coroutines,
           \A t \in Tasks \ {c} : task'[t] = task[t],
           Holds(c) \/ lock' = lock \/ \E d \in Coroutines : lock' = Append(lock, d),
           c \in Tasks /\ task'[c].at \in Critical => Holds(c)'
    PROVE  LockInv'
<1>. SUFFICES ASSUME NEW t \in Tasks, task'[t].at \in Critical, t # c
              PROVE  Holds(t)'
    BY DEF LockInv
<1>1. Holds(t)
    BY DEF LockInv
<1>2. ~Holds(c)
    BY <1>1 DEF Holds
<1>3. CASE lock' = lock
    BY <1>1, <1>3 DEF Holds
<1>4. CASE \E d \in Coroutines : lock' = Append(lock, d)
    BY <1>1, <1>4 DEF Holds
<1>. QED
    BY <1>2, <1>3, <1>4

Grows ==
    /\ Len(orders) <= Len(orders')
    /\ \A id \in DOMAIN orders : orders[id].filled <= orders'[id].filled

\* Orders are created and filled; of the order tracked only the holder of the
\* lock learns.
LEMMA KnowledgeKept ==
    ASSUME PInv, TypeOK', Grows, NEW c \in Coroutines,
           \A t \in Tasks \ {c} : task'[t] = task[t],
           \/ tracked' = tracked
           \/ /\ Holds(c) /\ Known(tracked)'
              /\ tracked'.id > 0 => tracked'.filled <= orders'[tracked'.id].filled,
           c \in Tasks => Known(task[c].copy)' /\ AnswerFits(c)'
    PROVE  InfoInv' /\ AnswerInv'
<1>1. /\ Len(orders) \in Nat /\ Len(orders') \in Nat /\ Len(orders) <= Len(orders')
      /\ DOMAIN orders = 1..Len(orders) /\ DOMAIN orders' = 1..Len(orders')
      /\ \A id \in DOMAIN orders : orders[id].filled \in Nat
      /\ \A id \in DOMAIN orders' : orders'[id].filled \in Nat
      /\ tracked.id \in Nat /\ tracked.filled \in Nat
    <2>1. orders \in Seq(OrderRecords) /\ orders' \in Seq(OrderRecords)
        BY DEF PInv, TypeOK
    <2>2. tracked.id \in Nat /\ tracked.filled \in Nat
        BY DEF PInv, TypeOK, Positions
    <2>. QED
        BY <2>1, <2>2, OrdersTyped DEF Grows
<1>2. Known(tracked)' /\ (tracked'.id > 0 => tracked'.filled <= orders'[tracked'.id].filled)
    <2>1. CASE tracked' = tracked
        BY <1>1, <2>1 DEF PInv, InfoInv, Known, Grows
    <2>. QED
        BY <2>1
<1>3. ASSUME NEW t \in Tasks PROVE Known(task[t].copy)'
    <2>1. CASE t # c
        <3>1. task'[t] = task[t] /\ Known(task[t].copy)
            BY <2>1 DEF PInv, InfoInv
        <3>. QED
            BY <1>1, <3>1 DEF Known
    <2>. QED
        BY <2>1
<1>4. ASSUME NEW t \in Tasks PROVE AnswerFits(t)'
    <2>1. CASE t # c
        <3>1. task'[t] = task[t] /\ AnswerFits(t) /\ task[t].answer.filled \in Nat
            BY <2>1 DEF PInv, AnswerInv, TypeOK, Works, OrderStates, Coroutines
        <3>2. CASE task[t].at \in Critical
            <4>1. Holds(t)
                BY <3>2 DEF PInv, LockInv
            <4>2. tracked' = tracked
                BY <2>1, <4>1 DEF Holds
            <4>. QED
                BY <1>1, <3>1, <4>2 DEF AnswerFits, Grows, PInv, InfoInv, Known
        <3>3. CASE task[t].at \notin Critical
            BY <3>1, <3>3 DEF AnswerFits, Critical
        <3>. QED
            BY <3>2, <3>3
    <2>. QED
        BY <2>1
<1>. QED
    BY <1>2, <1>3, <1>4 DEF InfoInv, AnswerInv

\* Reports name orders of the exchange, which are filled further meanwhile.
LEMMA EventsKept ==
    ASSUME PInv, TypeOK', Grows,
           \/ events' = events
           \/ events # <<>> /\ events' = Tail(events)
           \/ \E id \in DOMAIN orders', e \in Updates :
                events' = Append(events, e) /\ e.id = id /\ e.filled = orders'[id].filled
    PROVE  EventsInv'
<1>1. /\ Len(orders) \in Nat /\ Len(orders') \in Nat /\ Len(orders) <= Len(orders')
      /\ DOMAIN orders = 1..Len(orders) /\ DOMAIN orders' = 1..Len(orders')
      /\ \A id \in DOMAIN orders : orders[id].filled \in Nat
      /\ \A id \in DOMAIN orders' : orders'[id].filled \in Nat
    <2>1. orders \in Seq(OrderRecords) /\ orders' \in Seq(OrderRecords)
        BY DEF PInv, TypeOK
    <2>. QED
        BY <2>1, OrdersTyped DEF Grows
<1>2. events \in Seq(Updates)
    BY DEF PInv, TypeOK
<1>3. \A i \in DOMAIN events :
        events[i].id \in DOMAIN orders' /\ events[i].filled <= orders'[events[i].id].filled
    <2>. SUFFICES ASSUME NEW i \in DOMAIN events
                  PROVE  events[i].id \in DOMAIN orders'
                         /\ events[i].filled <= orders'[events[i].id].filled
        OBVIOUS
    <2>1. events[i].id \in DOMAIN orders /\ events[i].filled <= orders[events[i].id].filled
        BY DEF PInv, EventsInv
    <2>2. events[i].filled \in Nat
        BY <1>2, UpdatesTyped
    <2>. QED
        BY <1>1, <2>1, <2>2 DEF Grows
<1>4. CASE events' = events
    BY <1>3, <1>4 DEF EventsInv
<1>5. CASE events # <<>> /\ events' = Tail(events)
    <2>1. \A i \in DOMAIN events' : i + 1 \in DOMAIN events /\ events'[i] = events[i + 1]
        BY <1>2, <1>5
    <2>. QED
        BY <1>3, <2>1 DEF EventsInv
<1>6. CASE \E id \in DOMAIN orders', e \in Updates :
                events' = Append(events, e) /\ e.id = id /\ e.filled = orders'[id].filled
    <2>1. PICK id \in DOMAIN orders', e \in Updates :
            events' = Append(events, e) /\ e.id = id /\ e.filled = orders'[id].filled
        BY <1>6
    <2>2. \A i \in DOMAIN events' : \/ i \in DOMAIN events /\ events'[i] = events[i]
                                    \/ events'[i] = e
        BY <1>2, <2>1
    <2>. QED
        BY <1>1, <1>3, <2>1, <2>2 DEF EventsInv
<1>. QED
    BY <1>4, <1>5, <1>6

\* A step of a coroutine that keeps to the rules keeps the invariant.
LEMMA StepKeeps ==
    ASSUME PInv, TypeOK', Grows, NEW c \in Coroutines,
           \A d \in Coroutines \ {c} : task'[d] = task[d],
           Holds(c) \/ lock' = lock \/ \E d \in Coroutines : lock' = Append(lock, d),
           c \in Tasks /\ task'[c].at \in Critical => Holds(c)',
           \/ tracked' = tracked
           \/ /\ Holds(c) /\ Known(tracked)'
              /\ tracked'.id > 0 => tracked'.filled <= orders'[tracked'.id].filled,
           c \in Tasks => Known(task[c].copy)' /\ AnswerFits(c)',
           c = Handler => HandlerInv',
           \/ events' = events
           \/ c = Handler /\ events # <<>> /\ events' = Tail(events)
           \/ \E id \in DOMAIN orders', e \in Updates :
                events' = Append(events, e) /\ e.id = id /\ e.filled = orders'[id].filled
    PROVE  PInv'
<1>1. LockInv /\ lock \in Seq(Coroutines) /\ events \in Seq(Updates) /\ HandlerInv
    BY DEF PInv, TypeOK
<1>2. \A t \in Tasks \ {c} : task'[t] = task[t]
    BY DEF Coroutines
<1>3. LockInv'
    BY <1>1, <1>2, LockKept
<1>4. InfoInv' /\ AnswerInv'
    BY <1>2, KnowledgeKept
<1>5. EventsInv'
    BY EventsKept
<1>6. HandlerInv'
    <2>1. CASE c # Handler
        <3>1. task'[Handler] = task[Handler]
            BY <2>1 DEF Coroutines
        <3>2. events # <<>> => events' # <<>>
            BY <1>1, <2>1
        <3>. QED
            BY <1>1, <3>1, <3>2 DEF HandlerInv
    <2>. QED
        BY <2>1
<1>. QED
    BY <1>3, <1>4, <1>5, <1>6 DEF PInv

\* The orders are unchanged.
LEMMA SameOrders ==
    ASSUME PInv, orders' = orders
    PROVE  Grows
<1>1. orders \in Seq(OrderRecords)
    BY DEF PInv, TypeOK
<1>. QED
    BY <1>1, OrdersTyped DEF Grows

-----------------------------------------------------------------------------
(***************************************************************************)
(* The steps.                                                              *)
(***************************************************************************)

Stations == {"idle", "info", "refresh", "loss", "begin", "cancel", "prices",
             "track", "event"}

LEMMA OneTaskWorks ==
    ASSUME task \in [Coroutines -> Works], NEW c \in Coroutines, NEW w \in Works,
           task' = [task EXCEPT ![c] = w]
    PROVE  /\ task' \in [Coroutines -> Works] /\ task'[c] = w
           /\ \A d \in Coroutines \ {c} : task'[d] = task[d]
OBVIOUS

LEMMA IdleWorks ==
    /\ Idle \in Works /\ Idle.copy = NoPosition /\ Idle.copy.id = 0
    /\ ~Idle.copy.open /\ Idle.at = "idle"
BY DEF Idle, Works, NoPosition, Positions, OrderStates

LEMMA WorkAt ==
    ASSUME NEW w \in Works, NEW at \in Stations
    PROVE  /\ [w EXCEPT !.at = at] \in Works /\ [w EXCEPT !.at = at].at = at
           /\ [w EXCEPT !.at = at].copy = w.copy
           /\ [w EXCEPT !.at = at].answer = w.answer
BY DEF Works, Stations

LEMMA WorkCopy ==
    ASSUME NEW w \in Works, NEW copy \in Positions
    PROVE  /\ [w EXCEPT !.copy = copy] \in Works /\ [w EXCEPT !.copy = copy].at = w.at
           /\ [w EXCEPT !.copy = copy].copy = copy
BY DEF Works

LEMMA WorkAnswer ==
    ASSUME NEW w \in Works, NEW answer \in OrderStates
    PROVE  /\ [w EXCEPT !.answer = answer] \in Works
           /\ [w EXCEPT !.answer = answer].at = w.at
           /\ [w EXCEPT !.answer = answer].copy = w.copy
           /\ [w EXCEPT !.answer = answer].answer = answer
BY DEF Works

LEMMA WorkPosition ==
    ASSUME NEW w \in Works, NEW position \in Int
    PROVE  /\ [w EXCEPT !.position = position] \in Works
           /\ [w EXCEPT !.position = position].at = w.at
           /\ [w EXCEPT !.position = position].copy = w.copy
           /\ [w EXCEPT !.position = position].answer = w.answer
BY DEF Works

LEMMA WorkFlags ==
    ASSUME NEW w \in Works
    PROVE  /\ [w EXCEPT !.check = TRUE] \in Works /\ [w EXCEPT !.force = TRUE] \in Works
           /\ [w EXCEPT !.check = TRUE].at = w.at /\ [w EXCEPT !.force = TRUE].at = w.at
           /\ [w EXCEPT !.check = TRUE].copy = w.copy
           /\ [w EXCEPT !.force = TRUE].copy = w.copy
BY DEF Works

LEMMA TaskGoes ==
    ASSUME task \in [Coroutines -> Works], NEW c \in Coroutines, NEW at \in Stations,
           Goes(c, at)
    PROVE  /\ task' \in [Coroutines -> Works]
           /\ task'[c].at = at /\ task'[c].copy = task[c].copy
           /\ \A d \in Coroutines \ {c} : task'[d] = task[d]
<1>. DEFINE w == [task[c] EXCEPT !.at = at]
<1>1. task' = [task EXCEPT ![c] = w]
    BY DEF Goes
<1>2. task[c] \in Works /\ task[c].copy \in Positions /\ task[c].answer \in OrderStates
    BY DEF Works
<1>3. w \in Works /\ w.at = at /\ w.copy = task[c].copy
    BY <1>2, WorkAt
<1>. HIDE DEF w
<1>. QED
    BY <1>1, <1>3, OneTaskWorks

LEMMA TaskEnds ==
    ASSUME task \in [Coroutines -> Works], NEW c \in Coroutines, Ends(c)
    PROVE  /\ task' \in [Coroutines -> Works] /\ task'[c] = Idle
           /\ \A d \in Coroutines \ {c} : task'[d] = task[d]
BY IdleWorks, OneTaskWorks DEF Ends

\* An idle coroutine, and one that does not have an answer to wait for.
LEMMA IdleFits ==
    ASSUME NEW t \in Tasks, TypeOK, task[t] = Idle
    PROVE  Known(task[t].copy) /\ AnswerFits(t) /\ task[t].at \notin Critical
<1>1. Len(orders) \in Nat
    BY OrdersTyped DEF TypeOK
<1>. QED
    BY <1>1, IdleWorks DEF Known, AnswerFits, Critical

LEMMA NothingAsked ==
    ASSUME NEW t \in Tasks, task[t].at \notin {"refresh", "cancel", "track"}
    PROVE  AnswerFits(t)
BY DEF AnswerFits

LEMMA PositionFilled ==
    ASSUME NEW p \in Positions, NEW f \in Nat
    PROVE  /\ [p EXCEPT !.filled = f] \in Positions
           /\ [p EXCEPT !.filled = f].id = p.id
           /\ [p EXCEPT !.filled = f].filled = f
BY DEF Positions

LEMMA PositionOpen ==
    ASSUME NEW p \in Positions, NEW open \in BOOLEAN
    PROVE  /\ [p EXCEPT !.open = open] \in Positions
           /\ [p EXCEPT !.open = open].id = p.id
           /\ [p EXCEPT !.open = open].filled = p.filled
           /\ [p EXCEPT !.open = open].open = open
BY DEF Positions

LEMMA UpdatedTyped ==
    ASSUME NEW info \in Positions, NEW s, s.filled \in Nat, s.open \in BOOLEAN
    PROVE  /\ Updated(info, s) \in Positions
           /\ Updated(info, s).id = info.id
           /\ Updated(info, s).filled = s.filled
           /\ Updated(info, s).open = s.open
<1>. DEFINE p == [info EXCEPT !.filled = s.filled]
<1>1. Updated(info, s) = [p EXCEPT !.open = s.open]
    BY DEF Updated
<1>2. p \in Positions /\ p.id = info.id /\ p.filled = s.filled
    BY PositionFilled
<1>. HIDE DEF p
<1>. QED
    BY <1>1, <1>2, PositionOpen

LEMMA OrderWith ==
    ASSUME NEW o \in OrderRecords, NEW f \in Nat, NEW open \in BOOLEAN
    PROVE  /\ [o EXCEPT !.filled = f] \in OrderRecords
           /\ [o EXCEPT !.open = open] \in OrderRecords
           /\ [o EXCEPT !.filled = f].filled = f
           /\ [o EXCEPT !.filled = f].amount = o.amount
           /\ [o EXCEPT !.open = open].filled = o.filled
           /\ [o EXCEPT !.open = open].amount = o.amount
           /\ [o EXCEPT !.open = open].side = o.side
           /\ [o EXCEPT !.open = open].open = open
BY DEF OrderRecords

LEMMA FilledFurther ==
    ASSUME NEW o \in OrderRecords, NEW n \in Nat, o.filled + n <= o.amount
    PROVE  /\ Filled(o, n) \in OrderRecords
           /\ o.filled <= Filled(o, n).filled /\ Filled(o, n).filled <= Filled(o, n).amount
<1>. DEFINE f == o.filled + n
            open == o.filled + n < o.amount
            more == [o EXCEPT !.filled = f]
<1>1. o.filled \in Nat /\ f \in Nat /\ open \in BOOLEAN /\ o.filled <= f /\ f <= o.amount
    BY DEF OrderRecords
<1>2. Filled(o, n) = [more EXCEPT !.open = open]
    BY DEF Filled
<1>. HIDE DEF f, open
<1>3. more \in OrderRecords /\ more.filled = f /\ more.amount = o.amount
    BY <1>1, OrderWith
<1>. HIDE DEF more
<1>4. /\ [more EXCEPT !.open = open] \in OrderRecords
      /\ [more EXCEPT !.open = open].filled = f
      /\ [more EXCEPT !.open = open].amount = o.amount
    BY <1>1, <1>3, OrderWith
<1>. QED
    BY <1>1, <1>2, <1>4

LEMMA Expired ==
    ASSUME NEW o \in OrderRecords, o.filled <= o.amount
    PROVE  /\ [o EXCEPT !.open = FALSE] \in OrderRecords
           /\ [o EXCEPT !.open = FALSE].filled = o.filled
           /\ o.filled <= [o EXCEPT !.open = FALSE].filled
           /\ [o EXCEPT !.open = FALSE].filled <= [o EXCEPT !.open = FALSE].amount
<1>. DEFINE new == [o EXCEPT !.open = FALSE]
<1>1. o.filled \in Nat
    BY DEF OrderRecords
<1>2. FALSE \in BOOLEAN
    OBVIOUS
<1>3. new \in OrderRecords /\ new.filled = o.filled /\ new.amount = o.amount
    BY <1>2, OrderWith
<1>. HIDE DEF new
<1>4. new.filled <= new.amount /\ o.filled <= new.filled
    BY <1>1, <1>3
<1>. USE DEF new
<1>. QED
    BY <1>3, <1>4

\* The exchange changes an order.
LEMMA OrderChangesKeeps ==
    ASSUME PInv, OrderChanges
    PROVE  PInv'
<1>1. orders \in Seq(OrderRecords) /\ \A id \in DOMAIN orders : orders[id].filled <= orders[id].amount
    BY DEF PInv, TypeOK
<1>2. PICK id \in {i \in DOMAIN orders : orders[i].open} :
        \E changed \in {Filled(orders[id], n) : n \in Fills(orders[id])}
                        \cup {[orders[id] EXCEPT !.open = FALSE]} :
            /\ orders' = [orders EXCEPT ![id] = changed]
            /\ Report(id, changed)
    BY DEF OrderChanges
<1>3. PICK changed \in {Filled(orders[id], n) : n \in Fills(orders[id])}
                        \cup {[orders[id] EXCEPT !.open = FALSE]} :
            /\ orders' = [orders EXCEPT ![id] = changed]
            /\ Report(id, changed)
    BY <1>2
<1>4. orders[id] \in OrderRecords
    BY <1>1, OrdersTyped
<1>5. /\ changed \in OrderRecords
      /\ orders[id].filled <= changed.filled /\ changed.filled <= changed.amount
    <2>1. CASE changed = [orders[id] EXCEPT !.open = FALSE]
        BY <1>1, <1>4, <2>1, Expired
    <2>2. ASSUME NEW n \in Fills(orders[id]), changed = Filled(orders[id], n)
          PROVE  /\ changed \in OrderRecords
                 /\ orders[id].filled <= changed.filled /\ changed.filled <= changed.amount
        <3>1. n \in Nat /\ orders[id].filled + n <= orders[id].amount
            BY <1>1, <1>4 DEF Fills, OrderRecords
        <3>. QED
            BY <1>4, <2>2, <3>1, FilledFurther
    <2>. QED
        BY <1>3, <2>1, <2>2
<1>6. /\ DOMAIN orders = 1..Len(orders) /\ DOMAIN orders' = 1..Len(orders)
      /\ Len(orders') = Len(orders) /\ orders' \in Seq(OrderRecords)
      /\ orders'[id] = changed /\ \A i \in DOMAIN orders : i # id => orders'[i] = orders[i]
    BY <1>1, <1>3, <1>5
<1>7. Grows
    BY <1>1, <1>5, <1>6, OrdersTyped DEF Grows
<1>. DEFINE e == [id |-> id, filled |-> changed.filled, open |-> changed.open]
<1>8. e \in Updates /\ events' = Append(events, e)
    BY <1>3, <1>5, <1>6, OrdersTyped DEF Report, OrderRecords, Updates
<1>9. TypeOK'
    <2>1. \A i \in DOMAIN orders' : orders'[i].filled <= orders'[i].amount
        BY <1>1, <1>5, <1>6
    <2>2. UNCHANGED <<suspends, tracked, lock, task, astray>>
        BY DEF OrderChanges
    <2>3. events' \in Seq(Updates)
        BY <1>8 DEF PInv, TypeOK
    <2>. HIDE DEF e
    <2>. QED
        BY <1>6, <2>1, <2>2, <2>3 DEF PInv, TypeOK
<1>10. Handler \in Coroutines /\ Handler \notin Tasks
    BY PositionAssumption DEF Coroutines, Handler
<1>11. UNCHANGED <<tracked, lock, task>> /\ HandlerInv'
    <2>1. UNCHANGED <<tracked, lock, task>> /\ events \in Seq(Updates)
        BY DEF OrderChanges, PInv, TypeOK
    <2>2. events' # <<>>
        BY <1>8, <2>1
    <2>. QED
        BY <2>1, <2>2 DEF HandlerInv
<1>12. \E i \in DOMAIN orders', u \in Updates :
            events' = Append(events, u) /\ u.id = i /\ u.filled = orders'[i].filled
    <2>1. id \in DOMAIN orders' /\ e.id = id /\ e.filled = orders'[id].filled
        BY <1>6
    <2>. HIDE DEF e
    <2>. QED
        BY <1>8, <2>1
<1>. QED
    BY <1>7, <1>9, <1>10, <1>11, <1>12, StepKeeps

\* An update arrives, and waits for the lock.
LEMMA EventArrivesKeeps ==
    ASSUME PInv, EventArrives
    PROVE  PInv'
<1>1. Handler \in Coroutines /\ Handler \notin Tasks
    BY PositionAssumption DEF Coroutines, Handler
<1>2. /\ UNCHANGED <<suspends, orders, events, tracked, astray>>
      /\ lock' = Append(lock, Handler) /\ events # <<>> /\ Goes(Handler, "event")
    BY DEF EventArrives
<1>3. task \in [Coroutines -> Works] /\ lock \in Seq(Coroutines)
    BY DEF PInv, TypeOK
<1>4. task' \in [Coroutines -> Works] /\ \A d \in Coroutines \ {Handler} : task'[d] = task[d]
    BY <1>1, <1>2, <1>3, TaskGoes DEF Stations
<1>5. lock' \in Seq(Coroutines)
    BY <1>1, <1>2, <1>3
<1>6. TypeOK'
    BY <1>2, <1>4, <1>5 DEF PInv, TypeOK
<1>7. Grows /\ HandlerInv'
    BY <1>2, SameOrders DEF HandlerInv
<1>. QED
    BY <1>1, <1>2, <1>4, <1>6, <1>7, StepKeeps

\* An update is handled, with the lock.
LEMMA HandleEventKeeps ==
    ASSUME PInv, HandleEvent
    PROVE  PInv' /\ (tracked'.id = tracked.id => tracked'.filled >= tracked.filled)
<1>1. Handler \in Coroutines /\ Handler \notin Tasks
    BY PositionAssumption DEF Coroutines, Handler
<1>2. /\ UNCHANGED <<suspends, orders, astray>> /\ lock' = Tail(lock) /\ Ends(Handler)
      /\ events' = Tail(events) /\ Holds(Handler) /\ events # <<>>
    BY DEF HandleEvent, Runs, PInv, HandlerInv
<1>3. /\ task \in [Coroutines -> Works] /\ lock \in Seq(Coroutines) /\ tracked \in Positions
      /\ events \in Seq(Updates) /\ orders \in Seq(OrderRecords) /\ lock # <<>>
    BY <1>2 DEF PInv, TypeOK, Holds
<1>4. /\ task' \in [Coroutines -> Works] /\ task'[Handler] = Idle
      /\ \A d \in Coroutines \ {Handler} : task'[d] = task[d]
    BY <1>1, <1>2, <1>3, TaskEnds
<1>. DEFINE u == Head(events)
<1>5. /\ u \in Updates /\ u.filled \in Nat /\ u.open \in BOOLEAN
      /\ u.id \in DOMAIN orders /\ u.filled <= orders[u.id].filled
    <2>1. 1 \in DOMAIN events /\ u = events[1] /\ u \in Updates
        BY <1>2, <1>3
    <2>. QED
        BY <2>1 DEF PInv, EventsInv, Updates
<1>6. tracked' = UpdateApplied(u)
    BY DEF HandleEvent
<1>7. tracked.filled \in Nat /\ tracked.id \in Nat
    BY <1>3 DEF Positions
<1>8. \/ tracked' = tracked
      \/ /\ u.id = tracked.id /\ u.filled >= tracked.filled
         /\ tracked' = Updated(tracked, u)
    BY <1>6 DEF UpdateApplied
<1>9. /\ tracked' \in Positions /\ tracked'.filled >= tracked.filled
      /\ \/ tracked' = tracked
         \/ tracked'.id = u.id /\ tracked'.filled = u.filled
    BY <1>3, <1>5, <1>7, <1>8, UpdatedTyped
<1>. HIDE DEF u
<1>10. lock' \in Seq(Coroutines) /\ events' \in Seq(Updates)
    BY <1>2, <1>3
<1>11. TypeOK'
    BY <1>2, <1>4, <1>9, <1>10 DEF PInv, TypeOK
<1>12. Grows
    BY <1>2, SameOrders
<1>13. \/ tracked' = tracked
       \/ /\ Holds(Handler) /\ Known(tracked)'
          /\ tracked'.id > 0 => tracked'.filled <= orders'[tracked'.id].filled
    <2>1. Len(orders) \in Nat /\ DOMAIN orders = 1..Len(orders)
        BY <1>3, OrdersTyped
    <2>2. CASE tracked'.id = u.id /\ tracked'.filled = u.filled
        BY <1>2, <1>5, <2>1, <2>2 DEF Known
    <2>. QED
        BY <1>9, <2>2
<1>14. HandlerInv'
    BY <1>4, IdleWorks DEF HandlerInv
<1>15. PInv'
    BY <1>1, <1>2, <1>4, <1>11, <1>12, <1>13, <1>14, StepKeeps
<1>. QED
    BY <1>9, <1>15

-----------------------------------------------------------------------------
(***************************************************************************)
(* The steps of a signal and of a bar.                                     *)
(***************************************************************************)

\* What a step of a coroutine leaves to be shown when the orders, the reports
\* and what is tracked stay as they are.
LEMMA QuietStepKeeps ==
    ASSUME PInv, NEW t \in Tasks, UNCHANGED <<suspends, orders, events, tracked>>,
           task' \in [Coroutines -> Works], lock' \in Seq(Coroutines), astray' \in BOOLEAN,
           \A d \in Coroutines \ {t} : task'[d] = task[d],
           Holds(t) \/ \E d \in Coroutines : lock' = Append(lock, d),
           task'[t].at \in Critical => Holds(t)',
           Known(task'[t].copy),
           AnswerFits(t)'
    PROVE  PInv'
<1>1. TypeOK'
    BY DEF PInv, TypeOK
<1>2. Grows
    BY SameOrders
<1>3. t \in Coroutines /\ t # Handler
    BY PositionAssumption DEF Coroutines, Handler
<1>4. Known(task[t].copy)'
    BY DEF Known
<1>. QED
    BY <1>1, <1>2, <1>3, <1>4, StepKeeps

\* A signal or a bar arrives, or the loss is to be stopped.
LEMMA BeginsKeeps ==
    ASSUME PInv, NEW t \in Tasks, NEW work \in Works,
           work.at = "info", work.copy = NoPosition,
           UNCHANGED <<suspends, orders, events, tracked, astray>>,
           task' = [task EXCEPT ![t] = work], lock' = Append(lock, t)
    PROVE  PInv'
<1>1. /\ task \in [Coroutines -> Works] /\ lock \in Seq(Coroutines) /\ t \in Coroutines
      /\ Len(orders) \in Nat
    BY OrdersTyped DEF PInv, TypeOK, Coroutines
<1>2. /\ task' \in [Coroutines -> Works] /\ task'[t] = work
      /\ \A d \in Coroutines \ {t} : task'[d] = task[d]
    BY <1>1, OneTaskWorks
<1>3. Known(task'[t].copy)
    BY <1>1, <1>2 DEF Known, NoPosition
<1>4. AnswerFits(t)' /\ task'[t].at \notin Critical
    BY <1>2 DEF AnswerFits, Critical
<1>5. lock' \in Seq(Coroutines) /\ astray' \in BOOLEAN
    BY <1>1 DEF PInv, TypeOK
<1>. QED
    BY <1>1, <1>2, <1>3, <1>4, <1>5, QuietStepKeeps

\* What get_position_info does when it has a copy to return.
LEMMA InformedFacts ==
    ASSUME PInv, NEW t \in Tasks, NEW info \in Positions, Known(info),
           Informed(t, info), Holds(t), UNCHANGED orders
    PROVE  /\ task' \in [Coroutines -> Works] /\ lock' \in Seq(Coroutines)
           /\ \A d \in Coroutines \ {t} : task'[d] = task[d]
           /\ Known(task'[t].copy) /\ AnswerFits(t)' /\ task'[t].at \notin Critical
<1>1. /\ task \in [Coroutines -> Works] /\ lock \in Seq(Coroutines) /\ t \in Coroutines
      /\ Len(orders) \in Nat /\ lock # <<>> /\ Known(task[t].copy)
    BY OrdersTyped DEF PInv, TypeOK, Coroutines, Holds, InfoInv
<1>2. Tail(lock) \in Seq(Coroutines) /\ Append(Tail(lock), t) \in Seq(Coroutines)
    BY <1>1
<1>3. lock' \in Seq(Coroutines)
    BY <1>2 DEF Informed
<1>4. CASE Goes(t, "loss")
    <2>1. /\ task' \in [Coroutines -> Works] /\ \A d \in Coroutines \ {t} : task'[d] = task[d]
          /\ task'[t].at = "loss" /\ task'[t].copy = task[t].copy
        BY <1>1, <1>4, TaskGoes DEF Stations
    <2>. QED
        BY <1>1, <1>3, <2>1 DEF AnswerFits, Critical
<1>5. CASE Ends(t)
    <2>1. /\ task' \in [Coroutines -> Works] /\ \A d \in Coroutines \ {t} : task'[d] = task[d]
          /\ task'[t] = Idle
        BY <1>1, <1>5, TaskEnds
    <2>. QED
        BY <1>1, <1>3, <2>1, IdleWorks DEF Known, AnswerFits, Critical
<1>6. CASE task' = [task EXCEPT ![t].at = "begin", ![t].copy = info]
    <2>. DEFINE w == [task[t] EXCEPT !.at = "begin"]
                v == [w EXCEPT !.copy = info]
    <2>1. task' = [task EXCEPT ![t] = v]
        BY <1>1, <1>6
    <2>2. task[t] \in Works /\ task[t].answer \in OrderStates /\ "begin" \in Stations
        BY <1>1 DEF Works, Stations
    <2>3. w \in Works /\ w.at = "begin"
        BY <2>2, WorkAt
    <2>. HIDE DEF w
    <2>4. v \in Works /\ v.at = "begin" /\ v.copy = info
        BY <2>2, <2>3, WorkCopy
    <2>. HIDE DEF v
    <2>5. /\ task' \in [Coroutines -> Works] /\ task'[t] = v
          /\ \A d \in Coroutines \ {t} : task'[d] = task[d]
        BY <1>1, <2>1, <2>4, OneTaskWorks
    <2>. QED
        BY <1>3, <2>4, <2>5 DEF AnswerFits, Critical
<1>. QED
    BY <1>4, <1>5, <1>6 DEF Informed

\* get_position_info, with the lock: an open order is asked for.
LEMMA GetInfoKeeps ==
    ASSUME PInv, NEW t \in Tasks, GetInfo(t)
    PROVE  PInv'
<1>1. /\ task \in [Coroutines -> Works] /\ lock \in Seq(Coroutines) /\ t \in Coroutines
      /\ orders \in Seq(OrderRecords) /\ tracked \in Positions /\ Known(tracked)
    BY DEF PInv, TypeOK, Coroutines, InfoInv
<1>2. Holds(t) /\ UNCHANGED <<suspends, orders, events, tracked>> /\ astray' \in BOOLEAN
    BY DEF GetInfo, Runs, PInv, TypeOK
<1>3. CASE tracked.open
    <2>. DEFINE asked == State(tracked.id)
                w == [task[t] EXCEPT !.at = "refresh"]
                v == [w EXCEPT !.answer = asked]
    <2>1. tracked.id \in DOMAIN orders /\ tracked.id > 0 /\ tracked.filled \in Nat
        BY <1>1, <1>3, OrdersTyped DEF Known, Positions
    <2>2. asked \in OrderStates /\ asked.filled = orders[tracked.id].filled
        BY <1>1, <2>1, OrdersTyped DEF State, OrderStates, OrderRecords
    <2>3. task' = [task EXCEPT ![t] = v] /\ UNCHANGED lock
        BY <1>1, <1>3 DEF GetInfo
    <2>4. asked.filled \in Nat /\ tracked.filled <= asked.filled
        BY <2>1, <2>2 DEF PInv, InfoInv, OrderStates
    <2>. HIDE DEF asked
    <2>5. /\ task[t] \in Works /\ "refresh" \in Stations /\ task[t].copy \in Positions
          /\ task[t].answer \in OrderStates
        BY <1>1 DEF Works, Stations
    <2>6. w \in Works /\ w.at = "refresh" /\ w.copy = task[t].copy
        BY <2>5, WorkAt
    <2>. HIDE DEF w
    <2>7. v \in Works /\ v.at = "refresh" /\ v.copy = task[t].copy /\ v.answer = asked
        BY <2>2, <2>5, <2>6, WorkAnswer
    <2>. HIDE DEF v
    <2>8. /\ task' \in [Coroutines -> Works] /\ task'[t] = v
          /\ \A d \in Coroutines \ {t} : task'[d] = task[d]
        BY <1>1, <2>3, <2>7, OneTaskWorks
    <2>9. orders[tracked.id].filled \in Nat
        BY <1>1, <2>1, OrdersTyped
    <2>10. AnswerFits(t)'
        BY <1>2, <2>1, <2>2, <2>4, <2>7, <2>8, <2>9 DEF AnswerFits
    <2>11. Known(task'[t].copy)
        BY <2>7, <2>8 DEF PInv, InfoInv
    <2>12. Holds(t)'
        BY <1>2, <2>3 DEF Holds
    <2>13. lock' \in Seq(Coroutines)
        BY <1>1, <2>3
    <2>. QED
        BY <1>2, <2>8, <2>10, <2>11, <2>12, <2>13, QuietStepKeeps
<1>4. CASE ~tracked.open
    <2>1. Informed(t, tracked)
        BY <1>4 DEF GetInfo
    <2>2. /\ task' \in [Coroutines -> Works] /\ lock' \in Seq(Coroutines)
          /\ \A d \in Coroutines \ {t} : task'[d] = task[d]
          /\ Known(task'[t].copy) /\ AnswerFits(t)' /\ task'[t].at \notin Critical
        BY <1>1, <1>2, <2>1, InformedFacts
    <2>. QED
        BY <1>2, <2>2, QuietStepKeeps
<1>. QED
    BY <1>3, <1>4

\* What an order filled, when a call about it is answered.
LEMMA AnswerTyped ==
    ASSUME TypeOK, NEW t \in Tasks, NEW id \in DOMAIN orders, NEW answer \in Answers(t, id)
    PROVE  /\ answer.filled \in Nat /\ answer.open \in BOOLEAN
           /\ \/ answer = task[t].answer
              \/ answer.filled = orders[id].filled
<1>1. /\ task[t].answer \in OrderStates
      /\ orders[id].filled \in Nat /\ orders[id].open \in BOOLEAN
    BY OrdersTyped DEF TypeOK, Coroutines, Works, OrderRecords
<1>. QED
    BY <1>1 DEF Answers, State, OrderStates

\* The answer arrives, and the order tracked is updated.
LEMMA RefreshKeeps ==
    ASSUME PInv, NEW t \in Tasks, Refresh(t)
    PROVE  PInv' /\ tracked'.filled >= tracked.filled
<1>1. PICK answer \in Answers(t, tracked.id) :
        tracked' = Updated(tracked, answer) /\ Informed(t, tracked')
    BY DEF Refresh
<1>2. /\ task \in [Coroutines -> Works] /\ t \in Coroutines /\ Holds(t)
      /\ orders \in Seq(OrderRecords) /\ tracked \in Positions /\ Known(tracked)
      /\ UNCHANGED <<suspends, orders, events, astray>> /\ t # Handler
    BY PositionAssumption
    DEF Refresh, PInv, TypeOK, LockInv, Critical, Coroutines, InfoInv, Handler
<1>3. /\ tracked.id > 0 /\ tracked.filled <= task[t].answer.filled
      /\ task[t].answer.filled <= orders[tracked.id].filled
    BY DEF Refresh, PInv, AnswerInv, AnswerFits
<1>4. /\ tracked.id \in DOMAIN orders /\ tracked.filled \in Nat
      /\ orders[tracked.id].filled \in Nat /\ tracked.filled <= orders[tracked.id].filled
    BY <1>2, <1>3, OrdersTyped DEF Known, Positions, PInv, InfoInv
<1>5. /\ answer.filled \in Nat /\ answer.open \in BOOLEAN
      /\ tracked.filled <= answer.filled /\ answer.filled <= orders[tracked.id].filled
    BY <1>1, <1>3, <1>4, AnswerTyped DEF PInv
<1>6. tracked' \in Positions /\ tracked'.id = tracked.id /\ tracked'.filled = answer.filled
    BY <1>1, <1>2, <1>5, UpdatedTyped
<1>7. Known(tracked') /\ Known(tracked)'
    BY <1>2, <1>3, <1>6 DEF Known
<1>8. /\ task' \in [Coroutines -> Works] /\ lock' \in Seq(Coroutines)
      /\ \A d \in Coroutines \ {t} : task'[d] = task[d]
      /\ Known(task'[t].copy) /\ AnswerFits(t)' /\ task'[t].at \notin Critical
    BY <1>1, <1>2, <1>6, <1>7, InformedFacts
<1>9. TypeOK'
    BY <1>2, <1>6, <1>8 DEF PInv, TypeOK
<1>10. Grows /\ Known(task[t].copy)'
    BY <1>2, <1>8, SameOrders DEF Known
<1>11. tracked'.filled <= orders'[tracked'.id].filled
    BY <1>2, <1>5, <1>6
<1>12. PInv'
    BY <1>2, <1>7, <1>8, <1>9, <1>10, <1>11, StepKeeps
<1>. QED
    BY <1>4, <1>5, <1>6, <1>12

\* The prices of check_loss arrive.
LEMMA CheckPricesKeeps ==
    ASSUME PInv, NEW t \in Tasks, CheckPrices(t)
    PROVE  PInv'
<1>1. /\ task \in [Coroutines -> Works] /\ lock \in Seq(Coroutines) /\ t \in Coroutines
      /\ UNCHANGED <<suspends, orders, events, tracked, astray>>
    BY DEF CheckPrices, PInv, TypeOK, Coroutines
<1>. DEFINE work == [Idle EXCEPT !.at = "info", !.force = TRUE]
<1>2. CASE task' = [task EXCEPT ![t] = work] /\ lock' = Append(lock, t)
    <2>1. work \in Works /\ work.at = "info" /\ work.copy = NoPosition
        <3>. DEFINE w == [Idle EXCEPT !.at = "info"]
        <3>1. work = [w EXCEPT !.force = TRUE]
            OBVIOUS
        <3>2. w \in Works /\ w.at = "info" /\ w.copy = NoPosition
            BY IdleWorks, WorkAt DEF Stations
        <3>. HIDE DEF w, work
        <3>. QED
            BY <3>1, <3>2, WorkFlags
    <2>. HIDE DEF work
    <2>. QED
        BY <1>1, <1>2, <2>1, BeginsKeeps
<1>3. CASE Ends(t) /\ UNCHANGED lock
    <2>1. /\ task' \in [Coroutines -> Works] /\ task'[t] = Idle
          /\ \A d \in Coroutines \ {t} : task'[d] = task[d]
        BY <1>1, <1>3, TaskEnds
    <2>2. TypeOK'
        BY <1>1, <1>3, <2>1 DEF PInv, TypeOK
    <2>3. Known(task[t].copy)' /\ AnswerFits(t)' /\ task'[t].at \notin Critical
        <3>1. Len(orders') \in Nat
            BY <2>2, OrdersTyped DEF TypeOK
        <3>. QED
            BY <2>1, <3>1, IdleWorks DEF Known, AnswerFits, Critical
    <2>4. Grows /\ t # Handler
        BY <1>1, SameOrders, PositionAssumption DEF Handler
    <2>. QED
        BY <1>1, <1>3, <2>1, <2>2, <2>3, <2>4, StepKeeps
<1>. QED
    BY <1>2, <1>3 DEF CheckPrices

\* A signal or a bar arrives.
LEMMA StartKeeps ==
    ASSUME PInv, NEW t \in Tasks, Signal(t) \/ CheckLoss(t)
    PROVE  PInv'
<1>1. ASSUME NEW position \in {-1, 0, 1},
             Start(t, [Idle EXCEPT !.at = "info", !.position = position])
      PROVE  PInv'
    <2>. DEFINE work == [Idle EXCEPT !.at = "info", !.position = position]
    <2>1. work \in Works /\ work.at = "info" /\ work.copy = NoPosition
        <3>. DEFINE w == [Idle EXCEPT !.at = "info"]
        <3>1. work = [w EXCEPT !.position = position]
            OBVIOUS
        <3>2. w \in Works /\ w.at = "info" /\ w.copy = NoPosition
            BY IdleWorks, WorkAt DEF Stations
        <3>. HIDE DEF w, work
        <3>. QED
            BY <3>1, <3>2, WorkPosition
    <2>2. /\ task' = [task EXCEPT ![t] = work] /\ lock' = Append(lock, t)
          /\ UNCHANGED <<suspends, orders, events, tracked, astray>>
        BY <1>1 DEF Start
    <2>. HIDE DEF work
    <2>. QED
        BY <2>1, <2>2, BeginsKeeps
<1>2. CASE CheckLoss(t)
    <2>. DEFINE work == [Idle EXCEPT !.at = "info", !.check = TRUE]
    <2>1. work \in Works /\ work.at = "info" /\ work.copy = NoPosition
        <3>. DEFINE w == [Idle EXCEPT !.at = "info"]
        <3>1. work = [w EXCEPT !.check = TRUE]
            OBVIOUS
        <3>2. w \in Works /\ w.at = "info" /\ w.copy = NoPosition
            BY IdleWorks, WorkAt DEF Stations
        <3>. HIDE DEF w, work
        <3>. QED
            BY <3>1, <3>2, WorkFlags
    <2>2. /\ task' = [task EXCEPT ![t] = work] /\ lock' = Append(lock, t)
          /\ UNCHANGED <<suspends, orders, events, tracked, astray>>
        BY <1>2 DEF CheckLoss, Start
    <2>. HIDE DEF work
    <2>. QED
        BY <2>1, <2>2, BeginsKeeps
<1>3. CASE Signal(t)
    <2>1. PICK position \in IF suspends THEN {0, 1} ELSE {-1, 0, 1} :
            Start(t, [Idle EXCEPT !.at = "info", !.position = position])
        BY <1>3 DEF Signal
    <2>. QED
        BY <1>1, <2>1
<1>. QED
    BY <1>2, <1>3

\* switch_position, with the lock.
LEMMA BeginKeeps ==
    ASSUME PInv, NEW t \in Tasks, Begin(t)
    PROVE  PInv'
<1>1. /\ task \in [Coroutines -> Works] /\ lock \in Seq(Coroutines) /\ t \in Coroutines
      /\ UNCHANGED <<suspends, orders, events, tracked, lock>> /\ Holds(t)
      /\ Known(task[t].copy) /\ astray' \in BOOLEAN
    BY DEF Begin, Runs, PInv, TypeOK, Coroutines, InfoInv
<1>. DEFINE at == IF task[t].copy.open THEN "cancel" ELSE "prices"
<1>2. at \in Stations /\ Goes(t, at) /\ (at = "cancel" => task[t].copy.open)
      /\ at \notin {"refresh", "track"}
    BY DEF Begin, Stations
<1>. HIDE DEF at
<1>3. /\ task' \in [Coroutines -> Works] /\ task'[t].at = at
      /\ task'[t].copy = task[t].copy
      /\ \A d \in Coroutines \ {t} : task'[d] = task[d]
    BY <1>1, <1>2, TaskGoes
<1>4. Known(task'[t].copy) /\ AnswerFits(t)'
    BY <1>1, <1>2, <1>3 DEF Known, AnswerFits
<1>5. Holds(t)' /\ lock' \in Seq(Coroutines)
    BY <1>1 DEF Holds
<1>. QED
    BY <1>1, <1>3, <1>4, <1>5, QuietStepKeeps

\* The order of the copy is canceled, or is no longer open.
LEMMA CancelOrderKeeps ==
    ASSUME PInv, NEW t \in Tasks, CancelOrder(t)
    PROVE  PInv'
<1>. DEFINE id == task[t].copy.id
            canceled == [orders[id] EXCEPT !.open = FALSE]
            update == [id |-> id, filled |-> canceled.filled, open |-> canceled.open]
            copy == Updated(task[t].copy, canceled)
            w == [task[t] EXCEPT !.at = "prices"]
            v == [w EXCEPT !.copy = copy]
            goesOn == task' = [task EXCEPT ![t] = v] /\ UNCHANGED lock
<1>1. /\ task \in [Coroutines -> Works] /\ lock \in Seq(Coroutines) /\ t \in Coroutines
      /\ orders \in Seq(OrderRecords) /\ events \in Seq(Updates) /\ Holds(t)
      /\ UNCHANGED <<suspends, tracked, astray>> /\ t # Handler /\ lock # <<>>
      /\ \A i \in DOMAIN orders : orders[i].filled <= orders[i].amount
      /\ astray' \in BOOLEAN
    BY PositionAssumption
    DEF CancelOrder, PInv, TypeOK, LockInv, Critical, Coroutines, Handler, Holds
<1>2. /\ task[t] \in Works /\ task[t].copy \in Positions /\ id > 0 /\ id \in Nat
      /\ id \in DOMAIN orders /\ Known(task[t].copy)
    <2>1. task[t] \in Works /\ Known(task[t].copy) /\ id > 0
        BY <1>1 DEF PInv, InfoInv, AnswerInv, AnswerFits, CancelOrder
    <2>2. task[t].copy \in Positions /\ id \in Nat
        BY <2>1 DEF Works, Positions
    <2>. QED
        BY <1>1, <2>1, <2>2, OrdersTyped DEF Known
<1>3. CASE orders[id].open
    <2>1. /\ orders' = [orders EXCEPT ![id] = canceled] /\ events' = Append(events, update)
          /\ goesOn \/ (lock' = Tail(lock) /\ Ends(t))
        BY <1>1, <1>3 DEF CancelOrder, Report
    <2>2. orders[id] \in OrderRecords /\ orders[id].filled <= orders[id].amount
          /\ orders[id].filled \in Nat
        BY <1>1, <1>2, OrdersTyped
    <2>3. /\ canceled \in OrderRecords /\ canceled.filled = orders[id].filled
          /\ canceled.amount = orders[id].amount /\ canceled.open = FALSE
        BY <2>2, OrderWith, FALSE \in BOOLEAN
    <2>. HIDE DEF canceled
    <2>4. /\ copy \in Positions /\ copy.id = id /\ copy.open = FALSE
        BY <1>2, <2>2, <2>3, UpdatedTyped
    <2>5. /\ update \in Updates /\ update.id = id /\ update.filled = canceled.filled
        BY <1>2, <2>2, <2>3 DEF Updates
    <2>. HIDE DEF copy, update
    <2>6. w \in Works /\ w.at = "prices"
        BY <1>2, WorkAt DEF Stations
    <2>. HIDE DEF w
    <2>7. v \in Works /\ v.at = "prices" /\ v.copy = copy
        BY <2>4, <2>6, WorkCopy
    <2>. HIDE DEF v
    <2>8. /\ task' \in [Coroutines -> Works] /\ lock' \in Seq(Coroutines)
          /\ \A d \in Coroutines \ {t} : task'[d] = task[d]
          /\ \/ task'[t] = v /\ lock' = lock
             \/ task'[t] = Idle
        <3>1. CASE goesOn
            BY <1>1, <2>7, <3>1, OneTaskWorks
        <3>2. CASE lock' = Tail(lock) /\ Ends(t)
            <4>1. lock' \in Seq(Coroutines)
                BY <1>1, <3>2
            <4>. QED
                BY <1>1, <3>2, <4>1, TaskEnds
        <3>. QED
            BY <2>1, <3>1, <3>2
    <2>. HIDE DEF goesOn
    <2>9. /\ DOMAIN orders = 1..Len(orders) /\ DOMAIN orders' = 1..Len(orders)
          /\ Len(orders') = Len(orders) /\ Len(orders) \in Nat /\ orders' \in Seq(OrderRecords)
          /\ orders'[id] = canceled /\ \A i \in DOMAIN orders : i # id => orders'[i] = orders[i]
        BY <1>1, <1>2, <2>1, <2>3
    <2>10. Grows
        <3>1. ASSUME NEW i \in DOMAIN orders PROVE orders[i].filled <= orders'[i].filled
            <4>1. orders[i].filled \in Nat
                BY <1>1, OrdersTyped
            <4>2. orders'[i].filled = orders[i].filled
                BY <2>3, <2>9
            <4>. QED
                BY <4>1, <4>2
        <3>. QED
            BY <2>9, <3>1 DEF Grows
    <2>11. TypeOK'
        <3>1. \A i \in DOMAIN orders' : orders'[i].filled <= orders'[i].amount
            BY <1>1, <2>2, <2>3, <2>9
        <3>2. events' \in Seq(Updates)
            BY <1>1, <2>1, <2>5
        <3>. QED
            BY <1>1, <2>1, <2>8, <2>9, <3>1, <3>2 DEF PInv, TypeOK
    <2>12. Known(task[t].copy)' /\ AnswerFits(t)'
        <3>1. id \in 0..Len(orders') /\ 0 \in 0..Len(orders')
            BY <1>2, <2>9
        <3>2. /\ task'[t].copy.open = FALSE /\ task'[t].at \in {"prices", "idle"}
              /\ task'[t].copy.id = id \/ task'[t].copy.id = 0
            <4>1. Idle.copy.open = FALSE
                BY DEF Idle, NoPosition
            <4>. QED
                BY <2>4, <2>7, <2>8, <4>1, IdleWorks
        <3>. HIDE DEF id
        <3>. QED
            BY <3>1, <3>2 DEF Known, AnswerFits
    <2>13. task'[t].at \in Critical => Holds(t)'
        BY <1>1, <2>8, IdleWorks DEF Holds, Critical
    <2>14. \E i \in DOMAIN orders', u \in Updates :
                events' = Append(events, u) /\ u.id = i /\ u.filled = orders'[i].filled
        <3>1. id \in DOMAIN orders' /\ update.filled = orders'[id].filled
            BY <1>2, <2>5, <2>9
        <3>. HIDE DEF id
        <3>. QED
            BY <2>1, <2>5, <3>1
    <2>. HIDE DEF id
    <2>. QED
        BY <1>1, <2>8, <2>10, <2>11, <2>12, <2>13, <2>14, StepKeeps
<1>4. CASE ~orders[id].open
    <2>1. UNCHANGED <<orders, events>> /\ lock' = Tail(lock) /\ Ends(t)
        BY <1>4 DEF CancelOrder
    <2>. HIDE DEF id, canceled, update, copy, w, v
    <2>2. /\ task' \in [Coroutines -> Works] /\ task'[t] = Idle
          /\ \A d \in Coroutines \ {t} : task'[d] = task[d]
        BY <1>1, <2>1, TaskEnds
    <2>3. lock' \in Seq(Coroutines) /\ Len(orders) \in Nat
        BY <1>1, <2>1, OrdersTyped
    <2>4. Known(task'[t].copy) /\ AnswerFits(t)' /\ task'[t].at \notin Critical
        BY <2>2, <2>3, IdleWorks DEF Known, AnswerFits, Critical
    <2>. QED
        BY <1>1, <2>1, <2>2, <2>3, <2>4, QuietStepKeeps
<1>. QED
    BY <1>3, <1>4

LEMMA SignumTimes ==
    ASSUME NEW d \in Int, d # 0
    PROVE  Signum(d) \in {-1, 1} /\ Signum(d) * d \in Nat \ {0}
<1>1. CASE d > 0
    BY <1>1 DEF Signum
<1>2. CASE d < 0
    BY <1>2 DEF Signum
<1>. QED
    BY <1>1, <1>2

LEMMA CurrentTyped ==
    ASSUME NEW info \in Positions
    PROVE  Current(info) \in Int
<1>1. info.initial \in Int /\ info.side \in {-1, 1} /\ info.filled \in Nat
    BY DEF Positions
<1>2. CASE info.side = 1
    BY <1>1, <1>2 DEF Current
<1>3. CASE info.side = -1
    BY <1>1, <1>3 DEF Current
<1>. QED
    BY <1>1, <1>2, <1>3

\* The prices arrive, and the order for the difference is created.
LEMMA CreateOrderKeeps ==
    ASSUME PInv, NEW t \in Tasks, CreateOrder(t)
    PROVE  PInv'
<1>. DEFINE copy == task[t].copy
            id == Len(orders) + 1
            order(delta) == [side |-> Signum(delta), amount |-> Signum(delta) * delta,
                             filled |-> 0, open |-> TRUE]
            none == [filled |-> 0, open |-> TRUE]
            update == [id |-> id, filled |-> 0, open |-> TRUE]
<1>1. /\ task \in [Coroutines -> Works] /\ lock \in Seq(Coroutines) /\ t \in Coroutines
      /\ orders \in Seq(OrderRecords) /\ events \in Seq(Updates) /\ Holds(t)
      /\ UNCHANGED <<suspends, tracked, astray>> /\ t # Handler /\ lock # <<>>
      /\ \A i \in DOMAIN orders : orders[i].filled <= orders[i].amount
      /\ astray' \in BOOLEAN
    BY PositionAssumption
    DEF CreateOrder, PInv, TypeOK, LockInv, Critical, Coroutines, Handler, Holds
<1>2. /\ task[t] \in Works /\ copy \in Positions /\ Known(copy) /\ task[t].position \in Int
      /\ Len(orders) \in Nat /\ DOMAIN orders = 1..Len(orders)
      /\ tracked.id \in 0..Len(orders)
    <2>1. task[t] \in Works /\ Known(copy) /\ Known(tracked)
        BY <1>1 DEF PInv, InfoInv
    <2>. QED
        BY <1>1, <2>1, OrdersTyped DEF Works, Known
<1>3. PICK target \in Targets(task[t].position) :
        IF target - Current(copy) = 0
        THEN lock' = Tail(lock) /\ Ends(t) /\ UNCHANGED <<orders, events>>
        ELSE /\ orders' = Append(orders, order(target - Current(copy)))
             /\ Report(id, order(target - Current(copy)))
             /\ task' = [task EXCEPT
                    ![t].at = "track", ![t].answer = none, ![t].position = target]
             /\ UNCHANGED lock
    BY DEF CreateOrder
<1>4. target \in Int /\ target - Current(copy) \in Int
    <2>1. PICK amount \in Amounts : target = task[t].position * amount
        BY DEF Targets
    <2>2. amount \in Int /\ Current(copy) \in Int
        BY <1>2, PositionAssumption, CurrentTyped
    <2>. QED
        BY <1>2, <2>1, <2>2
<1>5. CASE target - Current(copy) = 0
    <2>1. UNCHANGED <<orders, events>> /\ lock' = Tail(lock) /\ Ends(t)
        BY <1>3, <1>5
    <2>2. /\ task' \in [Coroutines -> Works] /\ task'[t] = Idle
          /\ \A d \in Coroutines \ {t} : task'[d] = task[d]
        BY <1>1, <2>1, TaskEnds
    <2>3. lock' \in Seq(Coroutines)
        BY <1>1, <2>1
    <2>4. Known(task'[t].copy) /\ AnswerFits(t)' /\ task'[t].at \notin Critical
        BY <1>2, <2>2, IdleWorks DEF Known, AnswerFits, Critical
    <2>. QED
        BY <1>1, <2>1, <2>2, <2>3, <2>4, QuietStepKeeps
<1>6. CASE target - Current(copy) # 0
    <2>. DEFINE new == order(target - Current(copy))
                w == [task[t] EXCEPT !.at = "track"]
                x == [w EXCEPT !.answer = none]
                v == [x EXCEPT !.position = target]
    <2>1. /\ orders' = Append(orders, new) /\ events' = Append(events, update)
          /\ task' = [task EXCEPT ![t] = v] /\ UNCHANGED lock
        BY <1>1, <1>3, <1>6 DEF Report
    <2>2. new \in OrderRecords /\ new.filled = 0 /\ new.filled <= new.amount
        <3>1. /\ Signum(target - Current(copy)) \in {-1, 1}
              /\ Signum(target - Current(copy)) * (target - Current(copy)) \in Nat \ {0}
            BY <1>4, <1>6, SignumTimes
        <3>. QED
            BY <3>1 DEF OrderRecords
    <2>. HIDE DEF new
    <2>3. update \in Updates /\ update.id = id /\ update.filled = 0 /\ none \in OrderStates
          /\ none.filled = 0
        BY <1>2 DEF Updates, OrderStates
    <2>. HIDE DEF update, none
    <2>4. w \in Works /\ w.at = "track" /\ w.copy = copy
        BY <1>2, WorkAt DEF Stations
    <2>. HIDE DEF w
    <2>5. x \in Works /\ x.at = "track" /\ x.copy = copy /\ x.answer = none
        BY <2>3, <2>4, WorkAnswer
    <2>. HIDE DEF x
    <2>6. v \in Works /\ v.at = "track" /\ v.copy = copy /\ v.answer = none
        BY <1>4, <2>5, WorkPosition
    <2>. HIDE DEF v
    <2>7. /\ task' \in [Coroutines -> Works] /\ task'[t] = v
          /\ \A d \in Coroutines \ {t} : task'[d] = task[d]
        BY <1>1, <2>1, <2>6, OneTaskWorks
    <2>8. /\ orders' \in Seq(OrderRecords) /\ Len(orders') = id /\ DOMAIN orders' = 1..id
          /\ orders'[id] = new /\ \A i \in DOMAIN orders : orders'[i] = orders[i]
        BY <1>1, <1>2, <2>1, <2>2
    <2>9. Grows
        BY <1>1, <1>2, <2>8, OrdersTyped DEF Grows
    <2>10. TypeOK'
        <3>1. \A i \in DOMAIN orders' : orders'[i].filled <= orders'[i].amount
            BY <1>1, <1>2, <2>2, <2>8
        <3>2. events' \in Seq(Updates)
            BY <1>1, <2>1, <2>3
        <3>. QED
            BY <1>1, <2>1, <2>7, <2>8, <3>1, <3>2 DEF PInv, TypeOK
    <2>11. Known(task[t].copy)' /\ AnswerFits(t)'
        <3>1. task'[t].copy = copy /\ task'[t].at = "track" /\ task'[t].answer.filled = 0
            BY <2>3, <2>6, <2>7
        <3>2. tracked'.id < Len(orders')
            BY <1>1, <1>2, <2>8
        <3>3. copy.id \in 0..Len(orders')
            BY <1>2, <2>8 DEF Known
        <3>. QED
            BY <1>2, <3>1, <3>2, <3>3 DEF Known, AnswerFits
    <2>12. Holds(t)'
        BY <1>1, <2>1 DEF Holds
    <2>13. \E i \in DOMAIN orders', u \in Updates :
                events' = Append(events, u) /\ u.id = i /\ u.filled = orders'[i].filled
        <3>1. id \in DOMAIN orders' /\ update.filled = orders'[id].filled
            BY <1>2, <2>2, <2>3, <2>8
        <3>. HIDE DEF id
        <3>. QED
            BY <2>1, <2>3, <3>1
    <2>. HIDE DEF id, copy
    <2>. QED
        BY <1>1, <2>7, <2>9, <2>10, <2>11, <2>12, <2>13, StepKeeps
<1>. QED
    BY <1>5, <1>6

\* The new order is tracked, or the switch raises.
LEMMA TrackKeeps ==
    ASSUME PInv, NEW t \in Tasks, Track(t)
    PROVE  PInv' /\ (tracked' = tracked \/ tracked'.id # tracked.id)
<1>. DEFINE copy == task[t].copy
            id == Len(orders)
            info == [id |-> id, initial |-> Current(copy), target |-> task[t].position,
                     side |-> orders[id].side, filled |-> 0, open |-> TRUE,
                     counted |-> Counted(copy)]
<1>1. /\ task \in [Coroutines -> Works] /\ lock \in Seq(Coroutines) /\ t \in Coroutines
      /\ orders \in Seq(OrderRecords) /\ Holds(t) /\ tracked \in Positions
      /\ UNCHANGED <<suspends, orders, events>> /\ t # Handler /\ lock # <<>>
      /\ lock' = Tail(lock) /\ lock' \in Seq(Coroutines) /\ Ends(t)
    BY PositionAssumption
    DEF Track, PInv, TypeOK, LockInv, Critical, Coroutines, Handler, Holds
<1>0. astray' \in BOOLEAN
    BY DEF Track, PInv, TypeOK
<1>2. /\ task[t] \in Works /\ copy \in Positions /\ Known(copy) /\ task[t].position \in Int
      /\ tracked.id < Len(orders) /\ task[t].answer.filled = 0 /\ Known(tracked)
    BY <1>1 DEF PInv, InfoInv, AnswerInv, AnswerFits, Track, Works
<1>3. id \in Nat /\ tracked.id \in Nat /\ id > 0 /\ id \in DOMAIN orders
      /\ orders[id] \in OrderRecords /\ orders[id].filled \in Nat
    <2>1. id \in Nat /\ tracked.id \in Nat /\ DOMAIN orders = 1..id
        BY <1>1, OrdersTyped DEF Positions
    <2>2. id > 0 /\ id \in DOMAIN orders
        BY <1>2, <2>1
    <2>. QED
        BY <1>1, <2>1, <2>2, OrdersTyped
<1>4. CASE AvgPriceFails(copy)
    <2>1. UNCHANGED tracked
        BY <1>4 DEF Track
    <2>2. /\ task' \in [Coroutines -> Works] /\ task'[t] = Idle
          /\ \A d \in Coroutines \ {t} : task'[d] = task[d]
        BY <1>1, TaskEnds
    <2>3. Known(task'[t].copy) /\ AnswerFits(t)' /\ task'[t].at \notin Critical
        BY <1>3, <2>2, IdleWorks DEF Known, AnswerFits, Critical
    <2>. QED
        BY <1>0, <1>1, <2>1, <2>2, <2>3, QuietStepKeeps
<1>5. CASE ~AvgPriceFails(copy)
    <2>1. PICK answer \in Answers(t, id) : tracked' = Updated(info, answer)
        BY <1>5 DEF Track
    <2>2. info \in Positions /\ info.id = id
        <3>1. /\ Current(copy) \in Int /\ orders[id].side \in {-1, 1}
              /\ Counted(copy) \in SUBSET (Nat \ {0})
            <4>1. copy.counted \in SUBSET (Nat \ {0}) /\ copy.id \in Nat
                BY <1>2 DEF Positions
            <4>2. Counted(copy) \in SUBSET (Nat \ {0})
                BY <4>1 DEF Counted
            <4>. QED
                BY <1>2, <1>3, <4>2, CurrentTyped DEF OrderRecords
        <3>. QED
            BY <1>2, <1>3, <3>1 DEF Positions
    <2>. HIDE DEF info
    <2>3. answer.filled \in Nat /\ answer.open \in BOOLEAN /\ answer.filled <= orders[id].filled
        BY <1>2, <1>3, AnswerTyped DEF PInv
    <2>4. tracked' \in Positions /\ tracked'.id = id /\ tracked'.filled = answer.filled
        BY <2>1, <2>2, <2>3, UpdatedTyped
    <2>5. /\ task' \in [Coroutines -> Works] /\ task'[t] = Idle
          /\ \A d \in Coroutines \ {t} : task'[d] = task[d]
        BY <1>1, TaskEnds
    <2>6. TypeOK'
        BY <1>0, <1>1, <2>4, <2>5 DEF PInv, TypeOK
    <2>7. Known(tracked)' /\ (tracked'.id > 0 => tracked'.filled <= orders'[tracked'.id].filled)
        BY <1>1, <1>3, <2>3, <2>4 DEF Known
    <2>8. Known(task[t].copy)' /\ AnswerFits(t)' /\ task'[t].at \notin Critical
        BY <1>1, <1>3, <2>5, IdleWorks DEF Known, AnswerFits, Critical
    <2>9. Grows
        BY <1>1, SameOrders
    <2>10. tracked'.id # tracked.id
        BY <1>2, <1>3, <2>4
    <2>. HIDE DEF id, copy
    <2>11. PInv'
        BY <1>1, <2>5, <2>6, <2>7, <2>8, <2>9, StepKeeps
    <2>. QED
        BY <2>10, <2>11
<1>. QED
    BY <1>4, <1>5

\* A call raises, and the lock is released on the way out.
LEMMA CallRaisesKeeps ==
    ASSUME PInv, NEW t \in Tasks, CallRaises(t)
    PROVE  PInv'
<1>1. /\ task \in [Coroutines -> Works] /\ lock \in Seq(Coroutines) /\ t \in Coroutines
      /\ UNCHANGED <<suspends, orders, events, tracked>> /\ Ends(t) /\ lock' = Tail(lock)
      /\ astray \in BOOLEAN /\ astray' = (astray \/ task[t].at = "track")
      /\ orders \in Seq(OrderRecords)
    BY DEF CallRaises, PInv, TypeOK, Coroutines
<1>2. task[t].at \in Critical
    BY DEF CallRaises, Critical
<1>3. Holds(t) /\ lock # <<>> /\ astray' \in BOOLEAN
    BY <1>1, <1>2 DEF PInv, LockInv, Holds
<1>4. /\ task' \in [Coroutines -> Works] /\ task'[t] = Idle
      /\ \A d \in Coroutines \ {t} : task'[d] = task[d]
    BY <1>1, TaskEnds
<1>5. lock' \in Seq(Coroutines) /\ Len(orders) \in Nat
    BY <1>1, <1>3, OrdersTyped
<1>6. Known(task'[t].copy) /\ AnswerFits(t)' /\ task'[t].at \notin Critical
    BY <1>4, <1>5, IdleWorks DEF Known, AnswerFits, Critical
<1>. QED
    BY <1>1, <1>3, <1>4, <1>5, <1>6, QuietStepKeeps

-----------------------------------------------------------------------------
LEMMA InitPInv == Init => PInv
<1>. SUFFICES ASSUME Init PROVE PInv
    OBVIOUS
<1>1. Len(orders) = 0 /\ orders = <<>> /\ events = <<>> /\ lock = <<>> /\ tracked = NoPosition
    BY DEF Init
<1>2. \A c \in Coroutines : task[c] = Idle
    BY DEF Init
<1>3. NoPosition \in Positions /\ NoPosition.id = 0 /\ ~NoPosition.open
    BY DEF NoPosition, Positions
<1>4. TypeOK
    <2>1. orders \in Seq(OrderRecords) /\ events \in Seq(Updates) /\ lock \in Seq(Coroutines)
        BY <1>1
    <2>2. task \in [Coroutines -> Works] /\ suspends \in BOOLEAN /\ astray \in BOOLEAN
        BY IdleWorks DEF Init
    <2>. QED
        BY <1>1, <1>3, <2>1, <2>2 DEF TypeOK
<1>5. Handler \in Coroutines /\ \A t \in Tasks : task[t] = Idle
    BY <1>2 DEF Coroutines
<1>6. InfoInv /\ LockInv /\ AnswerInv
    BY <1>1, <1>3, <1>5, IdleWorks
    DEF InfoInv, LockInv, AnswerInv, AnswerFits, Known, Critical
<1>7. EventsInv /\ HandlerInv
    BY <1>1, <1>2, <1>5, IdleWorks DEF EventsInv, HandlerInv
<1>. QED
    BY <1>4, <1>6, <1>7 DEF PInv

\* Every step keeps the invariant, and what is known to be filled.
LEMMA NextPInv ==
    ASSUME PInv, [Next]_vars
    PROVE  PInv' /\ (tracked'.id = tracked.id => tracked'.filled >= tracked.filled)
<1>1. tracked.filled \in Nat /\ (tracked' = tracked => tracked'.filled >= tracked.filled)
    <2>1. tracked.filled \in Nat
        BY DEF PInv, TypeOK, Positions
    <2>. QED
        BY <2>1
<1>2. CASE OrderChanges
    BY <1>1, <1>2, OrderChangesKeeps DEF OrderChanges
<1>3. CASE EventArrives
    BY <1>1, <1>3, EventArrivesKeeps DEF EventArrives
<1>4. CASE HandleEvent
    BY <1>4, HandleEventKeeps
<1>5. ASSUME NEW t \in Tasks, Signal(t) \/ CheckLoss(t)
      PROVE  PInv' /\ tracked' = tracked
    BY <1>5, StartKeeps DEF Signal, CheckLoss, Start
<1>6. ASSUME NEW t \in Tasks, Step(t)
      PROVE  PInv' /\ (tracked'.id = tracked.id => tracked'.filled >= tracked.filled)
    <2>1. CASE GetInfo(t)
        BY <1>1, <2>1, GetInfoKeeps DEF GetInfo
    <2>2. CASE Refresh(t)
        BY <2>2, RefreshKeeps
    <2>3. CASE CheckPrices(t)
        BY <1>1, <2>3, CheckPricesKeeps DEF CheckPrices
    <2>4. CASE Begin(t)
        BY <1>1, <2>4, BeginKeeps DEF Begin
    <2>5. CASE CancelOrder(t)
        BY <1>1, <2>5, CancelOrderKeeps DEF CancelOrder
    <2>6. CASE CreateOrder(t)
        BY <1>1, <2>6, CreateOrderKeeps DEF CreateOrder
    <2>7. CASE Track(t)
        BY <1>1, <2>7, TrackKeeps
    <2>8. CASE CallRaises(t)
        BY <1>1, <2>8, CallRaisesKeeps DEF CallRaises
    <2>. QED
        BY <1>6, <2>1, <2>2, <2>3, <2>4, <2>5, <2>6, <2>7, <2>8 DEF Step
<1>7. CASE UNCHANGED vars
    <2>1. UNCHANGED <<suspends, orders, events, tracked, lock, task, astray>>
        BY <1>7 DEF vars
    <2>2. PInv'
        BY <2>1 DEF PInv, TypeOK, LockInv, InfoInv, EventsInv, AnswerInv, HandlerInv,
                    Known, AnswerFits, Holds
    <2>. QED
        BY <1>1, <2>1, <2>2
<1>. QED
    BY <1>1, <1>2, <1>3, <1>4, <1>5, <1>6, <1>7 DEF Next

LEMMA PositionInvariant == Spec => []PInv
<1>1. PInv /\ [Next]_vars => PInv'
    BY NextPInv
<1>. QED
    BY <1>1, InitPInv, PTL DEF Spec

(***************************************************************************)
(* What the manager knows to be filled of an order never goes back, for    *)
(* any number of coroutines at work: the answer to a call is not older     *)
(* than what is known, as nobody else gets the lock while the call is      *)
(* under way (get_position_info), and an update that is older is ignored   *)
(* (on_order_event).                                                       *)
(***************************************************************************)
THEOREM FillsNeverGoBack == Spec => FillsGoForward
<1>1. PInv /\ [Next]_vars => [tracked'.id = tracked.id => tracked'.filled >= tracked.filled]_vars
    BY NextPInv
<1>. QED
    BY <1>1, PositionInvariant, PTL DEF Spec, FillsGoForward

(***************************************************************************)
(* At most one coroutine has a call to the exchange under way while it     *)
(* holds the lock of the pair (_pos_mutex): the positions of the others    *)
(* wait.                                                                   *)
(***************************************************************************)
THEOREM LockExcludes ==
    Spec => [](\A t, u \in Tasks :
                task[t].at \in Critical /\ task[u].at \in Critical => t = u)
<1>1. LockInv => \A t, u \in Tasks :
                    task[t].at \in Critical /\ task[u].at \in Critical => t = u
    BY DEF LockInv, Holds
<1>2. PInv => LockInv
    BY DEF PInv
<1>. QED
    BY <1>1, <1>2, PositionInvariant, PTL

(***************************************************************************)
(* The state of the manager, of its coroutines and of the exchange.        *)
(***************************************************************************)
THEOREM PositionTypeCorrect == Spec => []TypeOK
<1>1. PInv => TypeOK
    BY DEF PInv
<1>. QED
    BY <1>1, PositionInvariant, PTL

-----------------------------------------------------------------------------
(***************************************************************************)
(* What the manager knows is what the exchange told last.                  *)
(***************************************************************************)
As(r, id) == r.filled = orders[id].filled /\ r.open = orders[id].open

Pending(id) == \E i \in DOMAIN events : events[i].id = id

\* The last report of an order tells how it is, and so does one that it is closed.
NewsInv ==
    \A i \in DOMAIN events :
        (~events[i].open \/ \A j \in DOMAIN events : j > i => events[j].id # events[i].id)
            => As(events[i], events[i].id)

\* Unless a report is still to come, an order is as it is known, and a closed one is anyway.
Fresh(r, id) == ~r.open \/ ~Pending(id) => As(r, id)

FreshTracked == tracked.id > 0 => Fresh(tracked, tracked.id)

FreshTask(t) ==
    /\ task[t].at = "refresh" => Fresh(task[t].answer, tracked.id)
    /\ task[t].at = "track" => Pending(Len(orders)) /\ task[t].answer.open

FreshInv == FreshTracked /\ \A t \in Tasks : FreshTask(t)

SInv == PInv /\ NewsInv /\ FreshInv

-----------------------------------------------------------------------------
(***************************************************************************)
(* What the steps of a coroutine do to its place and to the lock.          *)
(***************************************************************************)
OnlyMoves(c) == \A d \in Coroutines \ {c} : task'[d] = task[d]

\* A coroutine asks for the lock, goes on with it, or releases it.
Asks(t) ==
    task[t].at \in {"idle", "loss"} /\ task'[t].at = "info" /\ lock' = Append(lock, t)

Stays(t, from, to) ==
    Holds(t) /\ task[t].at = from /\ task'[t].at = to /\ lock' = lock

Leaves(t, from) ==
    Holds(t) /\ task[t].at = from /\ task'[t].at \in {"idle", "loss"} /\ lock' = Tail(lock)

\* It has read the position, and asks for the lock again to switch.
Returns(t, from, info) ==
    /\ Holds(t) /\ task[t].at = from /\ task'[t].at = "begin" /\ task'[t].copy = info
    /\ lock' = Append(Tail(lock), t)

\* An order is created or changes, which only an open one does, and this is reported.
Told ==
    /\ Len(orders') \in {Len(orders), Len(orders) + 1}
    /\ \E id \in DOMAIN orders', e \in Updates :
        /\ events' = Append(events, e)
        /\ e.id = id /\ e.filled = orders'[id].filled /\ e.open = orders'[id].open
        /\ id \in DOMAIN orders => orders[id].open /\ orders'[id].side = orders[id].side
        /\ \A i \in DOMAIN orders : i # id => orders'[i] = orders[i]

Steady == UNCHANGED <<orders, events>> \/ Told

LEMMA InformedShape ==
    ASSUME task \in [Coroutines -> Works], NEW t \in Tasks, NEW info \in Positions,
           Informed(t, info), Holds(t), task[t].at \in {"info", "refresh"}
    PROVE  /\ OnlyMoves(t)
           /\ Leaves(t, task[t].at) \/ Returns(t, task[t].at, info)
<1>1. t \in Coroutines
    BY DEF Coroutines
<1>2. CASE Goes(t, "loss") /\ lock' = Tail(lock)
    <2>1. OnlyMoves(t) /\ task'[t].at = "loss"
        BY <1>1, <1>2, TaskGoes DEF Stations, OnlyMoves
    <2>. QED
        BY <1>2, <2>1 DEF Leaves
<1>3. CASE Ends(t) /\ lock' = Tail(lock)
    <2>1. OnlyMoves(t) /\ task'[t].at = "idle"
        BY <1>1, <1>3, TaskEnds, IdleWorks DEF OnlyMoves
    <2>. QED
        BY <1>3, <2>1 DEF Leaves
<1>4. CASE /\ task' = [task EXCEPT ![t].at = "begin", ![t].copy = info]
           /\ lock' = Append(Tail(lock), t)
    <2>. DEFINE w == [task[t] EXCEPT !.at = "begin"]
                v == [w EXCEPT !.copy = info]
    <2>1. task' = [task EXCEPT ![t] = v]
        BY <1>1, <1>4
    <2>2. task[t] \in Works /\ "begin" \in Stations
        BY <1>1 DEF Stations
    <2>3. w \in Works /\ w.at = "begin"
        BY <2>2, WorkAt
    <2>. HIDE DEF w
    <2>4. v \in Works /\ v.at = "begin" /\ v.copy = info
        BY <2>3, WorkCopy
    <2>. HIDE DEF v
    <2>5. OnlyMoves(t) /\ task'[t] = v
        BY <1>1, <2>1, <2>4, OneTaskWorks DEF OnlyMoves
    <2>. QED
        BY <1>4, <2>4, <2>5 DEF Returns
<1>. QED
    BY <1>2, <1>3, <1>4 DEF Informed

LEMMA GetInfoShape ==
    ASSUME PInv, NEW t \in Tasks, GetInfo(t)
    PROVE  /\ OnlyMoves(t) /\ UNCHANGED <<suspends, orders, events, tracked, astray>>
           /\ \/ Leaves(t, "info")
              \/ Returns(t, "info", tracked) /\ ~tracked.open
              \/ /\ Stays(t, "info", "refresh") /\ tracked.open
                 /\ task'[t].answer = State(tracked.id)
<1>1. /\ task \in [Coroutines -> Works] /\ t \in Coroutines /\ tracked \in Positions
      /\ orders \in Seq(OrderRecords) /\ Known(tracked)
    BY DEF PInv, TypeOK, Coroutines, InfoInv
<1>2. Holds(t) /\ UNCHANGED <<suspends, orders, events, tracked, astray>> /\ task[t].at = "info"
    BY DEF GetInfo, Runs
<1>3. CASE tracked.open
    <2>. DEFINE asked == State(tracked.id)
                w == [task[t] EXCEPT !.at = "refresh"]
                v == [w EXCEPT !.answer = asked]
    <2>1. task' = [task EXCEPT ![t] = v] /\ UNCHANGED lock
        BY <1>1, <1>3 DEF GetInfo
    <2>2. asked \in OrderStates
        <3>1. tracked.id \in DOMAIN orders
            BY <1>1, <1>3, OrdersTyped DEF Known, Positions
        <3>. QED
            BY <1>1, <3>1, OrdersTyped DEF State, OrderStates, OrderRecords
    <2>. HIDE DEF asked
    <2>3. task[t] \in Works /\ "refresh" \in Stations
        BY <1>1 DEF Stations
    <2>4. w \in Works /\ w.at = "refresh"
        BY <2>3, WorkAt
    <2>. HIDE DEF w
    <2>5. v \in Works /\ v.at = "refresh" /\ v.answer = asked
        BY <2>2, <2>4, WorkAnswer
    <2>. HIDE DEF v
    <2>6. OnlyMoves(t) /\ task'[t] = v
        BY <1>1, <2>1, <2>5, OneTaskWorks DEF OnlyMoves
    <2>. QED
        BY <1>2, <1>3, <2>1, <2>5, <2>6 DEF Stays, asked
<1>4. CASE ~tracked.open
    <2>1. Informed(t, tracked)
        BY <1>4 DEF GetInfo
    <2>. QED
        BY <1>1, <1>2, <1>4, <2>1, InformedShape
<1>. QED
    BY <1>3, <1>4

LEMMA RefreshShape ==
    ASSUME PInv, NEW t \in Tasks, Refresh(t)
    PROVE  /\ OnlyMoves(t) /\ UNCHANGED <<suspends, orders, events, astray>>
           /\ tracked.id > 0 /\ tracked.id \in DOMAIN orders
           /\ \E answer \in Answers(t, tracked.id) : tracked' = Updated(tracked, answer)
           /\ Leaves(t, "refresh") \/ Returns(t, "refresh", tracked')
<1>1. PICK answer \in Answers(t, tracked.id) :
        tracked' = Updated(tracked, answer) /\ Informed(t, tracked')
    BY DEF Refresh
<1>2. /\ task \in [Coroutines -> Works] /\ Holds(t) /\ task[t].at = "refresh"
      /\ orders \in Seq(OrderRecords) /\ tracked \in Positions /\ Known(tracked)
      /\ UNCHANGED <<suspends, orders, events, astray>> /\ tracked.id > 0
    BY DEF Refresh, PInv, TypeOK, LockInv, Critical, InfoInv, AnswerInv, AnswerFits
<1>3. tracked.id \in DOMAIN orders
    BY <1>2, OrdersTyped DEF Known, Positions
<1>4. tracked' \in Positions
    <2>1. answer.filled \in Nat /\ answer.open \in BOOLEAN
        BY <1>1, <1>3, AnswerTyped DEF PInv
    <2>. QED
        BY <1>1, <1>2, <2>1, UpdatedTyped
<1>. QED
    BY <1>1, <1>2, <1>3, <1>4, InformedShape

LEMMA AskShape ==
    ASSUME task \in [Coroutines -> Works], NEW t \in Tasks, NEW work \in Works,
           work.at = "info", task' = [task EXCEPT ![t] = work]
    PROVE  OnlyMoves(t) /\ task'[t].at = "info"
<1>1. t \in Coroutines
    BY DEF Coroutines
<1>. QED
    BY <1>1, OneTaskWorks DEF OnlyMoves

LEMMA StartShape ==
    ASSUME PInv, NEW t \in Tasks, Signal(t) \/ CheckLoss(t)
    PROVE  OnlyMoves(t) /\ UNCHANGED <<suspends, orders, events, tracked, astray>> /\ Asks(t)
<1>. DEFINE w == [Idle EXCEPT !.at = "info"]
<1>1. w \in Works /\ w.at = "info"
    BY IdleWorks, WorkAt DEF Stations
<1>2. ASSUME NEW work \in Works, work.at = "info", Start(t, work)
      PROVE  OnlyMoves(t) /\ UNCHANGED <<suspends, orders, events, tracked, astray>> /\ Asks(t)
    <2>1. task \in [Coroutines -> Works] /\ task' = [task EXCEPT ![t] = work]
        BY <1>2 DEF Start, PInv, TypeOK
    <2>2. OnlyMoves(t) /\ task'[t].at = "info"
        BY <1>2, <2>1, AskShape
    <2>. QED
        BY <1>2, <2>2 DEF Start, Asks
<1>3. CASE Signal(t)
    <2>1. PICK position \in IF suspends THEN {0, 1} ELSE {-1, 0, 1} :
            Start(t, [Idle EXCEPT !.at = "info", !.position = position])
        BY <1>3 DEF Signal
    <2>. DEFINE work == [w EXCEPT !.position = position]
    <2>2. [Idle EXCEPT !.at = "info", !.position = position] = work /\ position \in Int
        OBVIOUS
    <2>. HIDE DEF w
    <2>3. work \in Works /\ work.at = "info"
        BY <1>1, <2>2, WorkPosition
    <2>. QED
        BY <1>2, <2>1, <2>2, <2>3
<1>4. CASE CheckLoss(t)
    <2>. DEFINE work == [w EXCEPT !.check = TRUE]
    <2>1. [Idle EXCEPT !.at = "info", !.check = TRUE] = work
        OBVIOUS
    <2>2. Start(t, work)
        BY <1>4, <2>1 DEF CheckLoss
    <2>. HIDE DEF w
    <2>3. work \in Works /\ work.at = "info"
        BY <1>1, WorkFlags
    <2>. QED
        BY <1>2, <2>2, <2>3
<1>. QED
    BY <1>3, <1>4

LEMMA CheckPricesShape ==
    ASSUME PInv, NEW t \in Tasks, CheckPrices(t)
    PROVE  /\ OnlyMoves(t) /\ UNCHANGED <<suspends, orders, events, tracked, astray>>
           /\ \/ Asks(t) /\ task[t].at = "loss"
              \/ task[t].at = "loss" /\ task'[t].at = "idle" /\ lock' = lock
<1>. DEFINE w == [Idle EXCEPT !.at = "info"]
            work == [w EXCEPT !.force = TRUE]
<1>1. w \in Works /\ w.at = "info"
    BY IdleWorks, WorkAt DEF Stations
<1>2. [Idle EXCEPT !.at = "info", !.force = TRUE] = work
    OBVIOUS
<1>3. /\ task \in [Coroutines -> Works] /\ t \in Coroutines /\ task[t].at = "loss" /\ Quiet
      /\ UNCHANGED <<suspends, orders, events, tracked, astray>>
      /\ \/ task' = [task EXCEPT ![t] = work] /\ lock' = Append(lock, t)
         \/ Ends(t) /\ lock' = lock
    BY <1>2 DEF CheckPrices, PInv, TypeOK, Coroutines
<1>. HIDE DEF w
<1>4. work \in Works /\ work.at = "info"
    BY <1>1, WorkFlags
<1>. HIDE DEF work
<1>5. CASE task' = [task EXCEPT ![t] = work] /\ lock' = Append(lock, t)
    BY <1>3, <1>4, <1>5, AskShape DEF Asks
<1>6. CASE Ends(t) /\ lock' = lock
    BY <1>3, <1>6, TaskEnds, IdleWorks DEF OnlyMoves
<1>. QED
    BY <1>3, <1>5, <1>6

LEMMA BeginShape ==
    ASSUME PInv, NEW t \in Tasks, Begin(t)
    PROVE  /\ OnlyMoves(t) /\ UNCHANGED <<suspends, orders, events, tracked, astray>>
           /\ task'[t].copy = task[t].copy
           /\ \/ Stays(t, "begin", "cancel")
              \/ Stays(t, "begin", "prices") /\ ~task[t].copy.open
<1>1. /\ task \in [Coroutines -> Works] /\ t \in Coroutines /\ Holds(t)
      /\ UNCHANGED <<suspends, orders, events, tracked, lock, astray>> /\ task[t].at = "begin"
    BY DEF Begin, Runs, PInv, TypeOK, Coroutines
<1>2. CASE task[t].copy.open
    <2>1. Goes(t, "cancel") /\ "cancel" \in Stations
        BY <1>2 DEF Begin, Stations
    <2>. QED
        BY <1>1, <2>1, TaskGoes DEF OnlyMoves, Stays
<1>3. CASE ~task[t].copy.open
    <2>1. Goes(t, "prices") /\ "prices" \in Stations
        BY <1>3 DEF Begin, Stations
    <2>. QED
        BY <1>1, <1>3, <2>1, TaskGoes DEF OnlyMoves, Stays
<1>. QED
    BY <1>2, <1>3
LEMMA UpdatedKeeps ==
    ASSUME NEW info \in Positions, NEW s, s.filled \in Nat, s.open \in BOOLEAN
    PROVE  /\ Updated(info, s).initial = info.initial /\ Updated(info, s).side = info.side
           /\ Updated(info, s).counted = info.counted
<1>. DEFINE p == [info EXCEPT !.filled = s.filled]
<1>1. Updated(info, s) = [p EXCEPT !.open = s.open]
    BY DEF Updated
<1>2. /\ p \in Positions /\ p.initial = info.initial /\ p.side = info.side
      /\ p.counted = info.counted
    BY DEF Positions
<1>. HIDE DEF p
<1>. QED
    BY <1>1, <1>2 DEF Positions

\* An order that is open changes.
LEMMA ChangeTold ==
    ASSUME PInv, PInv', NEW id \in DOMAIN orders, orders[id].open, NEW changed \in OrderRecords,
           changed.side = orders[id].side,
           orders' = [orders EXCEPT ![id] = changed], Report(id, changed)
    PROVE  Told /\ Len(orders') = Len(orders) /\ orders'[id] = changed
<1>. DEFINE e == [id |-> id, filled |-> changed.filled, open |-> changed.open]
<1>1. /\ orders \in Seq(OrderRecords) /\ DOMAIN orders = 1..Len(orders) /\ Len(orders) \in Nat
      /\ orders' \in Seq(OrderRecords)
    BY OrdersTyped DEF PInv, TypeOK
<1>2. /\ DOMAIN orders' = DOMAIN orders /\ Len(orders') = Len(orders) /\ orders'[id] = changed
      /\ \A i \in DOMAIN orders : i # id => orders'[i] = orders[i]
    BY <1>1
<1>3. e \in Updates /\ events' = Append(events, e)
    BY <1>1 DEF Updates, Report, OrderRecords
<1>4. e.id = id /\ e.filled = orders'[id].filled /\ e.open = orders'[id].open
    BY <1>2
<1>. HIDE DEF e
<1>. QED
    BY <1>2, <1>3, <1>4 DEF Told

LEMMA OrderChangesShape ==
    ASSUME PInv, OrderChanges
    PROVE  Told /\ Len(orders') = Len(orders) /\ UNCHANGED <<suspends, tracked, lock, task, astray>>
<1>1. PInv'
    BY OrderChangesKeeps
<1>2. PICK id \in {i \in DOMAIN orders : orders[i].open} :
        \E changed \in {Filled(orders[id], n) : n \in Fills(orders[id])}
                        \cup {[orders[id] EXCEPT !.open = FALSE]} :
            /\ orders' = [orders EXCEPT ![id] = changed]
            /\ Report(id, changed)
    BY DEF OrderChanges
<1>3. PICK changed \in {Filled(orders[id], n) : n \in Fills(orders[id])}
                        \cup {[orders[id] EXCEPT !.open = FALSE]} :
            /\ orders' = [orders EXCEPT ![id] = changed]
            /\ Report(id, changed)
    BY <1>2
<1>4. /\ orders[id] \in OrderRecords /\ orders[id].filled <= orders[id].amount
      /\ orders[id].filled \in Nat
    BY OrdersTyped DEF PInv, TypeOK
<1>5. changed \in OrderRecords /\ changed.side = orders[id].side
    <2>1. CASE changed = [orders[id] EXCEPT !.open = FALSE]
        BY <1>4, <2>1 DEF OrderRecords
    <2>2. ASSUME NEW n \in Fills(orders[id]), changed = Filled(orders[id], n)
          PROVE  changed \in OrderRecords /\ changed.side = orders[id].side
        <3>1. n \in Nat /\ orders[id].filled + n <= orders[id].amount
            BY <1>4 DEF Fills, OrderRecords
        <3>2. changed \in OrderRecords
            BY <1>4, <2>2, <3>1, FilledFurther
        <3>3. Filled(orders[id], n).side = orders[id].side
            BY <1>4 DEF Filled, OrderRecords
        <3>. QED
            BY <2>2, <3>2, <3>3
    <2>. QED
        BY <1>3, <2>1, <2>2
<1>6. Told /\ Len(orders') = Len(orders)
    BY <1>1, <1>3, <1>5, ChangeTold
<1>. QED
    BY <1>6 DEF OrderChanges

LEMMA CancelOrderShape ==
    ASSUME PInv, NEW t \in Tasks, CancelOrder(t)
    PROVE  /\ OnlyMoves(t) /\ UNCHANGED <<suspends, tracked, astray>>
           /\ \/ Leaves(t, "cancel") /\ Steady /\ Len(orders') = Len(orders)
              \/ LET id == task[t].copy.id
                 IN  /\ Stays(t, "cancel", "prices") /\ Told /\ Len(orders') = Len(orders)
                     /\ id \in DOMAIN orders /\ ~orders'[id].open
                     /\ task'[t].copy \in Positions /\ task'[t].copy.id = id
                     /\ task'[t].copy.initial = task[t].copy.initial
                     /\ task'[t].copy.side = task[t].copy.side
                     /\ task'[t].copy.counted = task[t].copy.counted
                     /\ task'[t].copy.filled = orders'[id].filled /\ ~task'[t].copy.open
<1>. DEFINE id == task[t].copy.id
            canceled == [orders[id] EXCEPT !.open = FALSE]
            copy == Updated(task[t].copy, canceled)
            w == [task[t] EXCEPT !.at = "prices"]
            v == [w EXCEPT !.copy = copy]
<1>1. /\ task \in [Coroutines -> Works] /\ t \in Coroutines /\ task[t].at = "cancel"
      /\ orders \in Seq(OrderRecords) /\ Holds(t) /\ UNCHANGED <<suspends, tracked, astray>>
    BY DEF CancelOrder, PInv, TypeOK, LockInv, Critical, Coroutines
<1>2. /\ task[t] \in Works /\ task[t].copy \in Positions /\ id \in DOMAIN orders
    <2>1. task[t] \in Works /\ Known(task[t].copy) /\ id > 0
        BY <1>1 DEF PInv, InfoInv, AnswerInv, AnswerFits
    <2>2. task[t].copy \in Positions /\ id \in Nat
        BY <2>1 DEF Works, Positions
    <2>. QED
        BY <1>1, <2>1, <2>2, OrdersTyped DEF Known
<1>3. CASE orders[id].open
    <2>1. /\ orders' = [orders EXCEPT ![id] = canceled] /\ Report(id, canceled)
          /\ \/ task' = [task EXCEPT ![t] = v] /\ UNCHANGED lock
             \/ lock' = Tail(lock) /\ Ends(t)
        BY <1>1, <1>3 DEF CancelOrder
    <2>2. orders[id] \in OrderRecords /\ orders[id].filled \in Nat
        BY <1>1, <1>2, OrdersTyped
    <2>3. /\ canceled \in OrderRecords /\ canceled.filled = orders[id].filled
          /\ canceled.open = FALSE /\ canceled.side = orders[id].side
        BY <2>2, OrderWith, FALSE \in BOOLEAN
    <2>. HIDE DEF canceled
    <2>4. /\ copy \in Positions /\ copy.id = id /\ copy.open = FALSE
          /\ copy.filled = canceled.filled
          /\ copy.initial = task[t].copy.initial /\ copy.side = task[t].copy.side
          /\ copy.counted = task[t].copy.counted
        BY <1>2, <2>2, <2>3, UpdatedTyped, UpdatedKeeps
    <2>. HIDE DEF copy
    <2>5. w \in Works /\ w.at = "prices"
        BY <1>2, WorkAt DEF Stations
    <2>. HIDE DEF w
    <2>6. v \in Works /\ v.at = "prices" /\ v.copy = copy
        BY <2>4, <2>5, WorkCopy
    <2>. HIDE DEF v
    <2>7. Told /\ Len(orders') = Len(orders) /\ orders'[id] = canceled
        <3>. HIDE DEF id
        <3>. QED
            BY <1>2, <1>3, <2>1, <2>3, CancelOrderKeeps, ChangeTold
    <2>8. CASE task' = [task EXCEPT ![t] = v] /\ UNCHANGED lock
        <3>1. OnlyMoves(t) /\ task'[t] = v
            BY <1>1, <2>6, <2>8, OneTaskWorks DEF OnlyMoves
        <3>2. Stays(t, "cancel", "prices")
            BY <1>1, <2>6, <2>8, <3>1 DEF Stays
        <3>. HIDE DEF id
        <3>. QED
            BY <1>1, <1>2, <2>3, <2>4, <2>6, <2>7, <3>1, <3>2 DEF id
    <2>9. CASE lock' = Tail(lock) /\ Ends(t)
        <3>1. OnlyMoves(t) /\ task'[t].at = "idle"
            BY <1>1, <2>9, TaskEnds, IdleWorks DEF OnlyMoves
        <3>. HIDE DEF id
        <3>. QED
            BY <1>1, <2>7, <2>9, <3>1 DEF Leaves, Steady
    <2>. QED
        BY <2>1, <2>8, <2>9
<1>4. CASE ~orders[id].open
    <2>1. UNCHANGED <<orders, events>> /\ lock' = Tail(lock) /\ Ends(t)
        BY <1>4 DEF CancelOrder
    <2>. HIDE DEF id, canceled, copy, w, v
    <2>2. OnlyMoves(t) /\ task'[t].at = "idle"
        BY <1>1, <2>1, TaskEnds, IdleWorks DEF OnlyMoves
    <2>. QED
        BY <1>1, <2>1, <2>2 DEF Leaves, Steady
<1>. QED
    BY <1>3, <1>4

LEMMA CreateOrderShape ==
    ASSUME PInv, NEW t \in Tasks, CreateOrder(t)
    PROVE  /\ OnlyMoves(t) /\ UNCHANGED <<suspends, tracked, astray>>
           /\ \/ Leaves(t, "prices") /\ UNCHANGED <<orders, events>>
              \/ /\ Stays(t, "prices", "track") /\ Told /\ Len(orders') = Len(orders) + 1
                 /\ \A i \in DOMAIN orders : orders'[i] = orders[i]
                 /\ \E i \in DOMAIN events' : events'[i].id = Len(orders')
                 /\ task'[t].copy = task[t].copy /\ task'[t].answer.open
<1>. DEFINE copy == task[t].copy
            id == Len(orders) + 1
            order(delta) == [side |-> Signum(delta), amount |-> Signum(delta) * delta,
                             filled |-> 0, open |-> TRUE]
            none == [filled |-> 0, open |-> TRUE]
            update == [id |-> id, filled |-> 0, open |-> TRUE]
<1>1. /\ task \in [Coroutines -> Works] /\ t \in Coroutines /\ task[t].at = "prices"
      /\ orders \in Seq(OrderRecords) /\ events \in Seq(Updates) /\ Holds(t)
      /\ UNCHANGED <<suspends, tracked, astray>>
    BY DEF CreateOrder, PInv, TypeOK, LockInv, Critical, Coroutines
<1>2. /\ task[t] \in Works /\ copy \in Positions /\ task[t].position \in Int
      /\ Len(orders) \in Nat /\ DOMAIN orders = 1..Len(orders)
    BY <1>1, OrdersTyped DEF Works
<1>3. PICK target \in Targets(task[t].position) :
        IF target - Current(copy) = 0
        THEN lock' = Tail(lock) /\ Ends(t) /\ UNCHANGED <<orders, events>>
        ELSE /\ orders' = Append(orders, order(target - Current(copy)))
             /\ Report(id, order(target - Current(copy)))
             /\ task' = [task EXCEPT
                    ![t].at = "track", ![t].answer = none, ![t].position = target]
             /\ UNCHANGED lock
    BY DEF CreateOrder
<1>4. target \in Int
    <2>1. PICK amount \in Amounts : target = task[t].position * amount
        BY DEF Targets
    <2>2. amount \in Int
        BY PositionAssumption
    <2>. QED
        BY <1>2, <2>1, <2>2
<1>5. CASE target - Current(copy) = 0
    <2>1. UNCHANGED <<orders, events>> /\ lock' = Tail(lock) /\ Ends(t)
        BY <1>3, <1>5
    <2>2. OnlyMoves(t) /\ task'[t].at = "idle"
        BY <1>1, <2>1, TaskEnds, IdleWorks DEF OnlyMoves
    <2>. QED
        BY <1>1, <2>1, <2>2 DEF Leaves
<1>6. CASE target - Current(copy) # 0
    <2>. DEFINE new == order(target - Current(copy))
                w == [task[t] EXCEPT !.at = "track"]
                x == [w EXCEPT !.answer = none]
                v == [x EXCEPT !.position = target]
    <2>1. /\ orders' = Append(orders, new) /\ events' = Append(events, update)
          /\ task' = [task EXCEPT ![t] = v] /\ UNCHANGED lock
        BY <1>1, <1>3, <1>6 DEF Report
    <2>2. new.filled = 0 /\ new.open = TRUE
        OBVIOUS
    <2>. HIDE DEF new
    <2>3. /\ update \in Updates /\ update.id = id /\ update.filled = 0 /\ update.open = TRUE
          /\ none \in OrderStates /\ none.open
        BY <1>2 DEF Updates, OrderStates
    <2>. HIDE DEF update, none
    <2>4. w \in Works /\ w.at = "track" /\ w.copy = copy
        BY <1>2, WorkAt DEF Stations
    <2>. HIDE DEF w
    <2>5. x \in Works /\ x.at = "track" /\ x.copy = copy /\ x.answer = none
        BY <2>3, <2>4, WorkAnswer
    <2>. HIDE DEF x
    <2>6. v \in Works /\ v.at = "track" /\ v.copy = copy /\ v.answer = none
        BY <1>4, <2>5, WorkPosition
    <2>. HIDE DEF v
    <2>7. OnlyMoves(t) /\ task'[t] = v
        BY <1>1, <2>1, <2>6, OneTaskWorks DEF OnlyMoves
    <2>8. /\ Len(orders') = id /\ DOMAIN orders' = 1..id
          /\ orders'[id] = new /\ \A i \in DOMAIN orders : orders'[i] = orders[i]
        BY <1>1, <1>2, <2>1
    <2>9. /\ id \in DOMAIN orders' /\ id \notin DOMAIN orders
          /\ update.filled = orders'[id].filled /\ update.open = orders'[id].open
        <3>1. id \in DOMAIN orders' /\ id \notin DOMAIN orders
            BY <1>2, <2>8
        <3>2. orders'[id] = new
            BY <2>8
        <3>. HIDE DEF id
        <3>. QED
            BY <2>2, <2>3, <3>1, <3>2
    <2>10. Told
        BY <2>1, <2>3, <2>8, <2>9 DEF Told
    <2>11. \E i \in DOMAIN events' : events'[i].id = id
        <3>1. Len(events) + 1 \in DOMAIN events' /\ events'[Len(events) + 1] = update
            BY <1>1, <2>1
        <3>. QED
            BY <2>3, <3>1
    <2>12. Stays(t, "prices", "track")
        BY <1>1, <2>1, <2>6, <2>7 DEF Stays
    <2>. QED
        BY <1>1, <2>3, <2>6, <2>7, <2>8, <2>10, <2>11, <2>12
<1>. QED
    BY <1>5, <1>6

LEMMA TrackShape ==
    ASSUME PInv, NEW t \in Tasks, Track(t)
    PROVE  /\ OnlyMoves(t) /\ UNCHANGED <<suspends, orders, events>>
           /\ Leaves(t, "track") /\ Len(orders) > 0 /\ Len(orders) \in DOMAIN orders
           /\ \/ tracked' = tracked /\ astray'
              \/ /\ tracked'.id = Len(orders)
                 /\ tracked'.initial = Current(task[t].copy)
                 /\ tracked'.side = orders[Len(orders)].side
                 /\ tracked'.counted = Counted(task[t].copy)
                 /\ astray' = (astray \/ task[t].copy.id # tracked.id)
                 /\ \E answer \in Answers(t, Len(orders)) :
                        tracked'.filled = answer.filled /\ tracked'.open = answer.open
<1>. DEFINE copy == task[t].copy
            id == Len(orders)
            info == [id |-> id, initial |-> Current(copy), target |-> task[t].position,
                     side |-> orders[id].side, filled |-> 0, open |-> TRUE,
                     counted |-> Counted(copy)]
<1>1. /\ task \in [Coroutines -> Works] /\ t \in Coroutines /\ task[t].at = "track"
      /\ orders \in Seq(OrderRecords) /\ Holds(t) /\ tracked \in Positions
      /\ UNCHANGED <<suspends, orders, events>> /\ lock' = Tail(lock) /\ Ends(t)
    BY DEF Track, PInv, TypeOK, LockInv, Critical, Coroutines
<1>2. /\ task[t] \in Works /\ copy \in Positions /\ task[t].position \in Int
      /\ tracked.id < Len(orders)
    BY <1>1 DEF PInv, AnswerInv, AnswerFits, Works
<1>3. id \in Nat /\ id > 0 /\ id \in DOMAIN orders /\ orders[id] \in OrderRecords
    <2>1. id \in Nat /\ tracked.id \in Nat /\ DOMAIN orders = 1..id
        BY <1>1, OrdersTyped DEF Positions
    <2>2. id > 0 /\ id \in DOMAIN orders
        BY <1>2, <2>1
    <2>. QED
        BY <1>1, <2>1, <2>2, OrdersTyped
<1>4. OnlyMoves(t) /\ task'[t].at = "idle"
    BY <1>1, TaskEnds, IdleWorks DEF OnlyMoves
<1>5. Leaves(t, "track")
    BY <1>1, <1>4 DEF Leaves
<1>6. CASE AvgPriceFails(copy)
    <2>1. UNCHANGED tracked /\ astray' = TRUE
        BY <1>6 DEF Track
    <2>. QED
        BY <1>1, <1>3, <1>4, <1>5, <2>1
<1>7. CASE ~AvgPriceFails(copy)
    <2>1. PICK answer \in Answers(t, id) : tracked' = Updated(info, answer)
        BY <1>7 DEF Track
    <2>2. astray' = (astray \/ copy.id # tracked.id)
        BY <1>7 DEF Track
    <2>3. info \in Positions /\ info.id = id /\ info.initial = Current(copy)
          /\ info.side = orders[id].side /\ info.counted = Counted(copy)
        <3>1. Current(copy) \in Int /\ orders[id].side \in {-1, 1}
            BY <1>2, <1>3, CurrentTyped DEF OrderRecords
        <3>2. Counted(copy) \in SUBSET (Nat \ {0})
            BY <1>2 DEF Positions, Counted
        <3>. QED
            BY <1>2, <1>3, <3>1, <3>2 DEF Positions
    <2>. HIDE DEF info
    <2>4. answer.filled \in Nat /\ answer.open \in BOOLEAN
        BY <1>3, AnswerTyped DEF PInv
    <2>5. /\ tracked'.id = id /\ tracked'.filled = answer.filled /\ tracked'.open = answer.open
          /\ tracked'.initial = Current(copy) /\ tracked'.side = orders[id].side
          /\ tracked'.counted = Counted(copy)
        BY <2>1, <2>3, <2>4, UpdatedTyped, UpdatedKeeps
    <2>. QED
        BY <1>1, <1>3, <1>4, <1>5, <2>1, <2>2, <2>5
<1>. QED
    BY <1>6, <1>7

LEMMA CallRaisesShape ==
    ASSUME PInv, NEW t \in Tasks, CallRaises(t)
    PROVE  /\ OnlyMoves(t) /\ UNCHANGED <<suspends, orders, events, tracked>>
           /\ Leaves(t, task[t].at) /\ task[t].at \in Critical
           /\ astray' = (astray \/ task[t].at = "track")
<1>1. /\ task \in [Coroutines -> Works] /\ t \in Coroutines /\ task[t].at \in Critical
      /\ Ends(t) /\ lock' = Tail(lock)
    BY DEF CallRaises, PInv, TypeOK, Coroutines, Critical
<1>2. OnlyMoves(t) /\ task'[t].at = "idle" /\ Holds(t)
    BY <1>1, TaskEnds, IdleWorks DEF OnlyMoves, PInv, LockInv
<1>. QED
    BY <1>1, <1>2 DEF CallRaises, Leaves

LEMMA EventArrivesShape ==
    ASSUME PInv, EventArrives
    PROVE  /\ OnlyMoves(Handler) /\ UNCHANGED <<suspends, orders, events, tracked, astray>>
           /\ task[Handler].at = "idle" /\ task'[Handler].at = "event"
           /\ lock' = Append(lock, Handler)
<1>1. Handler \in Coroutines /\ task \in [Coroutines -> Works] /\ Goes(Handler, "event")
    BY DEF PInv, TypeOK, Coroutines, EventArrives
<1>2. OnlyMoves(Handler) /\ task'[Handler].at = "event"
    BY <1>1, TaskGoes DEF Stations, OnlyMoves
<1>. QED
    BY <1>2 DEF EventArrives

LEMMA HandleEventShape ==
    ASSUME PInv, HandleEvent
    PROVE  /\ OnlyMoves(Handler) /\ UNCHANGED <<suspends, orders, astray>> /\ Holds(Handler)
           /\ task[Handler].at = "event" /\ task'[Handler].at = "idle" /\ lock' = Tail(lock)
           /\ 1 \in DOMAIN events /\ events' = Tail(events)
           /\ tracked' = UpdateApplied(events[1])
<1>1. Handler \in Coroutines /\ task \in [Coroutines -> Works] /\ Ends(Handler)
      /\ events \in Seq(Updates) /\ events # <<>>
    BY DEF PInv, TypeOK, Coroutines, HandleEvent, HandlerInv
<1>2. OnlyMoves(Handler) /\ task'[Handler].at = "idle"
    BY <1>1, TaskEnds, IdleWorks DEF OnlyMoves
<1>3. 1 \in DOMAIN events /\ Head(events) = events[1]
    BY <1>1
<1>. QED
    BY <1>2, <1>3 DEF HandleEvent, Runs
-----------------------------------------------------------------------------
(***************************************************************************)
(* What is known of an order, through every step.                          *)
(***************************************************************************)
LEMMA Sequences ==
    ASSUME PInv
    PROVE  /\ Len(orders) \in Nat /\ DOMAIN orders = 1..Len(orders)
           /\ Len(events) \in Nat /\ DOMAIN events = 1..Len(events)
           /\ events \in Seq(Updates) /\ orders \in Seq(OrderRecords) /\ lock \in Seq(Coroutines)
           /\ \A i \in DOMAIN events : events[i].id \in DOMAIN orders
           /\ \A i \in DOMAIN events : events[i].filled <= orders[events[i].id].filled
           /\ tracked.id \in 0..Len(orders)
           /\ tracked.id > 0 => tracked.id \in DOMAIN orders
<1>1. orders \in Seq(OrderRecords) /\ events \in Seq(Updates) /\ lock \in Seq(Coroutines)
    BY DEF PInv, TypeOK
<1>2. EventsInv /\ Known(tracked)
    BY DEF PInv, InfoInv
<1>. QED
    BY <1>1, <1>2 DEF EventsInv, Known

LEMMA OneMore ==
    ASSUME NEW e \in Updates, events \in Seq(Updates), events' = Append(events, e)
    PROVE  \E n \in Nat : /\ n = Len(events) /\ DOMAIN events = 1..n
                          /\ DOMAIN events' = 1..(n + 1) /\ events'[n + 1] = e
                          /\ \A i \in 1..n : events'[i] = events[i]
OBVIOUS

LEMMA NewsKept ==
    ASSUME PInv, PInv', NewsInv,
           \/ Steady
           \/ UNCHANGED orders /\ events # <<>> /\ events' = Tail(events)
    PROVE  NewsInv'
<1>1. CASE UNCHANGED <<orders, events>>
    BY <1>1 DEF NewsInv, As
<1>2. CASE UNCHANGED orders /\ events # <<>> /\ events' = Tail(events)
    <2>1. Len(events) \in Nat /\ DOMAIN events = 1..Len(events) /\ events \in Seq(Updates)
        BY Sequences
    <2>2. /\ DOMAIN events' = 1..(Len(events) - 1)
          /\ \A i \in 1..(Len(events) - 1) : events'[i] = events[i + 1]
        BY <1>2, <2>1
    <2>3. ASSUME NEW i \in DOMAIN events',
                 \/ ~events'[i].open
                 \/ \A j \in DOMAIN events' : j > i => events'[j].id # events'[i].id
          PROVE  As(events[i + 1], events[i + 1].id)
        <3>1. i + 1 \in DOMAIN events /\ events'[i] = events[i + 1]
            BY <2>1, <2>2
        <3>2. ASSUME \A j \in DOMAIN events' : j > i => events'[j].id # events'[i].id,
                     NEW j \in DOMAIN events, j > i + 1
              PROVE  events[j].id # events[i + 1].id
            <4>1. j - 1 \in DOMAIN events' /\ j - 1 > i /\ events'[j - 1] = events[(j - 1) + 1]
                BY <2>1, <2>2, <3>2
            <4>2. (j - 1) + 1 = j
                BY <2>1
            <4>. QED
                BY <3>1, <3>2, <4>1, <4>2
        <3>. QED
            BY <2>3, <3>1, <3>2 DEF NewsInv
    <2>. QED
        BY <1>2, <2>1, <2>2, <2>3 DEF NewsInv, As
<1>3. CASE Told
    <2>1. PICK id \in DOMAIN orders', e \in Updates :
            /\ events' = Append(events, e)
            /\ e.id = id /\ e.filled = orders'[id].filled /\ e.open = orders'[id].open
            /\ id \in DOMAIN orders => orders[id].open /\ orders'[id].side = orders[id].side
            /\ \A i \in DOMAIN orders : i # id => orders'[i] = orders[i]
        BY <1>3 DEF Told
    <2>2. /\ Len(events) \in Nat /\ DOMAIN events = 1..Len(events) /\ events \in Seq(Updates)
          /\ \A i \in DOMAIN events : events[i].id \in DOMAIN orders
        BY Sequences
    <2>3. PICK n \in Nat : /\ n = Len(events) /\ DOMAIN events = 1..n
                           /\ DOMAIN events' = 1..(n + 1) /\ events'[n + 1] = e
                           /\ \A i \in 1..n : events'[i] = events[i]
        <3>1. events' = Append(events, e) /\ e \in Updates /\ events \in Seq(Updates)
            BY <2>1, <2>2
        <3>. QED
            BY <3>1, OneMore
    <2>4. ASSUME NEW i \in DOMAIN events',
                 \/ ~events'[i].open
                 \/ \A j \in DOMAIN events' : j > i => events'[j].id # events'[i].id
          PROVE  /\ events'[i].filled = orders'[events'[i].id].filled
                 /\ events'[i].open = orders'[events'[i].id].open
        <3>1. CASE i = n + 1
            BY <2>1, <2>3, <3>1
        <3>2. CASE i # n + 1
            <4>1. i \in DOMAIN events /\ events'[i] = events[i]
                BY <2>3, <3>2
            <4>2. CASE events[i].id # id
                <5>1. ASSUME \A j \in DOMAIN events' : j > i => events'[j].id # events'[i].id,
                             NEW j \in DOMAIN events, j > i
                      PROVE  events[j].id # events[i].id
                    BY <2>3, <4>1, <5>1
                <5>2. As(events[i], events[i].id)
                    BY <2>4, <4>1, <5>1 DEF NewsInv
                <5>. QED
                    BY <2>1, <2>2, <4>1, <4>2, <5>2 DEF As
            <4>3. CASE events[i].id = id
                <5>1. ~events[i].open
                    <6>1. n + 1 \in DOMAIN events' /\ n + 1 > i /\ events'[n + 1].id = events'[i].id
                        BY <2>1, <2>3, <4>1, <4>3
                    <6>. QED
                        BY <2>4, <4>1, <6>1
                <5>2. As(events[i], id)
                    BY <4>1, <4>3, <5>1 DEF NewsInv
                <5>3. orders[id].open
                    BY <2>1, <2>2, <4>1, <4>3
                <5>. QED
                    BY <5>1, <5>2, <5>3 DEF As
            <4>. QED
                BY <4>2, <4>3
        <3>. QED
            BY <3>1, <3>2
    <2>. QED
        BY <2>4 DEF NewsInv, As
<1>. QED
    BY <1>1, <1>2, <1>3 DEF Steady

\* Reports are only added, and what is reported was not known to be closed.
LEMMA PendingKept ==
    ASSUME PInv, Steady, NEW id, Pending(id)
    PROVE  Pending(id)'
<1>1. CASE UNCHANGED <<orders, events>>
    BY <1>1 DEF Pending
<1>2. CASE Told
    <2>1. PICK e : events' = Append(events, e)
        BY <1>2 DEF Told
    <2>2. \A i \in DOMAIN events : i \in DOMAIN events' /\ events'[i] = events[i]
        BY <2>1, Sequences
    <2>. QED
        BY <2>2 DEF Pending
<1>. QED
    BY <1>1, <1>2 DEF Steady

LEMMA FreshKept ==
    ASSUME PInv, Steady, NEW id \in DOMAIN orders, NEW r, Fresh(r, id)
    PROVE  Fresh(r, id)'
<1>1. CASE UNCHANGED <<orders, events>>
    BY <1>1 DEF Fresh, As, Pending
<1>2. CASE Told
    <2>1. PICK new \in DOMAIN orders', e \in Updates :
            /\ events' = Append(events, e)
            /\ e.id = new /\ e.filled = orders'[new].filled /\ e.open = orders'[new].open
            /\ new \in DOMAIN orders => orders[new].open /\ orders'[new].side = orders[new].side
            /\ \A i \in DOMAIN orders : i # new => orders'[i] = orders[i]
        BY <1>2 DEF Told
    <2>2. CASE id # new
        <3>1. orders'[id] = orders[id] /\ (Pending(id) => Pending(id)')
            BY <2>1, <2>2, PendingKept
        <3>. QED
            BY <3>1 DEF Fresh, As
    <2>3. CASE id = new
        <3>1. Len(events) + 1 \in DOMAIN events' /\ events'[Len(events) + 1] = e
            BY <2>1, Sequences
        <3>2. Pending(id)'
            BY <2>1, <2>3, <3>1 DEF Pending
        <3>3. r.open
            BY <2>1, <2>3 DEF Fresh, As
        <3>. QED
            BY <3>2, <3>3 DEF Fresh
    <2>. QED
        BY <2>2, <2>3
<1>. QED
    BY <1>1, <1>2 DEF Steady

\* Only who holds the lock learns, creates orders, or tracks them.
LEMMA FreshStep ==
    ASSUME PInv, FreshInv, NEW c \in Coroutines, OnlyMoves(c), Steady,
           tracked' = tracked \/ (Holds(c) /\ FreshTracked'),
           Len(orders') = Len(orders) \/ Holds(c),
           c \in Tasks => FreshTask(c)'
    PROVE  FreshInv'
<1>1. FreshTracked'
    <2>1. CASE tracked' = tracked
        <3>1. PICK r : r = tracked
            OBVIOUS
        <3>2. ASSUME r.id > 0 PROVE Fresh(r, r.id)'
            <4>1. r.id \in DOMAIN orders /\ Fresh(r, r.id)
                BY <3>1, <3>2, Sequences DEF FreshInv, FreshTracked
            <4>. QED
                BY <4>1, FreshKept
        <3>. QED
            BY <2>1, <3>1, <3>2 DEF FreshTracked, Fresh, As, Pending
    <2>. QED
        BY <2>1
<1>2. ASSUME NEW t \in Tasks, t # c, task'[t].at \in {"refresh", "track"}
      PROVE  /\ task'[t] = task[t] /\ tracked' = tracked /\ Len(orders') = Len(orders)
             /\ tracked.id > 0 \/ task[t].at = "track"
    <2>1. task'[t] = task[t]
        BY <1>2 DEF OnlyMoves, Coroutines
    <2>2. Holds(t) /\ AnswerFits(t)
        BY <1>2, <2>1 DEF PInv, LockInv, Critical, AnswerInv
    <2>3. ~Holds(c)
        BY <1>2, <2>2 DEF Holds
    <2>. QED
        BY <1>2, <2>1, <2>2, <2>3 DEF AnswerFits
<1>3. ASSUME NEW t \in Tasks
      PROVE  FreshTask(t)'
    <2>1. CASE t # c /\ task'[t].at = "refresh"
        <3>1. task'[t] = task[t] /\ tracked' = tracked /\ tracked.id > 0
            BY <1>2, <2>1
        <3>2. PICK r : r = task[t].answer
            OBVIOUS
        <3>3. PICK id : id = tracked.id
            OBVIOUS
        <3>4. id \in DOMAIN orders /\ Fresh(r, id)
            BY <2>1, <3>1, <3>2, <3>3, Sequences DEF FreshInv, FreshTask
        <3>5. Fresh(r, id)'
            BY <3>4, FreshKept
        <3>. QED
            BY <2>1, <3>1, <3>2, <3>3, <3>5 DEF FreshTask, Fresh, As, Pending
    <2>2. CASE t # c /\ task'[t].at = "track"
        <3>1. task'[t] = task[t] /\ Len(orders') = Len(orders)
            BY <1>2, <2>2
        <3>2. PICK id : id = Len(orders)
            OBVIOUS
        <3>3. Pending(id) /\ task[t].answer.open
            BY <2>2, <3>1, <3>2 DEF FreshInv, FreshTask
        <3>4. Pending(id)'
            BY <3>3, PendingKept
        <3>. QED
            BY <2>2, <3>1, <3>2, <3>3, <3>4 DEF FreshTask, Pending
    <2>. QED
        BY <2>1, <2>2 DEF FreshTask
<1>. QED
    BY <1>1, <1>3 DEF FreshInv

LEMMA SKept ==
    ASSUME SInv, PInv', NEW c \in Coroutines, OnlyMoves(c), Steady,
           tracked' = tracked \/ (Holds(c) /\ FreshTracked'),
           Len(orders') = Len(orders) \/ Holds(c),
           c \in Tasks => FreshTask(c)'
    PROVE  SInv'
<1>1. PInv /\ NewsInv /\ FreshInv
    BY DEF SInv
<1>2. NewsInv'
    BY <1>1, NewsKept
<1>3. FreshInv'
    BY <1>1, FreshStep
<1>. QED
    BY <1>2, <1>3 DEF SInv

\* A step that leaves the orders, the reports and what is tracked as they are.
LEMMA PlainKeepsS ==
    ASSUME SInv, PInv', NEW t \in Tasks, OnlyMoves(t),
           UNCHANGED <<orders, events, tracked>>,
           task'[t].at \notin {"refresh", "track"}
    PROVE  SInv'
<1>1. t \in Coroutines /\ Steady /\ FreshTask(t)'
    BY DEF Coroutines, Steady, FreshTask
<1>. QED
    BY <1>1, SKept

LEMMA OrderChangesKeepsS ==
    ASSUME SInv, OrderChanges
    PROVE  SInv'
<1>1. PInv' /\ Handler \in Coroutines /\ Handler \notin Tasks
    BY OrderChangesKeeps, PositionAssumption DEF SInv, Coroutines, Handler
<1>2. Told /\ Len(orders') = Len(orders) /\ UNCHANGED <<suspends, tracked, lock, task>>
    BY OrderChangesShape DEF SInv
<1>3. OnlyMoves(Handler) /\ Steady
    BY <1>2 DEF OnlyMoves, Steady
<1>. QED
    BY <1>1, <1>2, <1>3, SKept

LEMMA EventArrivesKeepsS ==
    ASSUME SInv, EventArrives
    PROVE  SInv'
<1>1. PInv' /\ Handler \in Coroutines /\ Handler \notin Tasks
    BY EventArrivesKeeps, PositionAssumption DEF SInv, Coroutines, Handler
<1>2. OnlyMoves(Handler) /\ UNCHANGED <<suspends, orders, events, tracked>>
    BY EventArrivesShape DEF SInv
<1>3. Steady
    BY <1>2 DEF Steady
<1>. QED
    BY <1>1, <1>2, <1>3, SKept

\* The report that is handled was the last of the order tracked, or says that it is closed,
\* or another is still to come.
LEMMA HandleEventKeepsS ==
    ASSUME SInv, HandleEvent
    PROVE  SInv'
<1>1. PInv /\ NewsInv /\ FreshInv
    BY DEF SInv
<1>2. PInv' /\ Handler \in Coroutines /\ Handler \notin Tasks
    BY <1>1, HandleEventKeeps, PositionAssumption DEF Coroutines, Handler
<1>3. /\ OnlyMoves(Handler) /\ UNCHANGED <<suspends, orders>> /\ Holds(Handler)
      /\ 1 \in DOMAIN events /\ events' = Tail(events) /\ tracked' = UpdateApplied(events[1])
    BY <1>1, HandleEventShape
<1>4. NewsInv'
    <2>1. events # <<>>
        BY <1>3
    <2>. QED
        BY <1>1, <1>2, <1>3, <2>1, NewsKept
<1>5. PICK u \in Updates : /\ u = events[1] /\ u.id \in DOMAIN orders
                           /\ u.filled \in Nat /\ u.open \in BOOLEAN
    <2>1. events[1] \in Updates /\ events[1].id \in DOMAIN orders
        BY <1>1, <1>3, Sequences
    <2>. QED
        BY <2>1 DEF Updates
<1>6. tracked \in Positions /\ tracked.filled \in Nat
    BY <1>1 DEF PInv, TypeOK, Positions
<1>7. \/ tracked' = tracked /\ ~(u.id = tracked.id /\ u.filled >= tracked.filled)
      \/ /\ u.id = tracked.id /\ u.filled >= tracked.filled
         /\ tracked'.id = tracked.id /\ tracked'.filled = u.filled /\ tracked'.open = u.open
    BY <1>3, <1>5, <1>6, UpdatedTyped DEF UpdateApplied
\* Where no report of an order is to come any more, this one is its last.
<1>8. ASSUME NEW id, ~Pending(id)', Pending(id)
      PROVE  u.id = id /\ As(u, id)
    <2>1. /\ Len(events) \in Nat /\ DOMAIN events = 1..Len(events) /\ events \in Seq(Updates)
          /\ DOMAIN events' = 1..(Len(events) - 1)
          /\ \A i \in 1..(Len(events) - 1) : events'[i] = events[i + 1]
        BY <1>1, <1>3, Sequences
    <2>2. ASSUME NEW j \in DOMAIN events, j > 1
          PROVE  events[j].id # id
        <3>1. j - 1 \in DOMAIN events' /\ events'[j - 1] = events[(j - 1) + 1] /\ (j - 1) + 1 = j
            BY <2>1, <2>2
        <3>. QED
            BY <1>8, <3>1 DEF Pending
    <2>3. \A j \in DOMAIN events : j = 1 \/ j > 1
        BY <2>1
    <2>4. u.id = id
        BY <1>5, <1>8, <2>2, <2>3 DEF Pending
    <2>. QED
        BY <1>1, <1>3, <1>5, <2>2, <2>4 DEF NewsInv
<1>9. ASSUME tracked'.id > 0
      PROVE  Fresh(tracked, tracked.id)'
    <2>0. PICK id : id = tracked.id
        OBVIOUS
    <2>1. id > 0 /\ tracked'.id = id /\ Fresh(tracked, id) /\ id \in DOMAIN orders
        BY <1>1, <1>7, <1>9, <2>0, Sequences DEF FreshInv, FreshTracked
    <2>2. CASE /\ u.id = tracked.id /\ u.filled >= tracked.filled
               /\ tracked'.id = tracked.id /\ tracked'.filled = u.filled /\ tracked'.open = u.open
        <3>1. Pending(id)
            BY <1>3, <1>5, <2>0, <2>2 DEF Pending
        <3>2. ~u.open => As(u, id)
            BY <1>1, <1>3, <1>5, <2>0, <2>2 DEF NewsInv
        <3>3. ~Pending(id)' => As(u, id)
            BY <1>8, <3>1
        <3>. QED
            BY <1>3, <2>0, <2>2, <3>2, <3>3 DEF Fresh, As, Pending
    <2>3. CASE tracked' = tracked /\ ~(u.id = tracked.id /\ u.filled >= tracked.filled)
        <3>1. ~tracked.open => As(tracked, id)
            BY <2>0, <2>1 DEF Fresh
        <3>2. ASSUME ~Pending(id)', tracked.open
              PROVE  ~Pending(id)
            <4>1. SUFFICES ASSUME Pending(id) PROVE FALSE
                OBVIOUS
            <4>2. u.id = id /\ As(u, id)
                BY <1>8, <3>2, <4>1
            <4>3. tracked.filled <= orders[id].filled
                BY <1>1, <2>0, <2>1 DEF PInv, InfoInv
            <4>4. u.filled >= tracked.filled
                BY <1>5, <1>6, <4>2, <4>3 DEF As
            <4>. QED
                BY <2>0, <2>3, <4>2, <4>4
        <3>3. ~Pending(id)' => As(tracked, id)
            BY <2>0, <2>1, <3>1, <3>2 DEF Fresh
        <3>. QED
            BY <1>3, <2>0, <2>3, <3>1, <3>3 DEF Fresh, As, Pending
    <2>. QED
        BY <1>7, <2>2, <2>3
<1>10. FreshInv'
    <2>1. ASSUME NEW t \in Tasks
          PROVE  task'[t].at \notin {"refresh", "track"}
        <3>1. task'[t] = task[t] /\ ~Holds(t)
            BY <1>2, <1>3 DEF OnlyMoves, Coroutines, Holds
        <3>. QED
            BY <1>1, <3>1 DEF PInv, LockInv, Critical
    <2>. QED
        BY <1>9, <2>1 DEF FreshInv, FreshTracked, FreshTask
<1>. QED
    BY <1>2, <1>4, <1>10 DEF SInv

LEMMA GetInfoKeepsS ==
    ASSUME SInv, NEW t \in Tasks, GetInfo(t)
    PROVE  SInv'
<1>1. PInv' /\ t \in Coroutines /\ PInv
    BY GetInfoKeeps DEF SInv, Coroutines
<1>2. /\ OnlyMoves(t) /\ UNCHANGED <<suspends, orders, events, tracked>> /\ Steady
      /\ \/ Leaves(t, "info")
         \/ Returns(t, "info", tracked) /\ ~tracked.open
         \/ /\ Stays(t, "info", "refresh") /\ tracked.open
            /\ task'[t].answer = State(tracked.id)
    BY <1>1, GetInfoShape DEF Steady
<1>3. /\ task'[t].at # "track"
      /\ task'[t].at = "refresh" => task'[t].answer = State(tracked.id)
    BY <1>2 DEF Leaves, Returns, Stays
<1>4. FreshTask(t)'
    BY <1>2, <1>3 DEF FreshTask, Fresh, As, State
<1>. QED
    BY <1>1, <1>2, <1>3, <1>4, SKept

LEMMA RefreshKeepsS ==
    ASSUME SInv, NEW t \in Tasks, Refresh(t)
    PROVE  SInv'
<1>1. PInv' /\ t \in Coroutines /\ PInv /\ tracked \in Positions
    BY RefreshKeeps DEF SInv, Coroutines, PInv, TypeOK
<1>2. /\ OnlyMoves(t) /\ UNCHANGED <<suspends, orders, events>> /\ Steady
      /\ tracked.id > 0 /\ tracked.id \in DOMAIN orders
      /\ Leaves(t, "refresh") \/ Returns(t, "refresh", tracked')
    BY <1>1, RefreshShape DEF Steady
<1>3. PICK answer \in Answers(t, tracked.id) : tracked' = Updated(tracked, answer)
    BY <1>1, RefreshShape
<1>4. answer.filled \in Nat /\ answer.open \in BOOLEAN
    BY <1>1, <1>2, <1>3, AnswerTyped DEF PInv
<1>5. tracked'.id = tracked.id /\ tracked'.filled = answer.filled /\ tracked'.open = answer.open
    BY <1>1, <1>3, <1>4, UpdatedTyped
<1>6. /\ Holds(t) /\ task[t].at = "refresh" /\ task'[t].at \notin {"refresh", "track"}
    BY <1>2 DEF Leaves, Returns
<1>7. Fresh(answer, tracked.id)
    BY <1>3, <1>6 DEF SInv, FreshInv, FreshTask, Answers, State, Fresh, As
<1>8. FreshTracked' /\ FreshTask(t)'
    BY <1>2, <1>5, <1>6, <1>7 DEF FreshTracked, FreshTask, Fresh, As, Pending
<1>. QED
    BY <1>1, <1>2, <1>5, <1>6, <1>8, SKept

LEMMA CancelOrderKeepsS ==
    ASSUME SInv, NEW t \in Tasks, CancelOrder(t)
    PROVE  SInv'
<1>1. PInv' /\ t \in Coroutines /\ PInv
    BY CancelOrderKeeps DEF SInv, Coroutines
<1>2. OnlyMoves(t) /\ UNCHANGED <<suspends, tracked>>
    BY <1>1, CancelOrderShape
<1>3. CASE Leaves(t, "cancel") /\ Steady /\ Len(orders') = Len(orders)
    <2>1. FreshTask(t)'
        BY <1>3 DEF Leaves, FreshTask
    <2>. QED
        BY <1>1, <1>2, <1>3, <2>1, SKept
<1>4. CASE Stays(t, "cancel", "prices") /\ Told /\ Len(orders') = Len(orders)
    <2>1. Steady /\ FreshTask(t)'
        BY <1>4 DEF Stays, Steady, FreshTask
    <2>. QED
        BY <1>1, <1>2, <1>4, <2>1, SKept
<1>. QED
    BY <1>1, <1>3, <1>4, CancelOrderShape

\* The new order is reported, and not yet tracked.
LEMMA CreateOrderKeepsS ==
    ASSUME SInv, NEW t \in Tasks, CreateOrder(t)
    PROVE  SInv'
<1>1. PInv' /\ t \in Coroutines /\ PInv
    BY CreateOrderKeeps DEF SInv, Coroutines
<1>2. OnlyMoves(t) /\ UNCHANGED <<suspends, tracked>>
    BY <1>1, CreateOrderShape
<1>3. CASE Leaves(t, "prices") /\ UNCHANGED <<orders, events>>
    <2>1. task'[t].at \notin {"refresh", "track"}
        BY <1>3 DEF Leaves
    <2>. QED
        BY <1>1, <1>2, <1>3, <2>1, PlainKeepsS
<1>4. CASE /\ Stays(t, "prices", "track") /\ Told
           /\ \E i \in DOMAIN events' : events'[i].id = Len(orders')
           /\ task'[t].answer.open
    <2>1. Holds(t) /\ Steady /\ FreshTask(t)'
        BY <1>4 DEF Stays, Steady, FreshTask, Pending
    <2>. QED
        BY <1>1, <1>2, <2>1, SKept
<1>. QED
    BY <1>1, <1>3, <1>4, CreateOrderShape

LEMMA TrackKeepsS ==
    ASSUME SInv, NEW t \in Tasks, Track(t)
    PROVE  SInv'
<1>1. PInv' /\ t \in Coroutines /\ PInv
    BY TrackKeeps DEF SInv, Coroutines
<1>2. /\ OnlyMoves(t) /\ UNCHANGED <<suspends, orders, events>>
      /\ Leaves(t, "track") /\ Len(orders) > 0 /\ Len(orders) \in DOMAIN orders /\ Steady
    BY <1>1, TrackShape DEF Steady
<1>3. Holds(t) /\ task[t].at = "track" /\ task'[t].at \notin {"refresh", "track"}
    BY <1>2 DEF Leaves
<1>4. CASE tracked' = tracked
    BY <1>1, <1>2, <1>3, <1>4, PlainKeepsS
<1>5. ASSUME tracked'.id = Len(orders), NEW answer \in Answers(t, Len(orders)),
             tracked'.filled = answer.filled, tracked'.open = answer.open
      PROVE  SInv'
    <2>1. Fresh(answer, Len(orders))
        BY <1>3, <1>5 DEF SInv, FreshInv, FreshTask, Answers, State, Fresh, As
    <2>2. FreshTracked' /\ FreshTask(t)'
        BY <1>2, <1>3, <1>5, <2>1 DEF FreshTracked, FreshTask, Fresh, As, Pending
    <2>. QED
        BY <1>1, <1>2, <1>3, <2>2, SKept
<1>. QED
    BY <1>1, <1>4, <1>5, TrackShape

LEMMA CallRaisesKeepsS ==
    ASSUME SInv, NEW t \in Tasks, CallRaises(t)
    PROVE  SInv'
<1>1. PInv' /\ PInv
    BY CallRaisesKeeps DEF SInv
<1>2. OnlyMoves(t) /\ UNCHANGED <<orders, events, tracked>> /\ Leaves(t, task[t].at)
    BY <1>1, CallRaisesShape
<1>3. task'[t].at \notin {"refresh", "track"}
    BY <1>2 DEF Leaves
<1>. QED
    BY <1>1, <1>2, <1>3, PlainKeepsS

LEMMA InitSInv == Init => SInv
<1>. SUFFICES ASSUME Init PROVE SInv
    OBVIOUS
<1>1. PInv /\ orders = <<>> /\ events = <<>> /\ tracked = NoPosition
    BY InitPInv DEF Init
<1>2. \A t \in Tasks : task[t].at = "idle"
    BY IdleWorks DEF Init, Coroutines
<1>3. tracked.id = 0
    BY <1>1 DEF NoPosition
<1>. QED
    BY <1>1, <1>2, <1>3 DEF SInv, NewsInv, FreshInv, FreshTracked, FreshTask

LEMMA NextSInv == SInv /\ [Next]_vars => SInv'
<1>. SUFFICES ASSUME SInv, [Next]_vars PROVE SInv'
    OBVIOUS
<1>1. PInv' /\ PInv
    BY NextPInv DEF SInv
<1>2. CASE OrderChanges
    BY <1>2, OrderChangesKeepsS
<1>3. CASE EventArrives
    BY <1>3, EventArrivesKeepsS
<1>4. CASE HandleEvent
    BY <1>4, HandleEventKeepsS
<1>5. ASSUME NEW t \in Tasks, Signal(t) \/ CheckLoss(t)
      PROVE  SInv'
    <2>1. OnlyMoves(t) /\ UNCHANGED <<suspends, orders, events, tracked>> /\ Asks(t)
        BY <1>1, <1>5, StartShape
    <2>. QED
        BY <1>1, <2>1, PlainKeepsS DEF Asks
<1>6. ASSUME NEW t \in Tasks, Step(t)
      PROVE  SInv'
    <2>1. CASE GetInfo(t)
        BY <2>1, GetInfoKeepsS
    <2>2. CASE Refresh(t)
        BY <2>2, RefreshKeepsS
    <2>3. CASE CheckPrices(t)
        <3>1. /\ OnlyMoves(t) /\ UNCHANGED <<suspends, orders, events, tracked>>
              /\ task[t].at = "loss" /\ task'[t].at \in {"info", "idle"}
            BY <1>1, <2>3, CheckPricesShape DEF Asks
        <3>. QED
            BY <1>1, <3>1, PlainKeepsS
    <2>4. CASE Begin(t)
        <3>1. /\ OnlyMoves(t) /\ UNCHANGED <<suspends, orders, events, tracked>>
              /\ task[t].at = "begin" /\ task'[t].at \in {"cancel", "prices"}
            BY <1>1, <2>4, BeginShape DEF Stays
        <3>. QED
            BY <1>1, <3>1, PlainKeepsS
    <2>5. CASE CancelOrder(t)
        BY <2>5, CancelOrderKeepsS
    <2>6. CASE CreateOrder(t)
        BY <2>6, CreateOrderKeepsS
    <2>7. CASE Track(t)
        BY <2>7, TrackKeepsS
    <2>8. CASE CallRaises(t)
        BY <2>8, CallRaisesKeepsS
    <2>. QED
        BY <1>6, <2>1, <2>2, <2>3, <2>4, <2>5, <2>6, <2>7, <2>8 DEF Step
<1>7. CASE UNCHANGED vars
    <2>1. UNCHANGED <<suspends, orders, events, tracked, lock, task>>
        BY <1>7 DEF vars
    <2>. QED
        BY <1>1, <2>1
        DEF SInv, NewsInv, FreshInv, FreshTracked, FreshTask, Fresh, As, Pending
<1>. QED
    BY <1>2, <1>3, <1>4, <1>5, <1>6, <1>7 DEF Next

LEMMA SettledInvariant == Spec => []SInv
BY InitSInv, NextSInv, PTL DEF Spec

(***************************************************************************)
(* When every update was handled and no coroutine is at work, the order    *)
(* tracked is as the exchange has it, for any number of coroutines: while  *)
(* a call about the order is under way its updates wait for the lock, and  *)
(* an update that is ignored is older than what is known (on_order_event,  *)
(* get_position_info).                                                     *)
(***************************************************************************)
THEOREM AlwaysSettled == Spec => []Settled
<1>1. SInv => Settled
    <2>. SUFFICES ASSUME SInv, events = <<>>, tracked.id # 0
                  PROVE  [filled |-> tracked.filled, open |-> tracked.open] = State(tracked.id)
        BY DEF Settled
    <2>1. PInv /\ FreshInv
        BY DEF SInv
    <2>2. tracked.id > 0
        BY <2>1 DEF PInv, TypeOK, Positions
    <2>3. ~Pending(tracked.id)
        BY DEF Pending
    <2>4. As(tracked, tracked.id)
        BY <2>1, <2>2, <2>3 DEF FreshInv, FreshTracked, Fresh
    <2>. QED
        BY <2>4 DEF As, State
<1>. QED
    BY <1>1, SettledInvariant, PTL
-----------------------------------------------------------------------------
(***************************************************************************)
(* What is known of the position, as it is tracked and as the copies have  *)
(* it: the orders it accounts for are closed and came before the last one, *)
(* and it starts from what they filled.  Unless an order went astray they  *)
(* are all that came before.                                               *)
(***************************************************************************)
Sound(info) ==
    /\ info.counted \subseteq 1..(info.id - 1)
    /\ \A id \in info.counted : ~orders[id].open
    /\ info.initial = SumFunctionOnSet(Signed, info.counted)
    /\ info.id = 0 => info.filled = 0
    /\ info.id > 0 => info.side = orders[info.id].side
    /\ info.id > 0 /\ ~info.open => As(info, info.id)
    /\ ~astray => info.counted = 1..(info.id - 1)

\* What a switch works with.  An order is created once the one before is closed.
CopySound(t) ==
    /\ task[t].at \in {"begin", "cancel", "prices", "track"} => Sound(task[t].copy)
    /\ task[t].at \in {"prices", "track"} => ~task[t].copy.open
    /\ task[t].at = "track" => task[t].copy.id < Len(orders)

\* The last order is tracked, or about to be.
LastInv ==
    ~astray => tracked.id = IF \E t \in Tasks : task[t].at = "track"
                            THEN Len(orders) - 1 ELSE Len(orders)

KInv == SInv /\ Sound(tracked) /\ (\A t \in Tasks : CopySound(t)) /\ LastInv

-----------------------------------------------------------------------------
(***************************************************************************)
(* What the position starts from.                                          *)
(***************************************************************************)

\* An order that is closed stays as it is, and none changes its side.
ClosedStay ==
    /\ Len(orders) <= Len(orders')
    /\ \A id \in DOMAIN orders : /\ orders'[id].side = orders[id].side
                                 /\ ~orders[id].open => orders'[id] = orders[id]

LEMMA SteadyCloses ==
    ASSUME PInv, PInv', Steady \/ UNCHANGED orders
    PROVE  ClosedStay
<1>1. Len(orders) \in Nat /\ Len(orders') \in Nat
    BY Sequences
<1>2. CASE UNCHANGED orders
    BY <1>1, <1>2 DEF ClosedStay
<1>3. CASE Told
    <2>1. Len(orders) <= Len(orders')
        BY <1>1, <1>3 DEF Told
    <2>. QED
        BY <1>3, <2>1 DEF Told, ClosedStay
<1>. QED
    BY <1>2, <1>3 DEF Steady

LEMMA SignedTyped ==
    ASSUME PInv
    PROVE  \A id \in DOMAIN orders :
            Signed[id] = orders[id].side * orders[id].filled /\ Signed[id] \in Int
<1>. SUFFICES ASSUME NEW id \in DOMAIN orders
              PROVE  Signed[id] = orders[id].side * orders[id].filled /\ Signed[id] \in Int
    OBVIOUS
<1>1. orders[id] \in OrderRecords
    BY Sequences, OrdersTyped
<1>2. orders[id].side \in {-1, 1} /\ orders[id].filled \in Nat
    BY <1>1 DEF OrderRecords
<1>3. PICK a \in {-1, 1}, b \in Nat : a = orders[id].side /\ b = orders[id].filled
    BY <1>2
<1>4. a * b \in Int
    BY <1>3
<1>. QED
    BY <1>3, <1>4 DEF Signed

\* The orders before one of the exchange's.
LEMMA Before ==
    ASSUME PInv, NEW n \in 0..Len(orders), NEW S, S \subseteq 1..(n - 1)
    PROVE  IsFiniteSet(S) /\ S \subseteq DOMAIN orders /\ n \notin S
           /\ \A id \in S : id < n
<1>1. Len(orders) \in Nat /\ DOMAIN orders = 1..Len(orders) /\ n \in Nat /\ n <= Len(orders)
    BY Sequences
<1>2. IsFiniteSet(1..(n - 1))
    BY <1>1, FS_Interval
<1>3. IsFiniteSet(S)
    BY <1>2, FS_Subset
<1>. QED
    BY <1>1, <1>3

\* What closed orders filled stays.
LEMMA SumKept ==
    ASSUME PInv, PInv', ClosedStay, NEW S, IsFiniteSet(S), S \subseteq DOMAIN orders,
           \A id \in S : ~orders[id].open
    PROVE  /\ SumFunctionOnSet(Signed, S)' = SumFunctionOnSet(Signed, S)
           /\ \A id \in S : ~orders'[id].open
<1>1. S \subseteq DOMAIN orders'
    <2>1. /\ Len(orders) \in Nat /\ Len(orders') \in Nat /\ Len(orders) <= Len(orders')
          /\ DOMAIN orders = 1..Len(orders) /\ DOMAIN orders' = 1..Len(orders')
        BY Sequences, OrdersTyped DEF PInv, TypeOK, ClosedStay
    <2>2. DOMAIN orders \subseteq DOMAIN orders'
        BY <2>1
    <2>. QED
        BY <2>2
<1>2. \A id \in S : orders'[id] = orders[id]
    BY DEF ClosedStay
<1>3. PICK f, g : f = Signed /\ g = Signed'
    OBVIOUS
<1>4. \A id \in S : f[id] \in Int
    BY <1>3, SignedTyped
<1>5. \A id \in S : g[id] = f[id]
    BY <1>1, <1>2, <1>3 DEF Signed
<1>6. SumFunctionOnSet(g, S) = SumFunctionOnSet(f, S)
    BY <1>4, <1>5, SumOverSame
<1>. QED
    BY <1>2, <1>3, <1>6

\* What is known of closed orders stays so, whatever becomes of the others.
LEMMA SoundKept ==
    ASSUME PInv, PInv', ClosedStay, astray => astray',
           NEW info, info.id \in 0..Len(orders), Sound(info)
    PROVE  Sound(info)'
<1>1. /\ IsFiniteSet(info.counted) /\ info.counted \subseteq DOMAIN orders
      /\ info.id > 0 => info.id \in DOMAIN orders
    BY Before, Sequences DEF Sound
<1>2. /\ SumFunctionOnSet(Signed, info.counted)' = SumFunctionOnSet(Signed, info.counted)
      /\ \A id \in info.counted : ~orders'[id].open
    BY <1>1, SumKept DEF Sound
<1>3. info.initial = SumFunctionOnSet(Signed, info.counted)'
    BY <1>2 DEF Sound
<1>4. info.id > 0 => info.side = orders'[info.id].side
    BY <1>1 DEF Sound, ClosedStay
<1>5. info.id > 0 /\ ~info.open => As(info, info.id)'
    <2>. SUFFICES ASSUME info.id > 0, ~info.open PROVE As(info, info.id)'
        OBVIOUS
    <2>1. As(info, info.id)
        BY DEF Sound
    <2>2. orders'[info.id] = orders[info.id]
        BY <1>1, <2>1 DEF As, ClosedStay
    <2>. QED
        BY <2>1, <2>2 DEF As
<1>. QED
    BY <1>2, <1>3, <1>4, <1>5 DEF Sound

\* What a position amounts to once its order is closed.
LEMMA ClosedAmounts ==
    ASSUME PInv, NEW info \in Positions, info.id \in 0..Len(orders), Sound(info), ~info.open
    PROVE  /\ Counted(info) \subseteq 1..info.id
           /\ \A id \in Counted(info) : ~orders[id].open
           /\ Current(info) = SumFunctionOnSet(Signed, Counted(info))
           /\ ~astray => Counted(info) = 1..info.id
<1>1. PICK n \in Nat : n = info.id /\ n <= Len(orders) /\ n \in 0..Len(orders)
    BY Sequences
<1>2. PICK S \in SUBSET Nat : S = info.counted /\ S \subseteq 1..(n - 1)
    BY <1>1 DEF Positions, Sound
<1>3. info.initial = SumFunctionOnSet(Signed, S) /\ \A id \in S : ~orders[id].open
    BY <1>2 DEF Sound
<1>4. CASE n = 0
    <2>1. S = {} /\ Counted(info) = {} /\ 1..n = {}
        BY <1>1, <1>2, <1>4 DEF Counted
    <2>2. SumFunctionOnSet(Signed, S) = 0
        BY <2>1, SumOverNone
    <2>3. info.initial = 0 /\ info.filled = 0 /\ info.side \in {-1, 1}
        BY <1>1, <1>3, <1>4, <2>2 DEF Sound, Positions
    <2>4. Current(info) = 0
        BY <2>3 DEF Current
    <2>. QED
        BY <1>1, <2>1, <2>2, <2>4
<1>5. CASE n > 0
    <2>1. /\ IsFiniteSet(S) /\ S \subseteq DOMAIN orders /\ n \notin S /\ n \in DOMAIN orders
        BY <1>1, <1>2, <1>5, Before, Sequences
    <2>2. Counted(info) = S \union {n}
        BY <1>1, <1>2, <1>5 DEF Counted
    <2>3. /\ info.side = orders[n].side /\ info.filled = orders[n].filled /\ ~orders[n].open
        BY <1>1, <1>5 DEF Sound, As
    <2>4. PICK f : f = Signed
        OBVIOUS
    <2>5. f[n] = orders[n].side * orders[n].filled /\ f[n] \in Int /\ \A id \in S : f[id] \in Int
        BY <2>1, <2>4, SignedTyped
    <2>6. SumFunctionOnSet(f, S \union {n}) = SumFunctionOnSet(f, S) + f[n]
        BY <2>1, <2>5, SumOverMore
    <2>7. Current(info) = SumFunctionOnSet(Signed, Counted(info))
        BY <1>3, <2>2, <2>3, <2>4, <2>5, <2>6 DEF Current
    <2>8. (1..(n - 1)) \union {n} = 1..n
        <3>1. \A i \in 1..n : i \in 1..(n - 1) \/ i = n
            OBVIOUS
        <3>2. n \in 1..n /\ \A i \in 1..(n - 1) : i \in 1..n
            BY <1>5
        <3>. QED
            BY <3>1, <3>2
    <2>9. Counted(info) \subseteq 1..n
        BY <1>2, <2>2, <2>8
    <2>10. ~astray => Counted(info) = 1..n
        BY <1>1, <1>2, <2>2, <2>8 DEF Sound
    <2>. QED
        BY <1>1, <1>3, <2>2, <2>3, <2>7, <2>9, <2>10
<1>. QED
    BY <1>1, <1>4, <1>5

\* The order tracked is the same, as it is now known.
SameTracked ==
    /\ tracked'.id = tracked.id /\ tracked'.initial = tracked.initial
    /\ tracked'.side = tracked.side /\ tracked'.counted = tracked.counted
    /\ tracked'.filled = tracked.filled \/ tracked.id > 0

LEMMA UpdatedIsSame ==
    ASSUME tracked \in Positions, tracked.id > 0, NEW s, s.filled \in Nat, s.open \in BOOLEAN,
           tracked' = Updated(tracked, s)
    PROVE  SameTracked
BY UpdatedTyped, UpdatedKeeps DEF SameTracked

LEMMA SoundTracked ==
    ASSUME SInv, SInv', Sound(tracked), ClosedStay, astray => astray', SameTracked
    PROVE  Sound(tracked)'
<1>1. PICK old : old = tracked
    OBVIOUS
<1>2. PInv /\ PInv' /\ old.id \in 0..Len(orders) /\ Sound(old)
    BY <1>1, Sequences DEF SInv
<1>3. Sound(old)'
    BY <1>2, SoundKept
<1>4. /\ tracked'.id = old.id /\ tracked'.initial = old.initial /\ tracked'.side = old.side
      /\ tracked'.counted = old.counted /\ (tracked'.filled = old.filled \/ old.id > 0)
    BY <1>1 DEF SameTracked
<1>5. tracked'.id > 0 /\ ~tracked'.open => As(tracked, tracked.id)'
    BY DEF SInv, FreshInv, FreshTracked, Fresh
<1>6. old.id \in Nat
    BY <1>2, Sequences
<1>. QED
    BY <1>3, <1>4, <1>5, <1>6 DEF Sound

-----------------------------------------------------------------------------
(***************************************************************************)
(* The position is known: the steps.                                       *)
(***************************************************************************)

\* Where an order is created or tracked, one coroutine is, with the lock.
LEMMA OneTracks ==
    ASSUME PInv, NEW t \in Tasks, Holds(t), NEW u \in Tasks, u # t
    PROVE  task[u].at # "track"
BY DEF PInv, LockInv, Critical, Holds

LEMMA LastKept ==
    ASSUME LastInv, NEW c \in Coroutines, OnlyMoves(c), astray => astray',
           c \in Tasks /\ ~astray' => (task'[c].at = "track" <=> task[c].at = "track"),
           tracked'.id = tracked.id, Len(orders') = Len(orders)
    PROVE  LastInv'
<1>. SUFFICES ASSUME ~astray' PROVE LastInv'
    BY DEF LastInv
<1>1. \A t \in Tasks : task'[t].at = "track" <=> task[t].at = "track"
    BY DEF OnlyMoves, Coroutines
<1>. QED
    BY <1>1 DEF LastInv

\* A step leaves what is known by others as it is.
LEMMA KKept ==
    ASSUME KInv, SInv', NEW c \in Coroutines, OnlyMoves(c), ClosedStay, astray => astray',
           Sound(tracked)', LastInv',
           c \in Tasks => CopySound(c)'
    PROVE  KInv'
<1>1. PInv /\ PInv' /\ \A t \in Tasks : CopySound(t)
    BY DEF KInv, SInv
<1>2. ASSUME NEW t \in Tasks, t # c PROVE CopySound(t)'
    <2>1. task'[t] = task[t] /\ CopySound(t)
        BY <1>1, <1>2 DEF OnlyMoves, Coroutines
    <2>2. PICK copy : copy = task[t].copy
        OBVIOUS
    <2>3. copy.id \in 0..Len(orders)
        BY <1>1, <2>2 DEF PInv, InfoInv, Known
    <2>4. Sound(copy) => Sound(copy)'
        BY <1>1, <2>3, SoundKept
    <2>5. /\ Len(orders) \in Nat /\ Len(orders') \in Nat /\ Len(orders) <= Len(orders')
          /\ copy.id \in Nat
        BY <1>1, <2>3, Sequences DEF ClosedStay
    <2>. QED
        BY <2>1, <2>2, <2>4, <2>5 DEF CopySound, Sound, As
<1>. QED
    BY <1>2 DEF KInv

\* A step that tracks no other order and does not create one.
LEMMA SameKeepsK ==
    ASSUME KInv, SInv', NEW c \in Coroutines, OnlyMoves(c), Steady \/ UNCHANGED orders,
           Len(orders') = Len(orders), SameTracked, astray => astray',
           c \in Tasks /\ ~astray' => (task'[c].at = "track" <=> task[c].at = "track"),
           c \in Tasks /\ Sound(tracked)' => CopySound(c)'
    PROVE  KInv'
<1>1. SInv /\ PInv /\ PInv' /\ Sound(tracked) /\ LastInv
    BY DEF KInv, SInv
<1>2. ClosedStay
    BY <1>1, SteadyCloses
<1>3. Sound(tracked)'
    BY <1>1, <1>2, SoundTracked
<1>4. LastInv'
    BY <1>1, LastKept DEF SameTracked
<1>. QED
    BY <1>2, <1>3, <1>4, KKept

\* A coroutine that is not at a switch has no copy to speak of.
LEMMA NoCopy ==
    ASSUME NEW t \in Tasks, task'[t].at \notin {"begin", "cancel", "prices", "track"}
    PROVE  CopySound(t)'
BY DEF CopySound

LEMMA PlainKeepsK ==
    ASSUME KInv, SInv', NEW t \in Tasks, OnlyMoves(t), UNCHANGED tracked,
           Steady \/ UNCHANGED orders, Len(orders') = Len(orders), astray => astray',
           task[t].at = "track" => astray',
           task'[t].at \notin {"begin", "cancel", "prices", "track"}
    PROVE  KInv'
<1>1. t \in Coroutines /\ SameTracked /\ CopySound(t)'
    BY NoCopy DEF Coroutines, SameTracked
<1>. QED
    BY <1>1, SameKeepsK

LEMMA NewCopy ==
    ASSUME NEW t \in Tasks, task'[t].at = "begin", task'[t].copy = tracked', Sound(tracked)'
    PROVE  CopySound(t)'
BY DEF CopySound, Sound, As

LEMMA GetInfoKeepsK ==
    ASSUME KInv, SInv', NEW t \in Tasks, GetInfo(t)
    PROVE  KInv'
<1>1. /\ OnlyMoves(t) /\ UNCHANGED <<suspends, orders, events, tracked, astray>>
      /\ \/ Leaves(t, "info")
         \/ Returns(t, "info", tracked) /\ ~tracked.open
         \/ Stays(t, "info", "refresh")
    BY GetInfoShape DEF KInv, SInv
<1>2. CASE Leaves(t, "info") \/ Stays(t, "info", "refresh")
    <2>1. task[t].at = "info" /\ task'[t].at \notin {"begin", "cancel", "prices", "track"}
        BY <1>2 DEF Leaves, Stays
    <2>. QED
        BY <1>1, <2>1, PlainKeepsK
<1>3. CASE Returns(t, "info", tracked)
    <2>1. task[t].at = "info" /\ task'[t].at = "begin" /\ task'[t].copy = tracked'
        BY <1>1, <1>3 DEF Returns
    <2>2. t \in Coroutines /\ SameTracked
        BY <1>1 DEF Coroutines, SameTracked
    <2>3. Sound(tracked)' => CopySound(t)'
        BY <2>1, NewCopy
    <2>. QED
        BY <1>1, <2>1, <2>2, <2>3, SameKeepsK
<1>. QED
    BY <1>1, <1>2, <1>3

LEMMA RefreshKeepsK ==
    ASSUME KInv, SInv', NEW t \in Tasks, Refresh(t)
    PROVE  KInv'
<1>1. PInv /\ t \in Coroutines /\ tracked \in Positions
    BY DEF KInv, SInv, Coroutines, PInv, TypeOK
<1>2. /\ OnlyMoves(t) /\ UNCHANGED <<suspends, orders, events, astray>>
      /\ tracked.id > 0 /\ tracked.id \in DOMAIN orders
      /\ Leaves(t, "refresh") \/ Returns(t, "refresh", tracked')
    BY <1>1, RefreshShape
<1>3. PICK answer \in Answers(t, tracked.id) : tracked' = Updated(tracked, answer)
    BY <1>1, RefreshShape
<1>4. answer.filled \in Nat /\ answer.open \in BOOLEAN
    BY <1>1, <1>2, <1>3, AnswerTyped DEF PInv
<1>5. SameTracked
    BY <1>1, <1>2, <1>3, <1>4, UpdatedIsSame
<1>6. task[t].at = "refresh" /\ task'[t].at # "track"
    BY <1>2 DEF Leaves, Returns
<1>7. Sound(tracked)' => CopySound(t)'
    <2>1. CASE Leaves(t, "refresh")
        BY <2>1, NoCopy DEF Leaves
    <2>2. CASE Returns(t, "refresh", tracked')
        <3>1. task'[t].at = "begin" /\ task'[t].copy = tracked'
            BY <2>2 DEF Returns
        <3>. QED
            BY <3>1, NewCopy
    <2>. QED
        BY <1>2, <2>1, <2>2
<1>. QED
    BY <1>1, <1>2, <1>5, <1>6, <1>7, SameKeepsK

LEMMA BeginKeepsK ==
    ASSUME KInv, SInv', NEW t \in Tasks, Begin(t)
    PROVE  KInv'
<1>1. /\ OnlyMoves(t) /\ UNCHANGED <<suspends, orders, events, tracked, astray>>
      /\ task'[t].copy = task[t].copy
      /\ \/ Stays(t, "begin", "cancel")
         \/ Stays(t, "begin", "prices") /\ ~task[t].copy.open
    BY BeginShape DEF KInv, SInv
<1>2. /\ task[t].at = "begin" /\ task'[t].at \in {"cancel", "prices"}
      /\ task'[t].at = "prices" => ~task[t].copy.open
    BY <1>1 DEF Stays
<1>3. t \in Coroutines /\ SameTracked
    BY <1>1 DEF Coroutines, SameTracked
<1>4. CopySound(t)
    BY DEF KInv
<1>5. CopySound(t)'
    BY <1>1, <1>2, <1>4 DEF CopySound, Sound, As, Signed
<1>. QED
    BY <1>1, <1>2, <1>3, <1>5, SameKeepsK

LEMMA CancelOrderKeepsK ==
    ASSUME KInv, SInv', NEW t \in Tasks, CancelOrder(t)
    PROVE  KInv'
<1>1. PInv /\ PInv' /\ t \in Coroutines /\ CopySound(t)
    BY DEF KInv, SInv, Coroutines
<1>2. PICK id, copy, new : id = copy.id /\ copy = task[t].copy /\ new = task'[t].copy
    OBVIOUS
<1>3. OnlyMoves(t) /\ UNCHANGED <<suspends, tracked, astray>> /\ SameTracked
    BY <1>1, CancelOrderShape DEF SameTracked
<1>4. CASE Leaves(t, "cancel") /\ Steady /\ Len(orders') = Len(orders)
    <2>1. task[t].at = "cancel" /\ task'[t].at \notin {"begin", "cancel", "prices", "track"}
        BY <1>4 DEF Leaves
    <2>. QED
        BY <1>3, <1>4, <2>1, PlainKeepsK
<1>5. CASE /\ Stays(t, "cancel", "prices") /\ Told /\ Len(orders') = Len(orders)
           /\ id \in DOMAIN orders /\ ~orders'[id].open
           /\ new \in Positions /\ new.id = id
           /\ new.initial = copy.initial /\ new.side = copy.side /\ new.counted = copy.counted
           /\ new.filled = orders'[id].filled /\ ~new.open
    <2>1. Steady /\ ClosedStay /\ task[t].at = "cancel" /\ task'[t].at = "prices"
        BY <1>1, <1>5, SteadyCloses DEF Steady, Stays
    <2>2. id \in 0..Len(orders) /\ id > 0
        BY <1>1, <1>5, Sequences
    <2>3. Sound(copy)
        BY <1>1, <1>2, <2>1 DEF CopySound
    <2>4. Sound(copy)'
        BY <1>1, <1>2, <1>3, <2>1, <2>2, <2>3, SoundKept
    <2>5. orders'[id].open = FALSE /\ new.open = FALSE
        <3>1. id \in DOMAIN orders' /\ orders' \in Seq(OrderRecords)
            BY <1>1, <1>5, Sequences, OrdersTyped DEF PInv, TypeOK
        <3>2. orders'[id].open \in BOOLEAN /\ new.open \in BOOLEAN
            BY <1>5, <3>1, OrdersTyped DEF OrderRecords, Positions
        <3>. QED
            BY <1>5, <3>2
    <2>6. Sound(new)'
        <3>1. /\ copy.counted \subseteq 1..(id - 1)
              /\ \A i \in copy.counted : ~orders'[i].open
              /\ copy.initial = SumFunctionOnSet(Signed, copy.counted)'
              /\ copy.side = orders'[id].side
              /\ ~astray' => copy.counted = 1..(id - 1)
            BY <1>2, <2>2, <2>4 DEF Sound
        <3>2. As(new, new.id)' /\ new.id > 0
            BY <1>5, <2>2, <2>5 DEF As
        <3>. QED
            BY <1>5, <2>2, <3>1, <3>2 DEF Sound
    <2>7. CopySound(t)'
        BY <1>2, <2>1, <2>5, <2>6 DEF CopySound, Sound, As
    <2>. QED
        BY <1>1, <1>3, <1>5, <2>1, <2>7, SameKeepsK
<1>. QED
    BY <1>1, <1>2, <1>4, <1>5, CancelOrderShape

LEMMA CreateOrderKeepsK ==
    ASSUME KInv, SInv', NEW t \in Tasks, CreateOrder(t)
    PROVE  KInv'
<1>1. PInv /\ PInv' /\ SInv /\ t \in Coroutines /\ CopySound(t) /\ Sound(tracked) /\ LastInv
    BY DEF KInv, SInv, Coroutines
<1>2. OnlyMoves(t) /\ UNCHANGED <<suspends, tracked, astray>> /\ SameTracked
    BY <1>1, CreateOrderShape DEF SameTracked
<1>3. CASE Leaves(t, "prices") /\ UNCHANGED <<orders, events>>
    <2>1. task[t].at = "prices" /\ task'[t].at \notin {"begin", "cancel", "prices", "track"}
        BY <1>3 DEF Leaves
    <2>. QED
        BY <1>2, <1>3, <2>1, PlainKeepsK
<1>4. CASE /\ Stays(t, "prices", "track") /\ Told /\ Len(orders') = Len(orders) + 1
           /\ task'[t].copy = task[t].copy
    <2>1. /\ ClosedStay /\ Holds(t) /\ task[t].at = "prices" /\ task'[t].at = "track"
        BY <1>1, <1>4, SteadyCloses DEF Steady, Stays
    <2>2. Sound(tracked)'
        BY <1>1, <1>2, <2>1, SoundTracked
    <2>3. CopySound(t)'
        <3>1. PICK copy : copy = task[t].copy
            OBVIOUS
        <3>2. copy.id \in 0..Len(orders) /\ Sound(copy) /\ ~copy.open
            BY <1>1, <2>1, <3>1 DEF PInv, InfoInv, Known, CopySound
        <3>3. Sound(copy)'
            BY <1>1, <1>2, <2>1, <3>2, SoundKept
        <3>4. copy.id < Len(orders')
            BY <1>1, <1>4, <3>2, Sequences
        <3>. QED
            BY <1>4, <3>1, <3>2, <3>3, <3>4 DEF CopySound, Sound, As
    <2>4. LastInv'
        <3>1. \A u \in Tasks : task[u].at # "track"
            BY <1>1, <2>1, OneTracks
        <3>2. Len(orders') - 1 = Len(orders)
            BY <1>1, <1>4, Sequences
        <3>. QED
            BY <1>1, <1>2, <2>1, <3>1, <3>2 DEF LastInv
    <2>. QED
        BY <1>1, <1>2, <2>1, <2>2, <2>3, <2>4, KKept
<1>. QED
    BY <1>1, <1>3, <1>4, CreateOrderShape

\* The new order starts from what the one of the copy comes to, and that is
\* the one before unless another went astray.
LEMMA TrackKeepsK ==
    ASSUME KInv, SInv', NEW t \in Tasks, Track(t)
    PROVE  KInv'
<1>1. PInv /\ PInv' /\ t \in Coroutines /\ CopySound(t) /\ LastInv
    BY DEF KInv, SInv, Coroutines
<1>2. /\ OnlyMoves(t) /\ UNCHANGED <<suspends, orders, events>>
      /\ Leaves(t, "track") /\ Len(orders) > 0 /\ Len(orders) \in DOMAIN orders
    BY <1>1, TrackShape
<1>3. /\ Holds(t) /\ task[t].at = "track"
      /\ task'[t].at \notin {"begin", "cancel", "prices", "track"}
    BY <1>2 DEF Leaves
<1>4. CASE tracked' = tracked /\ astray'
    BY <1>2, <1>3, <1>4, PlainKeepsK
<1>5. CASE /\ tracked'.id = Len(orders)
           /\ tracked'.initial = Current(task[t].copy)
           /\ tracked'.side = orders[Len(orders)].side
           /\ tracked'.counted = Counted(task[t].copy)
           /\ astray' = (astray \/ task[t].copy.id # tracked.id)
    <2>1. PICK copy \in Positions : copy = task[t].copy
        BY <1>1 DEF PInv, TypeOK, Works
    <2>2. PICK n \in Nat : n = Len(orders) /\ n > 0
        BY <1>1, <1>2, Sequences
    <2>3. copy.id \in 0..Len(orders) /\ Sound(copy) /\ ~copy.open /\ copy.id < n
        BY <1>1, <1>3, <2>1, <2>2 DEF PInv, InfoInv, Known, CopySound
    <2>4. PICK S : S = Counted(copy)
        OBVIOUS
    <2>5. /\ S \subseteq 1..copy.id /\ \A id \in S : ~orders[id].open
          /\ Current(copy) = SumFunctionOnSet(Signed, S)
          /\ ~astray => S = 1..copy.id
        BY <1>1, <2>3, <2>4, ClosedAmounts
    <2>6. tracked'.id = n /\ tracked'.initial = Current(copy) /\ tracked'.counted = S
        BY <1>5, <2>1, <2>2, <2>4
    <2>7. S \subseteq 1..(n - 1)
        BY <2>2, <2>3, <2>5
    <2>8. SumFunctionOnSet(Signed, S)' = SumFunctionOnSet(Signed, S)
        BY <1>2 DEF Signed
    <2>9. ~astray' => S = 1..(n - 1)
        <3>. SUFFICES ASSUME ~astray' PROVE S = 1..(n - 1)
            OBVIOUS
        <3>1. ~astray /\ copy.id = tracked.id
            BY <1>5, <2>1
        <3>2. tracked.id = n - 1
            BY <1>1, <1>3, <2>2, <3>1 DEF LastInv
        <3>. QED
            BY <2>5, <3>1, <3>2
    <2>10. tracked'.id > 0 /\ ~tracked'.open => As(tracked, tracked.id)'
        BY DEF SInv, FreshInv, FreshTracked, Fresh
    <2>11. Sound(tracked)'
        <3>1. tracked'.initial = SumFunctionOnSet(Signed, tracked.counted)'
            BY <2>5, <2>6, <2>8
        <3>2. /\ \A id \in tracked'.counted : ~orders'[id].open
              /\ tracked'.counted \subseteq 1..(tracked'.id - 1)
              /\ ~astray' => tracked'.counted = 1..(tracked'.id - 1)
            BY <1>2, <2>5, <2>6, <2>7, <2>9
        <3>3. tracked'.id # 0 /\ tracked'.side = orders'[tracked'.id].side
            BY <1>2, <1>5, <2>2
        <3>. QED
            BY <2>10, <3>1, <3>2, <3>3 DEF Sound
    <2>12. LastInv'
        <3>1. ASSUME NEW u \in Tasks PROVE task'[u].at # "track"
            <4>1. u # t => task'[u] = task[u] /\ task[u].at # "track"
                BY <1>1, <1>2, <1>3, OneTracks DEF OnlyMoves, Coroutines
            <4>. QED
                BY <1>3, <4>1
        <3>. QED
            BY <1>2, <1>5, <3>1 DEF LastInv
    <2>13. ClosedStay /\ (astray => astray')
        BY <1>1, <1>2, <1>5, SteadyCloses
    <2>. QED
        BY <1>1, <1>2, <1>3, <2>11, <2>12, <2>13, NoCopy, KKept
<1>. QED
    BY <1>1, <1>4, <1>5, TrackShape

LEMMA CallRaisesKeepsK ==
    ASSUME KInv, SInv', NEW t \in Tasks, CallRaises(t)
    PROVE  KInv'
<1>1. /\ OnlyMoves(t) /\ UNCHANGED <<orders, tracked>> /\ Leaves(t, task[t].at)
      /\ astray' = (astray \/ task[t].at = "track")
    BY CallRaisesShape DEF KInv, SInv
<1>2. task'[t].at \notin {"begin", "cancel", "prices", "track"}
    BY <1>1 DEF Leaves
<1>. QED
    BY <1>1, <1>2, PlainKeepsK

\* What the exchange and the handler do changes no more of an order than is
\* known of it.
LEMMA OutsideKeepsK ==
    ASSUME KInv, SInv', OrderChanges \/ EventArrives \/ HandleEvent
    PROVE  KInv'
<1>1. PInv /\ PInv' /\ Handler \in Coroutines /\ Handler \notin Tasks
    BY PositionAssumption DEF KInv, SInv, Coroutines, Handler
<1>2. CASE OrderChanges
    <2>1. Told /\ Len(orders') = Len(orders) /\ UNCHANGED <<suspends, tracked, lock, task, astray>>
        BY <1>1, <1>2, OrderChangesShape
    <2>2. Steady /\ SameTracked /\ OnlyMoves(Handler)
        BY <2>1 DEF Steady, SameTracked, OnlyMoves
    <2>. QED
        BY <1>1, <2>1, <2>2, SameKeepsK
<1>3. CASE EventArrives
    <2>1. OnlyMoves(Handler) /\ UNCHANGED <<suspends, orders, events, tracked, astray>>
        BY <1>1, <1>3, EventArrivesShape
    <2>2. SameTracked
        BY <2>1 DEF SameTracked
    <2>. QED
        BY <1>1, <2>1, <2>2, SameKeepsK
<1>4. CASE HandleEvent
    <2>1. /\ OnlyMoves(Handler) /\ UNCHANGED <<suspends, orders, astray>>
          /\ 1 \in DOMAIN events /\ tracked' = UpdateApplied(events[1])
        BY <1>1, <1>4, HandleEventShape
    <2>2. SameTracked
        <3>1. CASE tracked' = tracked
            BY <3>1 DEF SameTracked
        <3>2. CASE events[1].id = tracked.id /\ tracked' = Updated(tracked, events[1])
            <4>1. tracked.id > 0
                BY <1>1, <2>1, <3>2, Sequences
            <4>2. /\ tracked \in Positions /\ events[1] \in Updates
                  /\ events[1].filled \in Nat /\ events[1].open \in BOOLEAN
                <5>1. tracked \in Positions /\ events \in Seq(Updates)
                    BY <1>1 DEF PInv, TypeOK
                <5>2. events[1] \in Updates
                    BY <2>1, <5>1, UpdatesTyped
                <5>. QED
                    BY <5>1, <5>2 DEF Updates
            <4>. QED
                BY <3>2, <4>1, <4>2, UpdatedIsSame
        <3>. QED
            BY <2>1, <3>1, <3>2 DEF UpdateApplied
    <2>. QED
        BY <1>1, <2>1, <2>2, SameKeepsK
<1>. QED
    BY <1>2, <1>3, <1>4

LEMMA InitKInv == Init => KInv
<1>. SUFFICES ASSUME Init PROVE KInv
    OBVIOUS
<1>1. SInv /\ orders = <<>> /\ tracked = NoPosition /\ ~astray
    BY InitSInv DEF Init
<1>2. \A t \in Tasks : task[t].at = "idle"
    BY IdleWorks DEF Init, Coroutines
<1>3. tracked.id = 0 /\ tracked.filled = 0 /\ tracked.initial = 0 /\ tracked.counted = {}
    BY <1>1 DEF NoPosition
<1>4. SumFunctionOnSet(Signed, {}) = 0
    BY SumOverNone
<1>5. 1..(0 - 1) = {}
    OBVIOUS
<1>6. Sound(tracked)
    BY <1>3, <1>4, <1>5 DEF Sound
<1>7. LastInv /\ \A t \in Tasks : CopySound(t)
    BY <1>1, <1>2, <1>3 DEF LastInv, CopySound
<1>. QED
    BY <1>1, <1>6, <1>7 DEF KInv

LEMMA NextKInv == KInv /\ [Next]_vars => KInv'
<1>. SUFFICES ASSUME KInv, [Next]_vars PROVE KInv'
    OBVIOUS
<1>1. SInv' /\ PInv
    BY NextSInv DEF KInv, SInv
<1>2. CASE OrderChanges \/ EventArrives \/ HandleEvent
    BY <1>1, <1>2, OutsideKeepsK
<1>3. ASSUME NEW t \in Tasks, Signal(t) \/ CheckLoss(t) \/ CheckPrices(t)
      PROVE  KInv'
    <2>1. /\ OnlyMoves(t) /\ UNCHANGED <<orders, tracked, astray>>
          /\ task[t].at \in {"idle", "loss"} /\ task'[t].at \in {"info", "idle"}
        BY <1>1, <1>3, StartShape, CheckPricesShape DEF Asks
    <2>. QED
        BY <1>1, <2>1, PlainKeepsK
<1>4. ASSUME NEW t \in Tasks, Step(t)
      PROVE  KInv'
    <2>1. CASE CheckPrices(t)
        BY <1>3, <2>1
    <2>2. CASE GetInfo(t)
        BY <1>1, <2>2, GetInfoKeepsK
    <2>3. CASE Refresh(t)
        BY <1>1, <2>3, RefreshKeepsK
    <2>4. CASE Begin(t)
        BY <1>1, <2>4, BeginKeepsK
    <2>5. CASE CancelOrder(t)
        BY <1>1, <2>5, CancelOrderKeepsK
    <2>6. CASE CreateOrder(t)
        BY <1>1, <2>6, CreateOrderKeepsK
    <2>7. CASE Track(t)
        BY <1>1, <2>7, TrackKeepsK
    <2>8. CASE CallRaises(t)
        BY <1>1, <2>8, CallRaisesKeepsK
    <2>. QED
        BY <1>4, <2>1, <2>2, <2>3, <2>4, <2>5, <2>6, <2>7, <2>8 DEF Step
<1>5. CASE UNCHANGED vars
    <2>1. UNCHANGED <<suspends, orders, events, tracked, lock, task, astray>>
        BY <1>5 DEF vars
    <2>. QED
        BY <1>1, <2>1 DEF KInv, Sound, CopySound, LastInv, As, Signed
<1>. QED
    BY <1>2, <1>3, <1>4, <1>5 DEF Next

(***************************************************************************)
(* The manager knows its position, for any number of coroutines at work    *)
(* and whichever calls raise: the orders it accounts for are closed, and   *)
(* it takes the tracked one to start from what they filled.  They are all  *)
(* there were and the tracked one is the last, unless an order went        *)
(* astray: one was created that could not be read or priced, or was        *)
(* created from a position that another coroutine had replaced, since      *)
(* switch_position reads it before it takes the lock.                      *)
(***************************************************************************)
THEOREM PositionAlwaysKnown == Spec => []PositionKnown
<1>1. KInv => PositionKnown
    <2>. SUFFICES ASSUME KInv PROVE PositionKnown
        OBVIOUS
    <2>1. Sound(tracked) /\ LastInv
        BY DEF KInv
    <2>. QED
        BY <2>1 DEF Sound, LastInv, PositionKnown
<1>. QED
    BY <1>1, InitKInv, NextKInv, PTL DEF Spec
=============================================================================
