----------------------------- MODULE HandlerPool -----------------------------
(***************************************************************************)
(* What a dispatcher relies on of its task pool: work begins in the order  *)
(* it was pushed, each once, so much of it at a time, and the pool holds   *)
(* only so much that has not begun.  TaskPool implements it.               *)
(***************************************************************************)
EXTENDS Naturals, Sequences, FiniteSets, Functions

CONSTANTS Workers,  \* as many as run at a time
          Room      \* how much may wait

VARIABLES waiting,  \* pushed and not begun, in order
          running   \* what each worker runs

handlerPool == <<waiting, running>>

Nothing == [kind |-> "nothing"]

PoolInit == waiting = <<>> /\ running = [w \in Workers |-> Nothing]

HasRoom == Len(waiting) < Room

Push(item) ==
    /\ HasRoom
    /\ waiting' = Append(waiting, item)
    /\ UNCHANGED running

Begin(w) ==
    /\ waiting # <<>> /\ running[w] = Nothing
    /\ running' = [running EXCEPT ![w] = Head(waiting)]
    /\ waiting' = Tail(waiting)

\* Mutation of Finish: a worker runs one item and no other.
FinishForGood(w) == running[w] # Nothing /\ UNCHANGED handlerPool

Finish(w) ==
    /\ running[w] # Nothing
    /\ running' = [running EXCEPT ![w] = Nothing]
    /\ UNCHANGED waiting

\* A cancelation drops the last part of what waits.
Cancel ==
    /\ \E kept \in 0..Len(waiting) : waiting' = SubSeq(waiting, 1, kept)
    /\ UNCHANGED running

PoolNext ==
    \/ \E item \in Range(waiting') : Push(item)
    \/ \E w \in Workers : Begin(w) \/ Finish(w)
    \/ Cancel

PoolSpec == PoolInit /\ [][PoolNext]_handlerPool
=============================================================================
