--------------------------- MODULE OrderBookMirror ---------------------------
(***************************************************************************)
(* The order book mirror of the Binance samples: a local copy of an order  *)
(* book kept up to date with the diffs of a WebSocket channel, started     *)
(* from, and checked against, snapshots fetched with REST calls.           *)
(*                                                                         *)
(* The exchange is external: it numbers its updates, streams diffs that    *)
(* cover consecutive ranges of them, and answers a request with its book   *)
(* at some update between the request and the answer.  Everything in the   *)
(* mirror between two suspensions is one action: a diff is handled without *)
(* suspending, and only REST calls and the pause between checks suspend.   *)
(*                                                                         *)
(* A price is its rank on its side: 1 is the best price.  A side of a book *)
(* maps each price to its amount, 0 when the level is absent; the list of  *)
(* the code is the levels with an amount, from the best to the worst.      *)
(***************************************************************************)
EXTENDS Integers, Sequences, SequencesExt, FiniteSetsExt

CONSTANTS
    MaxPrice,           \* the worst price on a side
    MaxAmount,          \* the largest amount at a price
    MaxDepth,           \* max_depth
    CheckDepth,         \* check_depth
    FullDepth,          \* _full_depth_threshold
    RestartDepth,       \* _restart_threshold
    MaxUpdates,         \* bound: updates of the exchange's book
    MaxLost,            \* bound: diffs lost by the stream
    MaxFailures         \* bound: REST calls that raise

Sides == {"bids", "asks"}
Prices == 1..MaxPrice
Amounts == 0..MaxAmount

ASSUME MirrorAssumption ==
    /\ {MaxPrice, MaxUpdates, MaxLost, MaxFailures} \subseteq Nat
    /\ MaxAmount \in Nat \ {0}
    /\ {MaxDepth, CheckDepth, FullDepth, RestartDepth} \subseteq Nat
    /\ 0 < CheckDepth /\ CheckDepth < MaxDepth
    /\ RestartDepth < FullDepth /\ FullDepth < MaxDepth

VARIABLES
    log,        \* the updates of the exchange's book, in order
    streamed,   \* the last update the stream has covered
    state,      \* _state: "initializing" or "updating"
    book,       \* order_book: last_update_id, levels and bounds
    buffer,     \* Initializing._buffer
    fetch,      \* _fetch_task of the state
    snapshot,   \* Updating._snapshot
    lost,       \* diffs lost so far
    failures    \* REST calls that raised so far

vars == <<log, streamed, state, book, buffer, fetch, snapshot, lost, failures>>

-----------------------------------------------------------------------------
(* The exchange.                                                           *)

Update == [side: Sides, price: Prices, amount: Amounts]

\* The amount at a price after the first id updates; every level starts with 1.
AmountAt(id, s, p) ==
    LET touching == {i \in 1..id : log[i].side = s /\ log[i].price = p}
    IN  IF touching = {} THEN 1
        ELSE log[CHOOSE i \in touching : \A j \in touching : j <= i].amount

SideAt(id, s) == [p \in Prices |-> AmountAt(id, s, p)]

\* The prices of a side that a diff carries: those its updates touched.
Touched(diff, s) ==
    {log[i].price : i \in {j \in diff.first..diff.final : log[j].side = s}}

Levels(side) == {p \in Prices : side[p] > 0}
Depth(side) == Cardinality(Levels(side))

\* The best limit levels of a side, which is what a snapshot holds.
Top(side, limit) ==
    [p \in Prices |->
        IF Cardinality({q \in Levels(side) : q <= p}) <= limit
        THEN side[p] ELSE 0]

-----------------------------------------------------------------------------
(* The local book.                                                         *)

NoBound == 0

\* The worst price of a list of levels: diffs are applied up to it.
Bound(side) ==
    IF Levels(side) = {} THEN NoBound
    ELSE CHOOSE p \in Levels(side) : \A q \in Levels(side) : q <= p

FromExchange(id, limit) ==
    LET levels == [s \in Sides |-> Top(SideAt(id, s), limit)]
    IN  [id |-> id, levels |-> levels, bound |-> [s \in Sides |-> Bound(levels[s])]]

\* Mutation of TooOld: off by one.
MissingOne(b, diff) == diff.first - b.id > 2

\* update_from_diff raises.
TooOld(b, diff) == diff.first - b.id > 1

\* A diff that does not begin before the book's update is applied within the
\* bounds; one that does is ignored, even if it ends after it.
UpdateFromDiff(b, diff) ==
    IF diff.first - b.id < 0 THEN b
    ELSE [b EXCEPT !.id = diff.final,
                   !.levels = [s \in Sides |-> [p \in Prices |->
                        IF p \in Touched(diff, s) /\ p <= b.bound[s]
                        THEN AmountAt(diff.final, s, p)
                        ELSE b.levels[s][p]]]]

\* The diffs of the buffer applied in turn, up to one that is too old.
Applied(b, diffs) ==
    FoldLeft(LAMBDA r, diff :
                IF r.raised \/ TooOld(r.book, diff)
                THEN [r EXCEPT !.raised = TRUE]
                ELSE [r EXCEPT !.book = UpdateFromDiff(r.book, diff)],
             [book |-> b, raised |-> FALSE], diffs)

\* Whether a side has so few levels that the updater starts again.
Thin(b, depth) == \E s \in Sides : Depth(b.levels[s]) <= depth

-----------------------------------------------------------------------------
(* _check_order_book_consistency.                                          *)

NoSnapshot == [id |-> -1, limit |-> 0]

\* The snapshot has more levels than the book on this side, and replaces it.
Refreshes(snap, b, s) == Depth(Top(SideAt(snap.id, s), snap.limit)) > Depth(b.levels[s])

Mismatch(snap, b, s) ==
    /\ ~Refreshes(snap, b, s)
    /\ Top(Top(SideAt(snap.id, s), snap.limit), CheckDepth) # Top(b.levels[s], CheckDepth)

\* The bids are looked at first, and the asks only if those match.
Reached(snap, b, s) == s = "bids" \/ ~Mismatch(snap, b, "bids")

Compared(snap, b) ==
    LET new == {s \in Sides : Refreshes(snap, b, s) /\ Reached(snap, b, s)}
        levels == [s \in Sides |-> IF s \in new THEN Top(SideAt(snap.id, s), snap.limit)
                                                ELSE b.levels[s]]
        bound == [s \in Sides |-> IF s \in new THEN Bound(levels[s]) ELSE b.bound[s]]
    IN  [book |-> [b EXCEPT !.levels = levels, !.bound = bound],
         mismatch |-> \E s \in Sides : Mismatch(snap, b, s)]

\* Mutation of Checked: of whatever update the snapshot is.
CheckedAnyway(snap, b) ==
    IF snap = NoSnapshot THEN [book |-> b, mismatch |-> FALSE] ELSE Compared(snap, b)

\* Only a snapshot of the update the book stands at is compared with it.
Checked(snap, b) ==
    IF snap.id = b.id THEN Compared(snap, b) ELSE [book |-> b, mismatch |-> FALSE]

-----------------------------------------------------------------------------
NoFetch == [at |-> "none", since |-> 0, limit |-> 0]
Sleeping == [at |-> "sleep", since |-> 0, limit |-> 0]
Request(limit) == [at |-> "fetching", since |-> Len(log), limit |-> limit]

Init ==
    /\ log = <<>>
    /\ streamed = 0
    /\ state = "initializing"
    /\ book = [id |-> 0, levels |-> [s \in Sides |-> [p \in Prices |-> 0]],
               bound |-> [s \in Sides |-> NoBound]]
    /\ buffer = <<>>
    /\ fetch = NoFetch
    /\ snapshot = NoSnapshot
    /\ lost = 0
    /\ failures = 0

\* The exchange changes a level.
ExchangeUpdates ==
    /\ Len(log) < MaxUpdates
    /\ \E u \in Update :
        /\ u.amount # AmountAt(Len(log), u.side, u.price)
        /\ log' = Append(log, u)
    /\ UNCHANGED <<streamed, state, book, buffer, fetch, snapshot, lost, failures>>

\* switch_state(Initializing()): the task of the check is cancelled.
StartAgain ==
    /\ state' = "initializing"
    /\ buffer' = <<>>
    /\ fetch' = NoFetch
    /\ snapshot' = NoSnapshot

\* A diff reaches the updater while it waits for a snapshot.
BufferDiff(diff) ==
    /\ state = "initializing"
    /\ buffer' = Append(buffer, diff)
    /\ fetch' = IF fetch = NoFetch THEN Request(MaxDepth) ELSE fetch
    /\ UNCHANGED <<state, book, snapshot>>

\* A diff reaches the updater while it keeps the book up to date.
ApplyDiff(diff) ==
    /\ state = "updating"
    /\ IF TooOld(book, diff)
       THEN /\ StartAgain
            /\ UNCHANGED book
       ELSE LET checked == Checked(snapshot, UpdateFromDiff(book, diff))
            IN  /\ book' = checked.book
                /\ IF checked.mismatch \/ Thin(checked.book, RestartDepth)
                   THEN StartAgain
                   ELSE UNCHANGED <<state, buffer, fetch, snapshot>>

DiffArrives ==
    \E final \in (streamed + 1)..Len(log) :
        LET diff == [first |-> streamed + 1, final |-> final]
        IN  /\ BufferDiff(diff) \/ ApplyDiff(diff)
            /\ streamed' = final
            /\ UNCHANGED <<log, lost, failures>>

\* The connection drops and the stream goes on after some updates.
DiffLost ==
    /\ lost < MaxLost
    /\ \E final \in (streamed + 1)..Len(log) : streamed' = final
    /\ lost' = lost + 1
    /\ UNCHANGED <<log, state, book, buffer, fetch, snapshot, failures>>

-----------------------------------------------------------------------------
(* Initializing._fetch_snapshot.                                           *)

\* What the buffer makes of a snapshot: the diffs from the first that ends after it on, applied.
Rebuilt(id) ==
    LET after == {i \in 1..Len(buffer) : buffer[i].final > id}
    IN  Applied(FromExchange(id, MaxDepth),
                SubSeq(buffer, Min(after \union {Len(buffer) + 1}), Len(buffer)))

Startable(id) ==
    /\ id >= buffer[1].first
    /\ ~Rebuilt(id).raised
    /\ Rebuilt(id).book.id >= book.id

\* The snapshot arrives.  Anything that raises is retried at once; the line
\* that logs the new book reads its first levels after the book was set.
SnapshotStarts ==
    /\ state = "initializing" /\ fetch.at = "fetching"
    /\ \E id \in fetch.since..Len(log) :
        IF Startable(id)
        THEN /\ book' = Rebuilt(id).book
             /\ IF Thin(book', 0)
                THEN /\ fetch' = Request(MaxDepth)
                     /\ UNCHANGED <<state, buffer>>
                ELSE /\ state' = "updating"
                     /\ buffer' = <<>>
                     /\ fetch' = Sleeping
        ELSE /\ fetch' = Request(MaxDepth)
             /\ UNCHANGED <<state, book, buffer>>
    /\ UNCHANGED <<log, streamed, snapshot, lost, failures>>

(* Updating._fetch_snapshot.                                               *)

WakeUp ==
    /\ state = "updating" /\ fetch.at = "sleep"
    /\ fetch' = Request(IF Thin(book, FullDepth) THEN MaxDepth ELSE CheckDepth)
    /\ UNCHANGED <<log, streamed, state, book, buffer, snapshot, lost, failures>>

SnapshotChecks ==
    /\ state = "updating" /\ fetch.at = "fetching"
    /\ \E id \in fetch.since..Len(log) :
        LET snap == [id |-> id, limit |-> fetch.limit]
            checked == Checked(snap, book)
        IN  /\ book' = checked.book
            /\ IF checked.mismatch THEN StartAgain
               ELSE /\ snapshot' = snap
                    /\ fetch' = Sleeping
                    /\ UNCHANGED <<state, buffer>>
    /\ UNCHANGED <<log, streamed, lost, failures>>

\* Mutation of FetchFails: a start is tried again with the next diff.
FailsForNow ==
    /\ failures < MaxFailures /\ fetch.at = "fetching"
    /\ failures' = failures + 1
    /\ fetch' = IF state = "initializing" THEN NoFetch ELSE Sleeping
    /\ UNCHANGED <<log, streamed, state, book, buffer, snapshot, lost>>

\* A REST call raises: a start is retried at once, a check after the pause.
FetchFails ==
    /\ failures < MaxFailures /\ fetch.at = "fetching"
    /\ failures' = failures + 1
    /\ fetch' = IF state = "initializing" THEN Request(MaxDepth) ELSE Sleeping
    /\ UNCHANGED <<log, streamed, state, book, buffer, snapshot, lost>>

Next ==
    \/ ExchangeUpdates
    \/ DiffArrives
    \/ DiffLost
    \/ SnapshotStarts
    \/ WakeUp
    \/ SnapshotChecks
    \/ FetchFails

\* A REST call ends, and the stream delivers what it covers.
Spec == Init /\ [][Next]_vars /\ WF_vars(SnapshotStarts) /\ WF_vars(DiffArrives)

-----------------------------------------------------------------------------
Diffs == [first: 1..MaxUpdates, final: 1..MaxUpdates]
Ids == 0..MaxUpdates

TypeOK ==
    /\ log \in Seq(Update) /\ Len(log) <= MaxUpdates
    /\ streamed \in 0..Len(log)
    /\ state \in {"initializing", "updating"}
    /\ book \in [id: Ids, levels: [Sides -> [Prices -> Amounts]],
                 bound: [Sides -> Prices \cup {NoBound}]]
    /\ buffer \in Seq(Diffs)
    /\ fetch \in [at: {"none", "sleep", "fetching"}, since: Ids,
                  limit: {0, CheckDepth, MaxDepth}]
    /\ snapshot \in [id: Ids \cup {-1}, limit: {0, CheckDepth, MaxDepth}]
    /\ lost \in 0..MaxLost /\ failures \in 0..MaxFailures

(***************************************************************************)
(* The book a strategy reads is the exchange's book at the update it       *)
(* claims, down to its bound, whatever diffs were lost, skipped or late    *)
(* and whichever snapshots replaced a side (OrderBook.update_from_diff,    *)
(* _check_order_book_consistency).                                         *)
(***************************************************************************)
Accurate ==
    \A s \in Sides : \A p \in Prices :
        book.levels[s][p] =
            IF p <= book.bound[s] THEN AmountAt(book.id, s, p) ELSE 0

(***************************************************************************)
(* The updater starts again only if it must: the diffs it has applied and  *)
(* those that were streamed have parted (one was lost, or skipped because  *)
(* it overlapped a snapshot), or a side is about to run out of levels.  A  *)
(* check against a snapshot never finds a difference of its own making.    *)
(***************************************************************************)
RestartsForAReason ==
    [][ state = "updating" /\ state' = "initializing"
        => (book.id < streamed \/ Thin(book', RestartDepth)) ]_vars

(***************************************************************************)
(* Once a diff has arrived, the updater leaves Initializing: a snapshot    *)
(* older than the buffer, one that a skipped diff parts from the next, and *)
(* a REST call that raises are all retried.  It does not when the exchange *)
(* has a side without levels.                                              *)
(***************************************************************************)
Resynchronizes ==
    (state = "initializing" /\ buffer # <<>>) ~>
        (state = "updating" \/ \E s \in Sides : Depth(SideAt(Len(log), s)) = 0)

=============================================================================
