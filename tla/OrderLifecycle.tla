--------------------------- MODULE OrderLifecycle ---------------------------
(***************************************************************************)
(* What the exchange promises about each order, whatever bars, balances    *)
(* and loans do: it is accepted or refused once; while it is open it is    *)
(* filled in positive parts that never exceed its amount; it is completed  *)
(* by the part that fills it and by nothing else; it may be canceled while *)
(* it is open; and once it is closed nothing happens to it any more.       *)
(***************************************************************************)
EXTENDS Integers, Sequences

CONSTANT Amounts   \* the amounts orders are created with

VARIABLE book      \* one [amount, status, filled] per order, in order of creation

Entry == [amount : Amounts, status : {"NEW", "OPEN", "COMPLETED", "CANCELED", "REJECTED"},
          filled : Int]

Init == book = << >>

Create == \E amount \in Amounts :
    book' = Append(book, [amount |-> amount, status |-> "NEW", filled |-> 0])

\* The order goes from one status to another and nothing else changes.
Move(o, from, to) ==
    /\ book[o].status = from
    /\ book' = [book EXCEPT ![o].status = to]

Accept(o) == Move(o, "NEW", "OPEN")
Refuse(o) == Move(o, "NEW", "REJECTED")
Cancel(o) == Move(o, "OPEN", "CANCELED")

\* A part of what is pending is filled; filling all of it completes the order.
Fill(o) ==
    /\ book[o].status = "OPEN"
    /\ \E filled \in book[o].filled + 1 .. book[o].amount :
        book' = [book EXCEPT ![o].filled = filled,
                             ![o].status = IF filled = book[o].amount THEN "COMPLETED" ELSE "OPEN"]

Next ==
    \/ Create
    \/ \E o \in DOMAIN book : Accept(o) \/ Refuse(o) \/ Fill(o) \/ Cancel(o)

Spec == Init /\ [][Next]_book
=============================================================================
