------------------------------- MODULE CircularQ -------------------------------
(***************************************************************************)
(* circular_q of spdlog (details/circular_q.h): a vector of max_items_     *)
(* slots with a head and a tail, of which one slot stays free to tell a    *)
(* full queue from an empty one.  A queue is a value and a method an       *)
(* operator on it.  Nil is what is left in a slot that was moved from.     *)
(***************************************************************************)
EXTENDS Integers, Sequences

CONSTANTS
    Capacity,   \* the max_items that the constructor is given; not 0
    Nil         \* no item

MaxItems == Capacity + 1
Slots == 0 .. Capacity

EmptyQ == [v |-> [i \in Slots |-> Nil], head |-> 0, tail |-> 0, overrun |-> 0]

After(i) == (i + 1) % MaxItems

IsEmpty(q) == q.tail = q.head

\* A test that lets the last slot be taken, too.
NeverFull(q) == FALSE

Full(q) == After(q.tail) = q.head

Size(q) == IF q.tail >= q.head THEN q.tail - q.head
                               ELSE MaxItems - (q.head - q.tail)

Front(q) == q.v[q.head]

At(q, i) == q.v[(q.head + i) % MaxItems]

\* Over the oldest item when no slot is free.
PushBack(q, item) ==
    LET tail == After(q.tail)
    IN  [v       |-> [q.v EXCEPT ![q.tail] = item],
         tail    |-> tail,
         head    |-> IF tail = q.head THEN After(q.head) ELSE q.head,
         overrun |-> IF tail = q.head THEN q.overrun + 1 ELSE q.overrun]

\* The caller has moved the item out of its slot.
PopFront(q) == [q EXCEPT !.v[q.head] = Nil, !.head = After(q.head)]

\* The items in the queue, oldest first.
Contents(q) == [i \in 1 .. Size(q) |-> At(q, i - 1)]
===============================================================================
