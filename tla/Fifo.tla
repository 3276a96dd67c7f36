-------------------------------- MODULE Fifo --------------------------------
(***************************************************************************)
(* What a queue of cStdLib promises: items leave in the order in which they *)
(* came, none is lost, invented or doubled, and a caller that takes from an *)
(* empty queue or uses one that was freed is stopped.                       *)
(***************************************************************************)
EXTENDS Naturals, Sequences

CONSTANTS
    Items,          \* what is queued
    NoItem,         \* what was never queued
    MaxCount        \* bound: items waiting at a time

VARIABLES
    queue,          \* the items that wait
    taken,          \* what the last Dequeue returned
    state           \* "open", "freed", or "panic" when a caller was stopped

vars == <<queue, taken, state>>

Init == queue = <<>> /\ taken = NoItem /\ state = "open"

Put(item) ==
    /\ state = "open" /\ Len(queue) < MaxCount
    /\ queue' = Append(queue, item)
    /\ UNCHANGED <<taken, state>>

Take ==
    /\ state = "open" /\ queue # <<>>
    /\ taken' = Head(queue)
    /\ queue' = Tail(queue)
    /\ UNCHANGED state

Forget ==
    /\ state = "open"
    /\ queue' = <<>>
    /\ state' \in {"open", "freed"}
    /\ UNCHANGED taken

Misuse ==
    /\ state # "panic" /\ queue = <<>>
    /\ state' = "panic"
    /\ UNCHANGED <<queue, taken>>

Next == (\E item \in Items : Put(item)) \/ Take \/ Forget \/ Misuse

Spec == Init /\ [][Next]_vars
=============================================================================
