------------------------------ MODULE RingQueue ------------------------------
(***************************************************************************)
(* Queue<T> (cStdLib/queue.cpp), the ring in a growing array that holds     *)
(* scancodes, windows to bring to front and serial packets, with its calls  *)
(* one after the other.  Refines Fifo.                                      *)
(***************************************************************************)
EXTENDS Integers

CONSTANTS
    Items,          \* what is queued
    NoItem,         \* what memory of malloc holds, and no caller queued
    YesSize,        \* the size given to the constructor
    MaxCount        \* bound: items waiting at a time

ASSUME QueueAssumption ==
    /\ NoItem \notin Items
    /\ YesSize \in Int
    /\ MaxCount \in Nat

VARIABLES
    arr, arrSize, count, head, tail, freed,     \* the members of Queue<T>
    taken,          \* what the last Dequeue returned
    panicked        \* a Panic, all of which lock the kernel

vars == <<arr, arrSize, count, head, tail, freed, taken, panicked>>

Malloc(size) == [i \in 0 .. (size - 1) |-> NoItem]

Init ==
    /\ arrSize = IF YesSize < 2 THEN 2 ELSE YesSize
    /\ arr = Malloc(arrSize)
    /\ count = 0 /\ head = 0 /\ tail = 0
    /\ freed = FALSE
    /\ taken = NoItem
    /\ panicked = FALSE

Panic ==
    /\ panicked' = TRUE
    /\ UNCHANGED <<arr, arrSize, count, head, tail, freed, taken>>

(* The array and the indices that Enqueue goes on with.                     *)
Ring == [arr |-> arr, size |-> arrSize, head |-> head, tail |-> tail]

(* Mutant: the copy starts at the array's start, not at the head.           *)
ResizeFromStart(newSize) ==
    [arr  |-> [i \in 0 .. (newSize - 1) |->
                 IF i < count THEN arr[i] ELSE NoItem],
     size |-> newSize, head |-> 0, tail |-> count]

Resize(newSize) ==
    [arr  |-> [i \in 0 .. (newSize - 1) |->
                 IF i < count THEN arr[(head + i) % arrSize] ELSE NoItem],
     size |-> newSize, head |-> 0, tail |-> count]

(* Mutant: the array never grows.                                           *)
RoomKept == Ring

Room == IF count = arrSize THEN Resize(arrSize * 2) ELSE Ring

Enqueue(item) ==
    /\ ~panicked /\ ~freed
    /\ count < MaxCount
    /\ arr' = [Room.arr EXCEPT ![Room.tail] = item]
    /\ arrSize' = Room.size
    /\ head' = Room.head
    /\ tail' = (Room.tail + 1) % Room.size
    /\ count' = count + 1
    /\ UNCHANGED <<freed, taken, panicked>>

Dequeue ==
    /\ ~panicked /\ ~freed
    /\ count # 0
    /\ taken' = arr[head]
    /\ head' = (head + 1) % arrSize
    /\ count' = count - 1
    /\ UNCHANGED <<arr, arrSize, tail, freed, panicked>>

(* Dequeue from an empty queue.                                             *)
DequeueEmpty == ~panicked /\ ~freed /\ count = 0 /\ Panic

(* Enqueue or Dequeue after Free.                                           *)
UseAfterFree == ~panicked /\ freed /\ Panic

Clear ==
    /\ ~panicked /\ ~freed
    /\ head' = 0 /\ tail' = 0 /\ count' = 0
    /\ UNCHANGED <<arr, arrSize, freed, taken, panicked>>

(* The array goes back to the heap; a second Free does nothing.             *)
Free ==
    /\ ~panicked /\ ~freed
    /\ freed' = TRUE
    /\ arr' = Malloc(0)
    /\ UNCHANGED <<arrSize, count, head, tail, taken, panicked>>

Next ==
    \/ \E item \in Items : Enqueue(item)
    \/ Dequeue \/ DequeueEmpty \/ UseAfterFree \/ Clear \/ Free

Spec == Init /\ [][Next]_vars

-----------------------------------------------------------------------------
(* The types of the variables, and the indices where the ring needs them:   *)
(* the tail is count behind the head, around the end of the array.          *)
TypeOK ==
    /\ arrSize \in Nat /\ arrSize >= 2
    /\ ~freed => arr \in [0 .. (arrSize - 1) -> Items \cup {NoItem}]
    /\ count \in 0 .. arrSize
    /\ head \in 0 .. (arrSize - 1)
    /\ tail = (head + count) % arrSize
    /\ freed \in BOOLEAN
    /\ taken \in Items \cup {NoItem}
    /\ panicked \in BOOLEAN

(* The items that wait, from the head on around the end of the array.       *)
Contents ==
    IF freed THEN <<>>
    ELSE [i \in 1 .. count |-> arr[(head + (i - 1)) % arrSize]]

State == IF panicked THEN "panic" ELSE IF freed THEN "freed" ELSE "open"

Abstract == INSTANCE Fifo WITH queue <- Contents, state <- State

(* The ring is a queue: whatever the head, the tail and the array's growth, *)
(* items are returned in the order in which they were put in.               *)
ImplementsFifo == Abstract!Spec
=============================================================================
