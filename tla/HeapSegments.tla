--------------------------- MODULE HeapSegments ---------------------------
(***************************************************************************)
(* The segment list of the kernel heap (memory/heap.cpp): headers placed in *)
(* the memory they describe, linked in both directions, with the counters   *)
(* kept beside them.  Pure operators on a heap h.                           *)
(*                                                                         *)
(* Addresses and lengths are counted in blocks of 16 bytes (0x10), the      *)
(* granularity of the allocator, and HeapStart is block 1, so that 0 is     *)
(* NULL.  A header that was merged away stays in memory, as in the code.    *)
(***************************************************************************)
EXTENDS Integers, Sequences, FiniteSetsExt

CONSTANTS
    HeaderLen,      \* sizeof(HeapSegHdr)
    PageLen,        \* blocks of a page
    StartLen,       \* blocks of the heap after InitializeHeap
    MaxLen          \* bound: blocks that physical memory has for the heap

ASSUME HeapAssumption ==
    /\ HeaderLen \in Nat \ {0}
    /\ PageLen \in Nat /\ PageLen > HeaderLen
    /\ StartLen \in Nat /\ StartLen > HeaderLen
    /\ MaxLen \in Nat /\ MaxLen >= StartLen

NULL == 0
HeapStart == 1
Addresses == HeapStart .. MaxLen

(* Memory in which no header was written has no magic number.              *)
NoHeader == [length |-> 0, next |-> NULL, last |-> NULL, free |-> FALSE,
             magic |-> FALSE]
Header(length, next, last, free) ==
    [length |-> length, next |-> next, last |-> last, free |-> free,
     magic |-> TRUE]

(* One free segment, before the malloc cache is filled.                     *)
FreshHeap ==
    [seg |-> [a \in Addresses |->
                IF a = HeapStart
                THEN Header(StartLen - HeaderLen, NULL, NULL, TRUE)
                ELSE NoHeader],
     lastHdr |-> HeapStart, heapEnd |-> HeapStart + StartLen,
     heapCount |-> 1, usedHeapCount |-> 0, usedHeapAmount |-> 0]

(* What malloc returns for the segment at a, and back.                      *)
Block(a) == a + HeaderLen
HeaderOf(block) == block - HeaderLen

(* HeapSegHdr::Split; its caller has made sure that a block and a header    *)
(* are left over, so it never returns NULL.                                 *)
Split(h, a, splitLength) ==
    LET s      == h.seg[a]
        new    == a + splitLength + HeaderLen
        rest   == Header(s.length - splitLength - HeaderLen, s.next, a, s.free)
        linked == IF s.next = NULL THEN h.seg
                  ELSE [h.seg EXCEPT ![s.next].last = new]
    IN  [h EXCEPT !.seg = [linked EXCEPT ![a].next = new,
                                         ![a].length = splitLength,
                                         ![new] = rest],
                  !.lastHdr = IF @ = a THEN new ELSE @,
                  !.heapCount = @ + 1]

(* Mutant: the segment behind keeps its link to the merged header.          *)
CombineForwardOneWay(h, a) ==
    LET n == h.seg[a].next
        s == h.seg[n]
    IN  IF n = NULL \/ ~s.free THEN h
        ELSE [h EXCEPT !.seg[a].length = @ + s.length + HeaderLen,
                       !.seg[a].next = s.next,
                       !.lastHdr = IF @ = n THEN a ELSE @,
                       !.heapCount = @ - 1]

(* HeapSegHdr::CombineForward: a free segment behind becomes part of this   *)
(* one.                                                                     *)
CombineForward(h, a) ==
    LET n == h.seg[a].next
        s == h.seg[n]
    IN  IF n = NULL \/ ~s.free THEN h
        ELSE [h EXCEPT
                !.seg = [b \in Addresses |->
                    IF b = a THEN [h.seg[a] EXCEPT !.length = @ + s.length + HeaderLen,
                                                   !.next = s.next]
                    ELSE IF b = s.next THEN [h.seg[b] EXCEPT !.last = a]
                    ELSE h.seg[b]],
                !.lastHdr = IF @ = n THEN a ELSE @,
                !.heapCount = @ - 1]

(* HeapSegHdr::CombineBackward.                                             *)
CombineBackward(h, a) ==
    LET p == h.seg[a].last
    IN  IF p # NULL /\ h.seg[p].free THEN CombineForward(h, p) ELSE h

(* A free segment serves a request when it has exactly its size, or more    *)
(* than that and room for another header and one block.                     *)
CanSplit(h, a, size) == h.seg[a].length > size + HeaderLen + 1
Fits(h, a, size) ==
    h.seg[a].free /\ (CanSplit(h, a, size) \/ h.seg[a].length = size)

(* Mutant: the segment is handed out, but not counted.                      *)
MarkUsedUncounted(h, a, size) ==
    [h EXCEPT !.seg[a].free = FALSE, !.usedHeapAmount = @ + size]

(* The segment is handed out.                                               *)
MarkUsed(h, a, size) ==
    [h EXCEPT !.seg[a].free = FALSE,
              !.usedHeapCount = @ + 1, !.usedHeapAmount = @ + size]

(* Free: the segment is free before its neighbours are looked at, and it is *)
(* counted last.                                                            *)
MarkFree(h, a) ==
    [h EXCEPT !.seg[a].free = TRUE, !.usedHeapAmount = @ - h.seg[a].length]
CountFreed(h) == [h EXCEPT !.usedHeapCount = @ - 1]
Freed(h, a) ==
    CountFreed(CombineBackward(CombineForward(MarkFree(h, a), a), a))

(* ExpandHeap: whole pages for size blocks behind the end, then merged with *)
(* a free segment before them.                                              *)
PagesFor(size) == ((size + PageLen - 1) \div PageLen) * PageLen
CanExpand(h, size) == h.heapEnd - 1 + PagesFor(size) <= MaxLen

(* Mutant: the heap's last header stays the one before.                     *)
ExpandedNotLast(h, size) ==
    LET new   == h.heapEnd
        len   == PagesFor(size)
        grown == [h EXCEPT
                    !.seg = [h.seg EXCEPT ![h.lastHdr].next = new,
                                          ![new] = Header(len - HeaderLen, NULL,
                                                          h.lastHdr, TRUE)],
                    !.heapEnd = @ + len, !.heapCount = @ + 1]
    IN  CombineBackward(grown, new)

Expanded(h, size) ==
    LET new   == h.heapEnd
        len   == PagesFor(size)
        grown == [h EXCEPT
                    !.seg = [h.seg EXCEPT ![h.lastHdr].next = new,
                                          ![new] = Header(len - HeaderLen, NULL,
                                                          h.lastHdr, TRUE)],
                    !.lastHdr = new, !.heapEnd = @ + len,
                    !.heapCount = @ + 1]
    IN  CombineBackward(grown, new)

(* The segments a walk from the start meets.  A walk that does not end      *)
(* after MaxLen steps goes in a circle.                                     *)
Chain(h) ==
    LET step[n \in 0 .. MaxLen] ==
            IF n = 0 THEN <<HeapStart>>
            ELSE LET walked == step[n - 1]
                     next   == h.seg[walked[Len(walked)]].next
                 IN  IF next = NULL THEN walked ELSE Append(walked, next)
    IN  step[MaxLen]

(* What HeapCheck asks of every segment, and that the last one ends the     *)
(* heap.                                                                    *)
Linked(h) ==
    LET chain == Chain(h)
    IN  /\ \A i \in DOMAIN chain :
              LET a == chain[i] IN
              /\ h.seg[a].magic
              /\ h.seg[a].last = IF i = 1 THEN NULL ELSE chain[i - 1]
              /\ a + HeaderLen + h.seg[a].length =
                    IF i = Len(chain) THEN h.heapEnd ELSE chain[i + 1]
        /\ h.lastHdr = chain[Len(chain)]
=============================================================================
