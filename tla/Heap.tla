-------------------------------- MODULE Heap --------------------------------
(***************************************************************************)
(* malloc and free of the kernel (memory/heap.cpp), called by the kernel's  *)
(* main loop one step at a time and by the interrupt handlers all at once:  *)
(* the handlers run with interrupts off, the main loop does not, and        *)
(* nothing in heap.cpp turns them off.                                      *)
(*                                                                         *)
(* The keyboard handler appends to a queue that doubles when it is full;    *)
(* the timer handler lets the serial manager allocate and free packets.     *)
(* An interrupt arrives between any two steps of the main loop; one inside  *)
(* of a step counts as one before it.  A Panic ends the behaviour.          *)
(***************************************************************************)
EXTENDS HeapSegments, SequencesExt

CONSTANTS
    CacheCount,     \* MallocCacheCount: entries of the malloc cache
    CacheLen,       \* MallocCacheSize in blocks
    Sizes,          \* sizes that callers ask for, in blocks
    MaxHeld,        \* bound: blocks the main loop and the serial manager hold
    MaxKeys         \* bound: capacity of the keyboard queue

Slots == 1 .. CacheCount
Locations == {"idle", "update", "refresh", "lookup", "take", "scan", "split",
              "mark", "expand", "free", "forward", "backward"}

ASSUME HeapCallersAssumption ==
    /\ CacheCount \in Nat /\ CacheLen \in Nat \ {0}
    /\ Sizes \subseteq Nat \ {0}
    /\ MaxHeld \in Nat /\ MaxKeys \in Nat \ {0}

VARIABLES
    h,              \* the segment list
    cache,          \* MallocCache16BytesAddr and ...Free
    mallocToCache,
    pc, want, current, slot,    \* of the main loop: step, size, header, entry
    held,           \* blocks the main loop holds
    keyboard,       \* scancodesToGo: its array, capacity and count
    serial,         \* blocks the serial manager holds
    panic,          \* the message of a Panic, or "none"
    overtaken       \* history: a handler's malloc or free came too late for
                    \* the running call of the main loop (see Overtakes)

main == <<pc, want, current, slot, held>>
vars == <<h, cache, mallocToCache, main, keyboard, serial, panic, overtaken>>

-----------------------------------------------------------------------------
(* malloc and free as functions of the heap and the cache, for a handler.   *)

Take(heap, a, size) ==
    MarkUsed(IF CanSplit(heap, a, size) THEN Split(heap, a, size) ELSE heap,
             a, size)

(* First fit over the list; 0 when nothing fits.                            *)
Fit(heap, size) == SelectInSeq(Chain(heap), LAMBDA a : Fits(heap, a, size))

(* When nothing fits the heap grows, while there is memory.                 *)
GrownFor(heap, size) ==
    IF Fit(heap, size) # 0 \/ ~CanExpand(heap, size) THEN heap
    ELSE Expanded(heap, size)

(* The first fit is taken; block is NULL when there is none.                *)
Served(heap, size) ==
    LET i == Fit(heap, size)
        a == Chain(heap)[i]
    IN  IF i = 0 THEN [h |-> heap, block |-> NULL]
        ELSE [h |-> Take(heap, a, size), block |-> Block(a)]

(* After it has grown the heap malloc calls itself.  A header alone may be  *)
(* missing after one page, never after two.                                 *)
ScanMalloc(heap, size) ==
    Served(GrownFor(GrownFor(heap, size), size), size)

(* UpdateMallocCache in one go: the entries in aged get a new block.        *)
RefreshAll(heap, entries, aged) ==
    LET after[i \in 0 .. CacheCount] ==
            IF i = 0 THEN [h |-> heap, cache |-> entries]
            ELSE LET before == after[i - 1]
                     got    == ScanMalloc(before.h, CacheLen)
                 IN  IF i \in aged /\ got.block # NULL
                     THEN [h |-> got.h,
                           cache |-> [before.cache EXCEPT
                                        ![i] = [addr |-> got.block,
                                                free |-> TRUE]]]
                     ELSE before
    IN  after[CacheCount]

FreeSlots(entries) == {i \in Slots : entries[i].free}

(* The result of malloc in a handler: heap, cache and block.                *)
HandlerMalloc(heap, entries, size) ==
    IF size = CacheLen /\ ~mallocToCache /\ FreeSlots(entries) # {}
    THEN LET i == Min(FreeSlots(entries))
         IN  [h |-> heap, cache |-> [entries EXCEPT ![i].free = FALSE],
              block |-> entries[i].addr]
    ELSE LET got == ScanMalloc(heap, size)
         IN  [h |-> got.h, cache |-> entries, block |-> got.block]

(* The entry of the cache that a block belongs to.                          *)
SlotsOf(heap, entries, block) ==
    {i \in Slots : entries[i].addr = block
                   /\ heap.seg[HeaderOf(block)].length = CacheLen}

FreePanic(heap, entries, block) ==
    IF mallocToCache THEN "Malloc to cache on when trying to free!"
    ELSE IF ~heap.seg[HeaderOf(block)].magic
    THEN "Tried to free invalid Segment!"
    ELSE IF \E i \in SlotsOf(heap, entries, block) : entries[i].free
    THEN "Tried to free already free cache!"
    ELSE IF /\ SlotsOf(heap, entries, block) = {}
            /\ heap.seg[HeaderOf(block)].free
    THEN "Tried to free already free Segment!"
    ELSE "none"

HandlerFree(heap, entries, block) ==
    LET own == SlotsOf(heap, entries, block)
    IN  IF own # {}
        THEN [h |-> heap,
              cache |-> [i \in Slots |-> IF i \in own
                                         THEN [entries[i] EXCEPT !.free = TRUE]
                                         ELSE entries[i]]]
        ELSE [h |-> Freed(heap, HeaderOf(block)), cache |-> entries]

-----------------------------------------------------------------------------
(* SubInitHeap fills the cache, then the keyboard queue is created, both    *)
(* before the timer runs; a boot without memory for them ends in a panic.   *)
Init ==
    LET filled == RefreshAll(FreshHeap,
                             [i \in Slots |-> [addr |-> NULL, free |-> TRUE]],
                             Slots)
        queue  == ScanMalloc(filled.h, 1)
    IN  /\ queue.block # NULL /\ \A i \in Slots : filled.cache[i].addr # NULL
        /\ h = queue.h
        /\ cache = filled.cache
        /\ mallocToCache = FALSE
        /\ pc = "idle" /\ want = 0 /\ current = NULL /\ slot = 0
        /\ held = {}
        /\ keyboard = [arr |-> queue.block, cap |-> 1, count |-> 0]
        /\ serial = {}
        /\ panic = "none" /\ overtaken = FALSE

Running == panic = "none"

Stop(message) ==
    /\ panic' = message
    /\ UNCHANGED <<h, cache, mallocToCache, main, keyboard, serial>>

-----------------------------------------------------------------------------
(* The main loop.                                                           *)

At(location) == Running /\ pc = location
Goto(location) == pc' = location

(* What the running malloc is for: a new block of the cache, or the caller. *)
Request == IF mallocToCache THEN CacheLen ELSE want

CallMalloc(size) ==
    /\ At("idle") /\ ~overtaken
    /\ Cardinality(held) < MaxHeld
    /\ want' = size
    /\ Goto("update")
    /\ UNCHANGED <<h, cache, mallocToCache, current, slot, held, keyboard,
                   serial, panic, overtaken>>

(* UpdateMallocCache: nothing to do, or 200 ms are over.                    *)
UpdateLater ==
    /\ At("update")
    /\ Goto("lookup")
    /\ UNCHANGED <<h, cache, mallocToCache, want, current, slot, held,
                   keyboard, serial, panic, overtaken>>

UpdateNow ==
    /\ At("update")
    /\ mallocToCache' = TRUE
    /\ slot' = 1
    /\ Goto("refresh")
    /\ UNCHANGED <<h, cache, want, current, held, keyboard, serial, panic,
                   overtaken>>

(* Mutant: an entry that is passed is looked at again.                      *)
RefreshNextStuck ==
    /\ At("refresh") /\ slot <= CacheCount
    /\ UNCHANGED vars

(* An entry that is free, or was taken less than 400 ms ago, is passed.     *)
RefreshNext ==
    /\ At("refresh") /\ slot <= CacheCount
    /\ slot' = slot + 1
    /\ UNCHANGED <<h, cache, mallocToCache, pc, want, current, held,
                   keyboard, serial, panic, overtaken>>

RefreshEntry ==
    /\ At("refresh") /\ slot <= CacheCount
    /\ ~cache[slot].free
    /\ current' = HeapStart
    /\ Goto("scan")
    /\ UNCHANGED <<h, cache, mallocToCache, want, slot, held, keyboard,
                   serial, panic, overtaken>>

RefreshDone ==
    /\ At("refresh") /\ slot > CacheCount
    /\ mallocToCache' = FALSE
    /\ slot' = 0
    /\ Goto("lookup")
    /\ UNCHANGED <<h, cache, want, current, held, keyboard, serial, panic,
                   overtaken>>

(* A request of the cached size takes the first free entry of the cache.    *)
Lookup ==
    /\ At("lookup")
    /\ IF want = CacheLen /\ FreeSlots(cache) # {}
       THEN /\ slot' = Min(FreeSlots(cache))
            /\ Goto("take")
            /\ UNCHANGED current
       ELSE /\ current' = HeapStart
            /\ Goto("scan")
            /\ UNCHANGED slot
    /\ UNCHANGED <<h, cache, mallocToCache, want, held, keyboard, serial,
                   panic, overtaken>>

(* Mutant: the entry stays in reserve.                                      *)
TakeEntryKept ==
    /\ At("take")
    /\ held' = held \cup {cache[slot].addr}
    /\ slot' = 0 /\ want' = 0
    /\ Goto("idle")
    /\ UNCHANGED <<h, cache, mallocToCache, current, keyboard, serial,
                   panic, overtaken>>

TakeEntry ==
    /\ At("take")
    /\ cache' = [cache EXCEPT ![slot].free = FALSE]
    /\ held' = held \cup {cache[slot].addr}
    /\ slot' = 0 /\ want' = 0
    /\ Goto("idle")
    /\ UNCHANGED <<h, mallocToCache, current, keyboard, serial, panic,
                   overtaken>>

(* One turn of the loop over the segments.                                  *)
Scan ==
    /\ At("scan")
    /\ IF h.seg[current].magic
       THEN /\ \/ Fits(h, current, Request) /\ UNCHANGED current
                  /\ Goto(IF CanSplit(h, current, Request)
                          THEN "split" ELSE "mark")
               \/ ~Fits(h, current, Request) /\ h.seg[current].next = NULL
                  /\ Goto("expand") /\ UNCHANGED current
               \/ ~Fits(h, current, Request) /\ h.seg[current].next # NULL
                  /\ current' = h.seg[current].next /\ UNCHANGED pc
            /\ UNCHANGED <<h, cache, mallocToCache, want, slot, held,
                           keyboard, serial, panic, overtaken>>
       ELSE Stop("Trying to access invalid HeapSegment Header!")
            /\ UNCHANGED overtaken

(* An interrupt may have used up the segment since it was looked at: Split  *)
(* then finds too little room and malloc goes on with the next segment.     *)
SplitSegment ==
    /\ At("split")
    /\ IF h.seg[current].length - Request - HeaderLen >= 1
       THEN h' = Split(h, current, Request) /\ Goto("mark") /\ UNCHANGED current
       ELSE /\ UNCHANGED h
            /\ IF h.seg[current].next = NULL
               THEN Goto("expand") /\ UNCHANGED current
               ELSE Goto("scan") /\ current' = h.seg[current].next
    /\ UNCHANGED <<cache, mallocToCache, want, slot, held, keyboard, serial,
                   panic, overtaken>>

(* malloc returns: to UpdateMallocCache, or to its caller.                  *)
MarkSegment ==
    /\ At("mark")
    /\ h' = MarkUsed(h, current, Request)
    /\ IF mallocToCache
       THEN /\ cache' = [cache EXCEPT ![slot] = [addr |-> Block(current),
                                                 free |-> TRUE]]
            /\ slot' = slot + 1
            /\ Goto("refresh")
            /\ UNCHANGED <<want, held>>
       ELSE /\ held' = held \cup {Block(current)}
            /\ want' = 0
            /\ Goto("idle")
            /\ UNCHANGED <<cache, slot>>
    /\ current' = NULL
    /\ UNCHANGED <<mallocToCache, keyboard, serial, panic, overtaken>>

(* ExpandHeap, then malloc calls itself.                                    *)
Expand ==
    /\ At("expand") /\ CanExpand(h, Request)
    /\ h' = Expanded(h, Request)
    /\ IF mallocToCache THEN Goto("scan") /\ current' = HeapStart
       ELSE Goto("update") /\ current' = NULL
    /\ UNCHANGED <<cache, mallocToCache, want, slot, held, keyboard, serial,
                   panic, overtaken>>

OutOfMemory ==
    /\ At("expand") /\ ~CanExpand(h, Request)
    /\ Stop("NO MORE RAM!!!!!!!") /\ UNCHANGED overtaken

CallFree(block) ==
    /\ At("idle") /\ ~overtaken
    /\ held' = held \ {block}
    /\ current' = HeaderOf(block)
    /\ Goto("free")
    /\ UNCHANGED <<h, cache, mallocToCache, want, slot, keyboard, serial,
                   panic, overtaken>>

Free ==
    LET block   == Block(current)
        message == FreePanic(h, cache, block)
        freed   == HandlerFree(h, cache, block).cache
    IN  /\ At("free")
        /\ UNCHANGED overtaken
        /\ IF message # "none" THEN Stop(message)
           ELSE /\ IF SlotsOf(h, cache, block) # {}
                   THEN /\ cache' = freed
                        /\ current' = NULL
                        /\ Goto("idle")
                        /\ UNCHANGED h
                   ELSE /\ h' = MarkFree(h, current)
                        /\ Goto("forward")
                        /\ UNCHANGED <<cache, current>>
                /\ UNCHANGED <<mallocToCache, want, slot, held, keyboard,
                               serial, panic>>

FreeForward ==
    /\ At("forward")
    /\ h' = CombineForward(h, current)
    /\ Goto("backward")
    /\ UNCHANGED <<cache, mallocToCache, want, current, slot, held,
                   keyboard, serial, panic, overtaken>>

FreeBackward ==
    /\ At("backward")
    /\ h' = CountFreed(CombineBackward(h, current))
    /\ current' = NULL
    /\ Goto("idle")
    /\ UNCHANGED <<cache, mallocToCache, want, slot, held, keyboard, serial,
                   panic, overtaken>>

(* HandleKeyboardList takes a scancode from the queue.                      *)
HandleKey ==
    /\ At("idle") /\ ~overtaken /\ keyboard.count > 0
    /\ keyboard' = [keyboard EXCEPT !.count = @ - 1]
    /\ UNCHANGED <<h, cache, mallocToCache, main, serial, panic, overtaken>>

-----------------------------------------------------------------------------
(* The interrupt handlers.                                                  *)

(* A call of malloc or free by a handler overtakes the running call of the  *)
(* main loop when it changes what that call has read, or comes while it is  *)
(* changing the list: the segment that the search has reached was merged    *)
(* away; the entry it will take from the cache was taken; a segment is      *)
(* chosen but not yet marked; the heap grows; a free segment is not yet     *)
(* merged; malloc is filling the cache.                                     *)
Overtakes ==
    \/ mallocToCache
    \/ pc \in {"split", "mark", "expand", "forward", "backward"}
    \/ pc = "scan" /\ current \notin ToSet(Chain(h'))
    \/ pc = "take" /\ ~cache'[slot].free

(* Bound: a behaviour is followed until the overtaken call has returned.    *)
Interrupted == Running /\ ~overtaken

(* malloc of a handler first refreshes the cache when its time has come.    *)
Refreshed(aged) ==
    IF mallocToCache THEN [h |-> h, cache |-> cache]
    ELSE RefreshAll(h, cache, aged)
Aged == SUBSET (Slots \ FreeSlots(cache))

KeyStored ==
    /\ Interrupted /\ keyboard.count < keyboard.cap
    /\ keyboard' = [keyboard EXCEPT !.count = @ + 1]
    /\ UNCHANGED <<h, cache, mallocToCache, main, serial, panic, overtaken>>

(* The queue is full: Resize allocates twice its size and frees the old.    *)
KeyStoredResized(aged) ==
    LET start == Refreshed(aged)
        got   == HandlerMalloc(start.h, start.cache, 2 * keyboard.cap)
        after == HandlerFree(got.h, got.cache, keyboard.arr)
        why   == FreePanic(got.h, got.cache, keyboard.arr)
    IN  /\ Interrupted /\ keyboard.count = keyboard.cap
        /\ 2 * keyboard.cap <= MaxKeys
        /\ IF got.block = NULL THEN Stop("NO MORE RAM!!!!!!!")
           ELSE IF why # "none" THEN Stop(why)
           ELSE /\ h' = after.h /\ cache' = after.cache
                /\ keyboard' = [arr |-> got.block, cap |-> 2 * keyboard.cap,
                                count |-> keyboard.count + 1]
                /\ UNCHANGED <<mallocToCache, main, serial, panic>>
        /\ overtaken' = Overtakes

(* The serial manager does nothing while the cache is being refreshed.      *)
PacketAllocated(size, aged) ==
    LET start == Refreshed(aged)
        got   == HandlerMalloc(start.h, start.cache, size)
    IN  /\ Interrupted /\ ~mallocToCache
        /\ Cardinality(serial) < MaxHeld
        /\ IF got.block = NULL THEN Stop("NO MORE RAM!!!!!!!")
           ELSE /\ h' = got.h /\ cache' = got.cache
                /\ serial' = serial \cup {got.block}
                /\ UNCHANGED <<mallocToCache, main, keyboard, panic>>
        /\ overtaken' = Overtakes

PacketFreed(block) ==
    LET why   == FreePanic(h, cache, block)
        after == HandlerFree(h, cache, block)
    IN  /\ Interrupted /\ ~mallocToCache
        /\ IF why # "none" THEN Stop(why)
           ELSE /\ h' = after.h /\ cache' = after.cache
                /\ serial' = serial \ {block}
                /\ UNCHANGED <<mallocToCache, main, keyboard, panic>>
        /\ overtaken' = Overtakes

-----------------------------------------------------------------------------
MainStep ==
    \/ UpdateLater \/ UpdateNow
    \/ RefreshNext \/ RefreshEntry \/ RefreshDone
    \/ Lookup \/ TakeEntry
    \/ Scan \/ SplitSegment \/ MarkSegment
    \/ Expand \/ OutOfMemory
    \/ Free \/ FreeForward \/ FreeBackward

Handler ==
    \/ KeyStored
    \/ \E aged \in Aged :
          \/ KeyStoredResized(aged)
          \/ \E size \in Sizes : PacketAllocated(size, aged)
    \/ \E block \in serial : PacketFreed(block)

Next ==
    \/ MainStep
    \/ \E size \in Sizes : CallMalloc(size)
    \/ \E block \in held : CallFree(block)
    \/ HandleKey
    \/ Handler

(* The processor does not stop inside malloc or free.                       *)
Spec == Init /\ [][Next]_vars /\ WF_vars(MainStep)

-----------------------------------------------------------------------------
Blocks == (HeapStart + HeaderLen) .. MaxLen

(* The types of the variables.                                              *)
TypeOK ==
    /\ h.seg \in [Addresses -> [length : 0 .. MaxLen, next : 0 .. MaxLen,
                                last : 0 .. MaxLen, free : BOOLEAN,
                                magic : BOOLEAN]]
    /\ h.lastHdr \in Addresses
    /\ h.heapEnd \in HeapStart .. (MaxLen + 1)
    /\ cache \in [Slots -> [addr : Blocks, free : BOOLEAN]]
    /\ mallocToCache \in BOOLEAN
    /\ pc \in Locations
    /\ want \in Sizes \cup {0}
    /\ current \in Addresses \cup {NULL}
    /\ slot \in 0 .. (CacheCount + 1)
    /\ held \subseteq Blocks /\ serial \subseteq Blocks
    /\ keyboard \in [arr : Blocks, cap : 1 .. MaxKeys, count : 0 .. MaxKeys]

(* The counters that the memory display shows never wrap, and between calls *)
(* they are those of the list, until a handler has overtaken malloc or free.*)
CountersAgree ==
    ~overtaken =>
       /\ h.heapCount \in Nat /\ h.usedHeapCount \in Nat
       /\ h.usedHeapAmount \in Nat
       /\ pc = "idle" =>
             LET segments == ToSet(Chain(h))
                 used     == {a \in segments : ~h.seg[a].free}
             IN  /\ h.heapCount = Cardinality(segments)
                 /\ h.usedHeapCount = Cardinality(used)
                 /\ h.usedHeapAmount =
                        MapThenSumSet(LAMBDA a : h.seg[a].length, used)

(* The conditions HeapCheck tests by hand: headers are where their          *)
(* neighbours say, links match in both directions, the last one ends the    *)
(* heap.  They hold at every step of malloc and free, not only between,     *)
(* until a handler has overtaken one.  Between calls two neighbours are     *)
(* never both free: no request fails for memory that is free but in pieces. *)
HeapLinked ==
    ~overtaken =>
       /\ TypeOK
       /\ Linked(h)
       /\ pc = "idle" =>
             LET chain == Chain(h)
             IN  \A i \in 1 .. (Len(chain) - 1) :
                     ~(h.seg[chain[i]].free /\ h.seg[chain[i + 1]].free)

(* Everybody who was given a block and did not free it.                     *)
Reserve == {cache[i].addr : i \in FreeSlots(cache)}

(* Every block in use, and every block the cache holds in reserve, has one  *)
(* owner, and lies in a segment of the list that is not free: no memory is  *)
(* given to two callers, and none that is in use can be given again, until  *)
(* a handler has overtaken malloc or free.                                  *)
NoDoubleGrant ==
    ~overtaken =>
       /\ held \cap serial = {}
       /\ keyboard.arr \notin held \cup serial
       /\ Reserve \cap (held \cup serial \cup {keyboard.arr}) = {}
       /\ Cardinality(Reserve) = Cardinality(FreeSlots(cache))
       /\ \A block \in held \cup serial \cup Reserve \cup {keyboard.arr} :
             /\ HeaderOf(block) \in ToSet(Chain(h))
             /\ ~h.seg[HeaderOf(block)].free

(* Callers that free only what they hold run into no panic of the heap,     *)
(* except the one for memory that is used up, until a handler has overtaken *)
(* malloc or free.                                                          *)
OnlyMemoryPanics == ~overtaken => panic \in {"none", "NO MORE RAM!!!!!!!"}

(* malloc and free end, overtaken or not: the loop over the segments, the   *)
(* refresh of the cache and the repeated expansion all come to an end.      *)
CallsReturn == (pc # "idle") ~> (pc = "idle" \/ ~Running)
=============================================================================
