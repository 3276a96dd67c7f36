------------------------- MODULE PageFrameAllocator -------------------------
(***************************************************************************)
(* The physical page allocator of the kernel (paging/PageFrameAllocator.cpp *)
(* and paging/bitmap.cpp): one bit per 4096-byte page, a hint at which the  *)
(* next search starts, and three counters kept beside the bitmap.           *)
(*                                                                         *)
(* A page is named by its index in the bitmap, memory is counted in pages,  *)
(* and the bitmap is the set of the indices whose bit is set.  The counters *)
(* are uint64_t in the code; here they are integers, and a value below zero *)
(* stands for the wrapped one.  holders is a history variable: how many     *)
(* callers were given a page and have not freed it.                         *)
(***************************************************************************)
EXTENDS Integers, FiniteSets

CONSTANTS
    MemPages,       \* pages in the memory segment the loader passes on
    ReservedPages,  \* low pages reserved at boot (0x200 in the code)
    BufferPage,     \* page at which the bitmap itself is stored
    BytesPerPage,   \* 4096
    MaxCount        \* bound: the largest request of RequestPages

(* The bitmap has one byte more than whole bytes of pages, so it always has *)
(* bits for pages behind the end of the memory.                             *)
BitmapSize == MemPages \div 8 + 1
NumBits == BitmapSize * 8

Pages == 0 .. (NumBits - 1)
ReservedSet == 0 .. (ReservedPages - 1)
BufferSet == BufferPage .. (BufferPage + BitmapSize \div BytesPerPage)
BootSet == ReservedSet \cup BufferSet

ASSUME AllocatorAssumption ==
    /\ MemPages \in Nat
    /\ ReservedPages \in Nat
    /\ BufferPage \in Nat
    /\ BytesPerPage \in Nat \ {0}
    /\ MaxCount \in Nat \ {0}
    /\ BootSet \subseteq Pages

VARIABLES
    Initialized, bitmap, pageBitmapIndex,
    freeMemory, usedMemory, reservedMemory,
    holders,
    failedCount     \* 0, or the size of the request that ended in Panic

counters == <<freeMemory, usedMemory, reservedMemory>>
pageVars == <<Initialized, bitmap, pageBitmapIndex, freeMemory, usedMemory,
          reservedMemory, holders, failedCount>>

PagesInit ==
    /\ Initialized = FALSE
    /\ bitmap = {}
    /\ pageBitmapIndex = 0
    /\ freeMemory = 0
    /\ usedMemory = 0
    /\ reservedMemory = 0
    /\ holders = [p \in Pages |-> 0]
    /\ failedCount = 0

Held == {p \in Pages : holders[p] > 0}

Booted == Initialized /\ failedCount = 0

(* Bitmap::operator[] and Bitmap::Set accept the index one behind the last. *)
Addressable(i) == i <= NumBits

Run(first, count) == first .. (first + count - 1)

(* Mutant: the run is judged by its first bit only.                         *)
FreeRunsFirstBit(from, count) ==
    {s \in from .. (NumBits - count) : s \notin bitmap}

(* Runs of count clear bits that a scan starting at bit from can complete.  *)
FreeRuns(from, count) ==
    {s \in from .. (NumBits - count) : Run(s, count) \cap bitmap = {}}

IsFirst(s, S) == s \in S /\ \A t \in S : s <= t

(* Mutant: no second scan from bit 0.                                       *)
CandidatesFromHint(count) == FreeRuns(pageBitmapIndex, count)

(* The scan starts at the hint and, if that fails, once more at bit 0.      *)
Candidates(count) ==
    IF FreeRuns(pageBitmapIndex, count) # {}
    THEN FreeRuns(pageBitmapIndex, count)
    ELSE FreeRuns(0, count)

(* Mutant: the counters move, the bit is never set.                         *)
LockPagesCountOnly(pages) ==
    /\ bitmap' = bitmap
    /\ freeMemory' = freeMemory - Cardinality(pages)
    /\ usedMemory' = usedMemory + Cardinality(pages)

(* LockPage returns without counting when the bit is set already.           *)
LockPages(pages) ==
    LET locked == {p \in pages : Addressable(p)} \ bitmap
    IN  /\ bitmap' = bitmap \cup locked
        /\ freeMemory' = freeMemory - Cardinality(locked)
        /\ usedMemory' = usedMemory + Cardinality(locked)

ReadEFIMemoryMap ==
    /\ ~Initialized
    /\ Initialized' = TRUE
    /\ bitmap' = BootSet
    /\ pageBitmapIndex' = 0
    /\ reservedMemory' = Cardinality(ReservedSet)
    /\ usedMemory' = Cardinality(BufferSet \ ReservedSet)
    /\ freeMemory' = MemPages - Cardinality(ReservedSet)
                              - Cardinality(BufferSet \ ReservedSet)
    /\ UNCHANGED <<holders, failedCount>>

(* RequestPage is RequestPages(1): the two loops are the same code.         *)
RequestPages(count) ==
    /\ Booted
    /\ \E s \in Candidates(count) :
          /\ IsFirst(s, Candidates(count))
          /\ LockPages(Run(s, count))
          /\ holders' = [p \in Pages |->
                           IF p \in Run(s, count) THEN holders[p] + 1 ELSE holders[p]]
          /\ pageBitmapIndex' = s + count - 1
    /\ UNCHANGED <<Initialized, reservedMemory, failedCount>>

(* No run was found: the hint is at the end and the kernel panics.          *)
RequestPagesFail(count) ==
    /\ Booted
    /\ Candidates(count) = {}
    /\ pageBitmapIndex' = NumBits
    /\ failedCount' = count
    /\ UNCHANGED <<Initialized, bitmap, counters, holders>>

(* Mutant: the page is given back with the hint left behind the last bit.   *)
FreePageTwice(p) ==
    /\ Booted
    /\ Addressable(p)
    /\ bitmap' = bitmap \ {p}
    /\ pageBitmapIndex' = IF pageBitmapIndex > p THEN p + NumBits + 1 ELSE pageBitmapIndex
    /\ freeMemory' = freeMemory + 1
    /\ usedMemory' = usedMemory - 1
    /\ holders' = [holders EXCEPT ![p] = @ - 1]
    /\ UNCHANGED <<Initialized, reservedMemory, failedCount>>

FreePage(p) ==
    /\ Booted
    /\ p \in bitmap
    /\ Addressable(p)
    /\ bitmap' = bitmap \ {p}
    /\ pageBitmapIndex' = IF pageBitmapIndex > p THEN p ELSE pageBitmapIndex
    /\ freeMemory' = freeMemory + 1
    /\ usedMemory' = usedMemory - 1
    /\ holders' = [holders EXCEPT ![p] = @ - 1]
    /\ UNCHANGED <<Initialized, reservedMemory, failedCount>>

(* The callers free only what they were given.                              *)
PagesNext ==
    \/ ReadEFIMemoryMap
    \/ \E count \in 1 .. MaxCount : RequestPages(count) \/ RequestPagesFail(count)
    \/ \E p \in Held : FreePage(p)

PagesSpec == PagesInit /\ [][PagesNext]_pageVars

-----------------------------------------------------------------------------
(* The types of the variables: the hint never points behind the bit after   *)
(* the last one, whatever was requested and freed.                          *)
PagesTyped ==
    /\ Initialized \in BOOLEAN
    /\ bitmap \subseteq Pages
    /\ pageBitmapIndex \in 0 .. NumBits
    /\ freeMemory \in Int
    /\ usedMemory \in Int
    /\ reservedMemory \in Int
    /\ holders \in [Pages -> Nat]
    /\ failedCount \in 0 .. MaxCount

(* What is locked is exactly what boot took and what the callers hold, and  *)
(* the callers never hold a page boot took: no page is lost and none is     *)
(* handed out while the boot code uses it.                                  *)
Owned ==
    Initialized => /\ bitmap = BootSet \cup Held
                   /\ BootSet \cap Held = {}

LockedIsOwned == PagesTyped /\ Owned

(* No page is ever in the hands of two callers: a run of pages is handed    *)
(* out only if every bit of it was clear, after any sequence of requests of *)
(* any size and frees in any order, wherever the hint was left.             *)
OneHolder == \A p \in Pages : holders[p] <= 1

(* The three counters the OS reports are the numbers of pages of the bitmap *)
(* in each state, after any sequence of requests and frees.                 *)
PageCountersAgree ==
    Initialized => /\ freeMemory = MemPages - Cardinality(bitmap)
                   /\ reservedMemory = Cardinality(ReservedSet)
                   /\ usedMemory = Cardinality(bitmap) - Cardinality(ReservedSet)

(* The kernel panics for lack of memory only when there is no run of free   *)
(* pages of the size asked for anywhere, whatever the hint was.             *)
PanicOnlyWhenFull == failedCount # 0 => FreeRuns(0, failedCount) = {}
=============================================================================
