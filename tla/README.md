# Verification of MaslOS

TLA+ models of the kernel in `src/kernel/kernel/src` (called `K/` below), the
TLC runs that check them and TLAPS proofs about them. `PROJECT.json` maps every
definition to the lines it stands for and lists the runs, the mutants that show
each property can fail, the hazards and the theorems.

## 1. The system

MaslOS is a kernel for x86-64 that runs everything in one address space. There
are no processes: a **main loop** (`K/kernel.cpp`) handles the keyboard, moves
and draws windows, runs tasks one step at a time, and never blocks except in
sleeps. It is interrupted by the **timer** (which lets the serial manager work),
the **keyboard** and the **mouse**. Interrupts are on from the end of the boot
(`kernelStuff/stuff/kernelUtil.cpp:421`) and are never turned off again by the
main loop; a handler itself runs with interrupts off. So the only concurrency is
that of a handler, all at once, between any two instructions of the main loop.

| Component | State | Operations | Interacts with | Hard behaviour |
|---|---|---|---|---|
| page allocator (`paging/PageFrameAllocator.cpp`) | bitmap, search hint, three counters | boot, request one or several pages, free | heap, page tables | hint left anywhere, counters beside the bitmap |
| page tables (`paging/PageTableManager.cpp`) | four levels of tables | map | page allocator | levels created on demand |
| heap (`memory/heap.cpp`) | doubly linked segments, malloc cache, counters | malloc, free, grow, refresh the cache | everybody, handlers included | not reentrant; cache entries that are forgotten and refilled |
| queue, list (`cStdLib`) | ring of a growing array; growing array | enqueue, dequeue, resize; insert, remove | keyboard, mouse, serial manager; everybody | written by handlers, read by the main loop; unsigned loop variables |
| disk interfaces (`kernelStuff/diskStuff/Disk_Interfaces`), AHCI driver (`devices/ahci`) | sectors on SATA, in RAM, in a file; one page for transfers | read, write sectors or bytes | MRAPS, MRAFS | bytes cut into sectors, sectors into pages; failures between two commands |
| MRAPS (`.../Partition_Interfaces/mraps`) | list of partitions, table and signature on the disk | create, resize, delete, save, load | disk, MRAFS, terminal | saved only on request, in two writes |
| MRAFS (`.../Filesystem_Interfaces/mrafs`) | extents, files, folders, table on the disk | create, write, copy, rename, delete | MRAPS (bounds), applications | several disk writes in a call, each may fail; power loss; a folder call is many calls with a save each |
| serial manager (`serialManager`) | packets in and out, partial packet, connection | send, receive, init, state | timer interrupt, TCP, screen sharing | frames in pieces over many interrupts; ports that close with packets queued |
| TCP (`network/tcp`) | connected ports, packets, unread bytes of each | connect, send, read, disconnect | serial manager | two lists side by side, filled by a handler while they are read |
| timer (`devices/pit`) | ticks, divisor | sleep, time since boot | heap, serial manager, tasks | rounding; time read while it advances |
| input (`userinput`) | keyboard queue, mouse packet in the making | handler stores, main loop takes | queue, windows | handler against main loop |
| tasks (`tasks`) | a list of steps to do | do one step | file system, windows, TCP | a file that changes between two steps |
| MAAB memory (`tasks/maab/maabMem`) | segments inside a program's buffer | malloc, free | MAAB interpreter | the program frees what it likes; old headers stay behind |
| windows and their tasks (`kernel.cpp`, `WindowStuff`, `tasks`) | the list of windows, each with an instance, callbacks and tasks; tasks of the system | open, close, run tasks in rounds, start and stop programs, survive a fault | input, commands, MAAB programs | closing what is still referred to; blocks used again; who tells whom; a frame without time |
| the screen (`WindowStuff/WindowManager`, `kernel.cpp`) | for each pixel a pointer to what is shown there; order, focus, place and size of windows | draw only the rectangles that changed | input, commands | pointers into buffers that are freed; several changes in one frame |
| call trace (`osData/MStack`) | two stacks | push, pop on every call | everybody | handlers push and pop too |
| audio, applications, MAAB instructions, archives, ACPI, PCI, RTC, terminal, games | | | | not modelled, see section 7 |

What makes each correct: the allocators never give one piece of memory to two owners
and lose none, and merge what was freed; a queue is a FIFO; partitions and extents
tile their area and a file has its own; a file reads as it was last written,
whatever failed or crashed meanwhile; what is reported as saved is on the disk; a
call on a folder is one step on all it holds; a byte of the disk changes only by a
write of that byte; no pixel of the screen leads to a window that is gone, and the
screen shows what the order of the windows says; every call returns and every request to close is
served.

## 2. The plan

In this order; the first eleven are done.

1. `PageFrameAllocator`, all of whose invariants `AllocatorProofs` proves.
2. `Extents`, `FSPartitionList`, `Mrafs`: extents, files, crash and failure.
3. `Mraps`: the partition table, crash between its two writes.
4. `HeapSegments`, `Heap`: malloc and free, with interrupt handlers (proofs in
   `AllocatorProofs` as well).
5. `Fifo`, `RingQueue`, and in `ChannelProofs` that the one implements the other.
6. `MaabMem`: the allocator inside a MAAB program (proofs in `ProgramProofs`).
7. `SerialManager` (framing, queues, routing, INIT and STATE exchange, over a line
   that cuts the stream anywhere) and `Tcp`, which takes its packets from it (proofs
   in `ChannelProofs`).
8. `WindowTasks`: the main loop, and the life of windows, terminals, tasks and
   programs (proofs in `ProgramProofs`).
9. `Compositor`, `CompositorProofs`: the screen made of pointers, drawn rectangle by
   rectangle.
10. `ByteDisk`, `DiskBytes`: bytes of a drive, and that sectors, pages and commands
    that fail implement them (`DiskProofs`, with those of `Mraps`).
11. `FolderTree`, `MrafsFolders`: what a call on files and folders promises, and
    that the recursion over files and folders keeps it through failures
    (`FoldersProofs`).
12. `QueueIrq`: the main loop's `Dequeue` in its single loads and stores against
    `Enqueue` and `Resize` of a handler, over `RingQueue`, and what follows when they
    meet; the same for what follows an `overtaken` call on the lists that the serial
    manager and TCP share with the main loop.
13. `Drive`, which composes `Mraps` and `Mrafs`: a partition that is resized under
    its file system, a table torn by a power loss between two commands of `DiskBytes`.
14. `FileTasks` (reading and writing a file step by step while others change it) and
    `PageTables` (over the page allocator).

Theorems: every safety invariant and action property and every refinement that a run
of items 1 to 11 checks is proved, see section 6. The modules above are written for
proofs: no RECURSIVE operator in those that proofs are about, recursion as functions,
parameters with named assumptions. Of what is planned, the first theorem worth
proving is of `QueueIrq`: under which masking of interrupts `RingQueue`, with its
calls in single loads and stores, still implements `Fifo`.

## 3. The modules

**`PageFrameAllocator`, `AllocatorProofs`.** A page is its index, the bitmap is the set of indices
whose bit is set, and memory is counted in pages. The scan of `RequestPages` is
abstracted to its result: the first run of clear bits from the hint on, or else
from 0. `RequestPage` is `RequestPages(1)`. `holders` is a history variable: how
many callers were given a page. The model keeps that the bitmap has bits behind
the last page, and that those are handed out. Callers free only pages they hold;
`FreePages` is a number of `FreePage` steps. `failedCount` remembers the request
that ended in the panic; nothing happens after it. `AllocatorProofs` has the proofs
about this allocator and about the heap, `ProgramProofs` those about the memory, the
windows and the tasks of programs, and `ChannelProofs` those about `RingQueue`,
`SerialManager` and `Tcp`: modules that one proof module extends together have names
of their own (`PagesInit`, `TcpInit`, `SerialNext`, `driveVars`).

Where the code goes on with memory that is no longer what it takes it for, a model
would have to follow whatever lies there. `Heap`, `MaabMem`, `SerialManager`, `Tcp`,
`WindowTasks` and `DiskBytes` have every such step of the code, and a variable that
says it has come (`overtaken`, `spoilt`, `between`, "astray", `overrun`); the safety
properties are about all that comes before it, and say so in their formulas. Nothing
keeps a behaviour from it: no constant and no guard. Section 5 says which steps these
are.

**`Extents`, `FSPartitionList`, `Mrafs`, `MrafsProofs`, `MCMrafs`.** `FSPartitionList` has the
list operations of MRAFS as pure operators. `Mrafs` has one action for each call
up to its next disk access, and one for each disk access: `pc` names it ("data"
for the write of a file, "table" for a save, "create" and "copy" for the save
and the read in the middle of `CopyFile`). A call is not interrupted by another
one, as all callers are in the main loop, but `Crash` may come at any `pc`, and
a disk access may fail when `DiskOutcomes` says so. `expected` is a history
variable, the bytes the callers last put into each file; `stale` are the files
whose extent a failed write has freed, and `harmed` says that such a file was
written or deleted afterwards. A load clears the lists before it reads; all its early
returns leave them empty (`TableUnread`, remembered in `unread`), the callers at boot
ignore its answer, and the next save puts the empty lists in place of the table. `MCMrafs` adds symmetry over paths and bytes.

**`Mraps`, `DiskProofs`.** The list in memory, the signature and the table on the disk.
`Deleted`, `Shrunk` and `Grown` are the edits `DeletePartition` and
`ResizePartition` make, which call each other. A save is two steps,
`WriteSignature` and `WriteTable`. `Crash` forgets the list; `Attach` is what the
AHCI driver does at boot, or, for a blank drive, the terminal command. A load that
fails leaves the list empty. The disk stores what is written, as the SATA interface does. `emptied` is a history
variable: a partition has had the size zero. `DiskProofs` has the proofs about
`Mraps` and about `DiskBytes`.

**`HeapSegments`, `Heap`, `AllocatorProofs`.** `HeapSegments` has the segment list as a record of
headers by address: a header is in the memory that it describes, and one that
was merged away stays there, magic number and all. `Heap` has malloc, free and
the cache refresh of the main loop in steps (`pc`), and of the interrupt
handlers as one step each: the keyboard handler stores a scancode and doubles
the queue's array when it is full; the timer handler lets the serial manager
allocate a packet or free one, and does nothing while the cache is refreshed, as
in the code. Handlers come between any two steps of the main loop. One whose malloc or
free changes what the main loop's call has read, or comes while that call is changing
the list, sets `overtaken` (the operator `Overtakes`).
Time is left out: a cache entry may or may not be old enough. A panic ends the
behaviour, although the kernel survives some; so nothing is said about what
follows one.

**`Fifo`, `RingQueue`, `ChannelProofs`.** `Fifo` is a sequence of waiting
items, the item last taken, and whether the queue is open, freed or has stopped
its caller. `RingQueue` has the members of `Queue<T>` and one action for each
call; growing is part of `Enqueue`. The items in the ring (`Contents`) are read
from the head on around the end of the array. What a new array holds is
`NoItem`, so an item read from a slot that nobody wrote would show.

**`MaabMem`.** `seg` is what a header read at each address of the buffer would
say; merging leaves the old header there with its magic number, and only a write
over it (of the program, or of a split) removes it. The program frees any
address, its own or not, and writes any bytes of the buffer: `WriteBytes` changes one
unit of 8 bytes, in part or whole. The flag and the magic number of a header lie in
its last unit (`maabMemHandler.h:17`, `:21`), so after the write that header looks
like one in use (only its flag was cleared, or both were written) or like one that
`FreeMem` refuses. `forged` has the places of the former. `WriteHeader` writes over a
header of the list and `FreeLookAlike` frees behind a look-alike: both are in the
code, and from there on (`spoilt`) nothing is said. The addresses are multiples of 8
bytes.

**`SerialManager`, `MCSerialManager`.** `pc` is "main" while no interrupt is under
way; the timer interrupt is `CheckForClient` or `DoStep` and then `ReceiveByte` and
`SendByte`, `BeginPacket` or `SendDone` up to `Burst` times each. The code does five
such rounds in one interrupt of a hundred bytes each; here a round is an interrupt,
so the main loop may run between any two of them. The main loop's calls are cut where
an interrupt matters. `SendPacket`: the check of the port (`WritePacket`), then the
`Enqueue` (`EnqueueBegins`, `WriteQueued`). `Serial::Write`: the question whether there
is a client, for the string (`WriteString`) and again for each byte (`WriteChar`), then
the packet or the byte on the line (`WriteRaw`). `Serial::Read`: the rest of a packet
(`ReadOn`), or `GetPacket` place by place (`ReadBegins`, `GetPacketOn`, `GetPacket`)
and its `RemoveAt` (`Read`), or without a client a byte of the buffer or the line
(`ReadRaw`). `overtaken` says that an interrupt changed the queue within an `Enqueue`,
the places of the list within a search, or the list within a `RemoveAt`, or that the
main loop read a byte that the interrupt was to have; it ends the behaviour.
`intruded` says that a byte went onto the line after the client was there. Each field of a header is one byte, so the TCP ports have other
numbers; the port order, the signature with its comparison byte by byte, and the
limit on the length are those of the code. `toKernel` is what is on the line,
`toHost` all that went out. The host is external: it sends its signature once,
frames only after it was answered, and single bytes at any time, but none that
begins a signature, no packet without data for the raw port, and INIT and STATE
packets with their byte. The line loses nothing.

**`Tcp`, `MCTcp`.** `receivedPackets` and `receivedPacketsRemainingCount` are the
two lists; `DoStep` is one action for each packet, as the interrupt is not
interrupted (`HandleCommandPacket`, `AddPacket`), and may come between any two
steps of `ReadData`: at each packet, between the two removals of `RemovePacketAt`, and
within each of these: `List::RemoveAt` first moves the elements down (`RemovePacket`,
`RemoveCount`), then decrements its count (`DropPacket`, `DropCount`). The kernel is
built without optimisation, so the decrement is a load and a store, and a packet added
since the load is counted or not (`CountedDown`). `between` counts the packets that
came within a `RemoveAt`; the read under way is not followed further then. Growing the array
of a list beyond its first fifty places is left out. A packet has its port, its data and what its LEN says, at most
the data. `arrived` and `got` are history variables.

**`WindowTasks`, `ProgramProofs`.** A window is the address of its block; a block that is freed may
be the next window's, while close tasks, the queue of windows to activate, the
taskbar and the active window still hold the address. Raising a window that was
queued (`Activate`, `kernel.cpp:213-223`) and a click on a tab (`ClickTab`,
`mouse.cpp:554-558`) write through that address after a comparison with NULL only, so
they do here: into the window that has the block by now, or into a block that is free,
which is `pc` "astray" (`Used`), and is followed no further. Keys use the active
window; it is open as long as nothing went astray, which is part of `TypeOK` and
proved. Dragging (`dragWindow`) is left out here. `pc` is where the main loop
is in a frame: "keys" (`HandleKeyboardList`), "mouse" (`HandleClick`), "run" (the
rounds of the tasks; `toVisit` are the windows this round has still to visit). The
terminals' tasks are commands (`Enter`) and MAAB programs; a program's steps are
what it does with windows, its end and its fault. The task that closes a window
(`Close`) is that of `taskWindowClose.cpp`, callbacks included. `ProgramFaults` is
a fault that the kernel survives: the tasks of the active terminal are dropped,
whoever faulted, and never freed ("leaked"; the one that did is "faulty"), all
windows are hidden, and `RecoverDed` goes back to the main loop;
when `crashesLeft` is used up the kernel halts. `AnotherRound` and `EndFrame` are
both possible after each round, as the clock decides which.

**`Compositor`, `CompositorProofs`.** The virtual screen is an array of pointers: here each pixel has
the window it points into, the place there, and which of two successive frame
buffers of that window. The actions are the updates of a frame in their order
(`Activate`, `UpdateWindow` for each window from the back, `UpdateTaskbar`,
`Render`) and, before and after them, whatever clicks, keys, commands, programs and
applications do at once, by `UpdatePointerRect` with the corners that the code gives
it. The screen is one line of pixels; a window has a border pixel at each end, the
last pixel is the taskbar. `overdrawn` is a history variable, the windows that the
command `set window size` drew over those in front of them.

**`ByteDisk`, `DiskBytes`.** `ByteDisk` says what reading and writing bytes
promises: no byte changes but those of the call, a success has done all of it, a
failure or a loss of power any part. `DiskBytes` has `ReadBytes` and `WriteBytes`
of the SATA interface and `Write` of whole sectors, one action for each command of the
AHCI driver: the first and the last sector of a write are read and written back in
this order, the middle goes through a page of `ChunkLen` sectors. A command fails
because the drive refuses it (`Accepted`) or by itself (`fault`), with any of its
sectors written. A command for no sectors asks the drive for `FullCount` of them,
65536 by ATA: a small drive refuses it, a large one carries it out, reading to or
writing from the memory behind the page (`Trampled`, `overrun`). `Span` is the width
in which the code computes the size of the drive. A byte is known by the write that stored it and the place it was
meant for, so a byte in a wrong place shows.

**`FolderTree`, `MrafsFolders`, `MCMrafsFolders`, `FoldersProofs`.** `FolderTree` says that each
call, on a folder too, is one step on a tree: all that lies below goes along,
except what has its new place taken. `MrafsFolders` has the code's recursion,
with a stack of folder calls (`calls`): first each file, then each folder, then
the folder itself, each inner call with a save of the whole table, its answer
ignored. `lists` is what the code has in memory, `table` what is on the disk. One
action is one inner call up to its save, `CopyContents` the second half of copying a
file; any save may fail and the power may go between any two actions; the load at the next
boot succeeds here (`Mrafs` has the one that fails).
The order of the lists is open. The contents of a file are told apart by
the path it was created with; `Broken` is a copy whose contents did not arrive.
Extents are left to `Mrafs`. `seen` is what the user saw at the last answer: the
refinement takes it for the tree, so that what happens between two answers is
hidden. `doomed` (contents that a call was asked to delete), `goal` (a rename or
delete that began with everything saved, and what it was to achieve) and `astray`
(an entry may be in a folder that does not exist) are history variables.

**`SequenceLemmas`.** What the proofs share: elements, positions and lengths of a
sequence after an insertion or a removal, prefixes and images of sequences, what a
flattened sequence of sequences gives, least elements of sets of numbers, and that a
list of extents in which one is cut in two, two are merged or the border between two
is moved still tiles its area. All proof modules use them.

Each module has its mutants beside the definition they change; a comment that
begins with "Mutant" says which bug they stand for.

## 4. The runs

| Run | Question | States |
|---|---|---|
| `page_frames` | is a page ever lost or given twice, do the counters agree, does it panic only when it must | 46 thousand |
| `mrafs` | do extents tile and belong to files, do contents survive, is anything leaked or left unmerged, with crashes and when any disk access may fail, those of a load too | 470 thousand |
| `mraps` | do partitions tile, does an edit leave the others alone, are undefined neighbours combined, with failures, crashes and sizes of zero | 145 thousand |
| `heap` | links, ownership, counters, merging, no panic but for memory, every call returns, with handlers between any two steps | 206 thousand |
| `ring_queue` | is the ring a FIFO, wherever its head is when it grows | 27 thousand |
| `serial_manager` | are frames received and sent whole and in order, is a closed port left alone, does everything get through, with interrupts inside the calls of the main loop | 365 thousand |
| `tcp` | are the bytes of each port read once and in order, does a short read leave none, with packets that come in within a removal | 620 thousand |
| `maab_memory` | do segments tile the buffer, is anything freed that the program does not hold, whatever bytes it writes | 124 thousand |
| `window_tasks` | do callbacks, programs, terminals and windows stay paired while blocks are used again, is every window that is to close closed, through stale pointers too, with faults of programs | 135 thousand |
| `compositor` | does a pixel ever point to what is gone, does the screen show what the order of the windows says | 980 thousand |
| `disk_bytes` | do sectors, pages and failing commands implement bytes, and does a call fail only for a cause, on a drive that accepts a count of zero too | 294 thousand |
| `mrafs_folders` | is a folder call one step on all it holds, is a file ever lost from the disk, can a call that was cut off be made again | 800 thousand |

**Bounds.** *Page allocator*: 13 pages, so 16 bits, two reserved pages and a bitmap
that overlaps them, runs of 1 to 3: runs at the end, runs across the hint and the
bits behind the memory all occur. *MRAFS*: a data area of four bytes, two paths and
two byte values: two files of one or two bytes with one free extent before, between
or behind them, refusals for lack of space, and a file that would end on the last
byte, which the bounds check of the partition excludes. The table area of 145 bytes
holds two files with their extents, but not with one extent more, so saves that fail
for size occur as well. `MaxExtents` is 8, more than can occur here. Files are
created empty, but not given an extent of size zero: with the sizes 0, 1 and 2 the
states are too many. *MRAPS*: 44 bytes with sectors of 2, so 4 bytes behind the
table and up to 4 partitions with room there; entries of 5 bytes let five partitions
be saved and six not (`MaxPartitions` is seven). *Heap*: segments and pages of a few
blocks, a cache of one entry, two blocks for the main loop and two for the serial
manager, a keyboard queue that doubles once, and memory for two pages of growth:
splitting, exact fits, merging on both sides, growth twice in one call, and running
out of memory occur. *Queue*: two places at first and at most five items, so the
array grows twice, each time with the head anywhere; two items tell any wrong order
apart, as `Fifo` compares the whole contents. *MAAB*: 31 units of 8 bytes, a header
of five as in the code, blocks of two, four and six: up to four segments, exact
fits, splits whose rest is just too small, and old headers hit by later ones; one
header at a time that the program has made look like one in use (`MaxForged`), so
that merges, splits and calls of `FreeMem` meet it.
*Serial manager*: a signature of two bytes (a first and a later one are enough for
each branch), bursts of five, shorter than every frame, so that frames lie across
interrupts in all ways; two packets or bytes of the host after its signature
(`MaxSent`) out of seven kinds (both INITs, opening and closing the raw port, data that
contains the signature, data for TCP, single bytes), one byte before it (`MaxTyped`),
and one packet or byte of the main loop (`MaxWritten`): each step of an interrupt can
come between any two of a call of the main loop. A second packet of the host is what
it takes for one that is dropped or taken away in the middle of such a call. *TCP*: two ports, packets of one and two bytes of which LEN counts all or
fewer, three packets or commands, reads of one byte and of three: reads that end
inside a packet, at its end and behind several, with packets that come before,
between and within the two removals. *Window tasks*: three blocks, so
that a program has two windows beside its terminal and blocks are used again at
once, one program that is started again and again, two window calls of programs, one
key or click beside the commands (each key and click needs one only to come at any
moment of what the program and the close tasks do) and one fault before the kernel
halts. *Compositor*: four pixels and the taskbar, three windows of up to two pixels
that overlap fully, in part (borders included) or not at all, or lie over the edge;
four inputs in any order, some of them in one batch before a frame. *Disk bytes*:
sectors of three bytes, pages of two sectors and a drive of five, on which a count of
zero means three (`FullCount`), so that the drive carries it out near its beginning and
refuses it near its end; the product for the size of the drive does not wrap (`Span`
is 16): every range within the drive and one byte or sector behind it, so ranges inside a sector, across two, and with up
to three sectors in the middle, full pages and partial ones; one call that writes
and any number that read, since a later write depends on nothing an earlier one left
but the bytes. *Folders*: paths of up to three names, with two folders at the top
that may each have files and folders with folders in them; any closed table of up to
three entries at boot, up to six entries, two calls, two failed saves or losses of
power: a retry after a cut, a cut in the retry, and calls on the rest of an earlier
one.

**`CHECK_DEADLOCK FALSE`** is set for the page allocator, the heap, the queue and
the window tasks (a panic ends each, and so does an interrupt that overtakes a call,
or a use of a freed block), TCP (a packet within a `RemoveAt` ends the read), MRAFS
(`MaxExtents`) and its folders (`MaxCalls`, `MaxFaults`). The others can always go on.

**Fairness.** `CallsReturn` of `Heap` is checked under weak
fairness of `MainStep`, the steps of a malloc or free that has begun: nothing in
`heap.cpp` waits, so the processor just goes on. Callers need not call again and
interrupts need not come. If they do come, each is one step, and the main loop
goes on behind it, an overtaken call as well. `AllGetsThrough` of `SerialManager` is checked under weak
fairness of `Timer`: the timer is started at boot and never stopped, its handler
calls `DoStuff` each time, which does nothing only while the heap's cache is
refreshed, and that ends as `CallsReturn` shows. Nothing is assumed of the main
loop, which may have checked a packet and not put it into the queue, nor of the
host; what an interrupt has overtaken is excepted (section 3). `CloseServed` and `ApplicationsClose` of `WindowTasks` are checked under weak
fairness of `RenderLoop`, which is a loop without waits, and strong fairness of
`EndFrame`: the clock goes on during the rounds, so a frame cannot have rounds
forever. Nothing is assumed of keys, clicks, commands and programs. Both are about
behaviours in which no freed block is used and the kernel does not halt.

## 5. What the checks show

The heap keeps its list and its counters, never gives a block twice, merges all free
neighbours and panics only when memory is used up, though the cache forgets blocks
that are still in use, as long as no handler overtakes a call of the main loop. That
is: handlers may allocate and free between calls, before the cache is looked at, at
the start of a free, and during the search unless they merge away the segment that it
has reached or take the entry of the cache that it has chosen. Nothing in the kernel keeps them out of the other places. One that
allocates between the choice of a segment and its marking (`heap.cpp:464`) is given
the same segment; one that merges away the segment of the search leaves the search on
a header that is no longer one of the list; one that comes while the heap grows or
before a free has merged works on a list of which the main loop has read the old
links, which ends in the panic of `_Xfree` for a state that should be impossible
(`heap.cpp:587`), and a key that fills the keyboard queue while malloc fills its cache
frees the old array into the assertion of `heap.cpp:534`. From there on `overtaken` is
set; `CallsReturn` holds for such a call, too. Some of these steps break nothing by
themselves in so small a heap: before the last step of a free it takes two handlers
that free both neighbours, and five segments.

In MRAFS the extents tile the partition whatever fails. A failed `WriteFile` for
lack of space leaves the file pointing to an extent that is free again
(`mrafsFileSystemInterface.cpp:1094-1100`); `FilesOwnExtents` and
`DataIntegrity` hold until that file is written in place or deleted, which is
what `stale` and `harmed` say. A crash loses at most the file being written and
what was not saved, as long as the boot can read the table. If it cannot, the lists
stay empty (`mrafsFileSystemInterface.cpp:1389-1438`), nobody looks at the answer
(`ahci.cpp:419`), the whole of the partition belongs to no extent, and the next call
that saves replaces the table by one without the files that were there. Such a volume
(`unread`) takes files without contents until it is formatted again; `ExtentsTile` says
nothing of it, the other properties do. An extent of size zero is never given back, and one that starts
where an empty one lies is not found by its location and may be lost, so `NoLeak`
is about tables without empty extents; the run has no such sizes.

A call on a folder is many calls on files and folders, each with a save of the
table, but to its caller it is one step on all that the folder holds, whatever fails
on the way (`ImplementsTree`), and a file that was saved is lost only by a delete of
it (`NothingLost`). A delete keeps the saved table closed: no entry without its
folder, wherever it is cut off. A rename that is cut off may leave files without
their folder, but it can be made again and then reaches its goal (`RetryCompletes`);
a copy that is cut off cannot, as what it has copied already is in its way. No call
checks that the folder a new entry is put into exists, so a user can make entries
that nobody finds (`astray`). A rename or copy of a folder into itself, which the
terminal passes on (`cmdParser.cpp:1944`, `:1967`), ends, since the files and folders
are listed before the new folder is there; a rename leaves what it moved below a folder
that is gone, so it counts as `astray`. `CopyFile`
answers success even when its save or the copying of the data failed
(`mrafsFileSystemInterface.cpp:496-506`), hence `Broken`.

The byte calls of a SATA drive implement `ByteDisk`, for every range. They return
FALSE without a fault of the drive or a range beyond it in two cases
(`FailsOnlyForCause`). A transfer of whole pages ends with a command for zero
sectors (`sataDiskInterface.cpp:48`, `:80`), which by ATA means 65536, more than the
drive of 5 MB has that `cDisk.sh:5` makes, so that drive refuses it. A drive with as
many sectors behind that place carries it out, over a descriptor of 4 MB that begins in
the page, and the call returns TRUE: what such a write leaves on the drive, and such a
read in memory, is not the caller's, so `ByteDisk` promises nothing from there on
(`overrun`). And a write that ends with the last sector reads the one behind it
(`:211`).

In MRAPS the partitions tile the drive and an edit never touches another
partition in use, with sizes of zero too. Undefined neighbours are combined, as the
comments say (`mrapsPartitionInterface.cpp:142`, `:154`), unless one has the size
zero: combining is a resize of the earlier one to the sum, which then is its present
size, and `ResizePartition` returns at line 65.

The queue is a FIFO as long as its calls come one after the other. In the memory
of a MAAB program, `FreeMem` goes by whatever header it finds in front of an
address, and old headers are found there; each of them is marked free, since
only free segments are merged and a segment is marked before its neighbours are
looked at. So a program can free only what it holds, until it writes into the buffer
where such a header was (`maabTask.cpp:206-246`): to clear its flag is enough, no magic
number need be made up. `OnlyHeldIsAccepted` says that `FreeMem` takes just these for
segments besides; when one of them is freed, or a header of the list is written over,
the links lead anywhere (`spoilt`).

Windows, callbacks and programs stay paired though blocks are used again at once: a
window that closes tells its program before it is freed, and a program that ends
takes its windows' callbacks back before it asks for them to close. A window that
waits to be raised, or a tab that the taskbar has drawn, may lead to a block that
was freed. If it is the next window's by then, that one is raised or shown instead,
and nothing else suffers. If it is not, the main loop writes into a free block
(`kernel.cpp:213-223`, `mouse.cpp:554-558`) and may make it the active window, whose
tasks the keys then read (`keyboard.cpp:142-158`, `:347-375`): TLC reaches that with one
click. Nothing is said of what follows.

Every frame has at least one round of tasks, so all that is to close is closed, even
after a fault: `RecoverDed` leaves the tasks of the system alone (the line that would
drop them is commented out). It drops the tasks of the active terminal, whoever
faulted, without freeing them; so a program may never be freed, and its windows stay
until a user closes them.

On the screen no pixel points to a place that is gone: closing takes a window off
the list before its rectangle is updated and frees it last, and a resize updates the
old and the new rectangle at once. The picture is what the order of the windows
says, but for two exceptions: the command `set window size` draws its window over
those in front of it, and after several clicks before one frame a hidden window that
waits to be raised may leave its pixels.

The serial manager receives exactly what the host sent, and sends whole frames in
the order of the queue; a packet waiting for a port that is closed is dropped
when its turn comes, since `DoSendStuff` asks again. TCP reads each byte once, in
order, though its lists change between its steps. Each of these ends where an
interrupt comes into a call that is not made for it: into an `Enqueue` of the main
loop, into its search of the list, from which the interrupt takes packets for TCP
(`serialManager.cpp:326-338`), or into a `List::RemoveAt`, whose count then forgets a
packet that came or counts the last one twice (`list.cpp:158-165`). `Serial::Write`
asks for a client first and for each byte again; when one connects in between, bytes
without a frame go onto the line that frames use (`serial.cpp:235-237`). In the same
way `Serial::Read` may take a byte of a frame off the line. `SendData` writes two bytes
of a LEN that has four, so the host sees whatever malloc left in the others. The model
has the ports of a frame in the order of the code, FROM before TO; the layout in
`serialManager.h:105-108` has them the other way round.

## 6. What is proved

`AllocatorProofs`, about the page allocator, for every memory size, reserved area, position of
the bitmap and request size that meet `AllocatorAssumption` (what the boot takes
lies within the bitmap): `LockedIsOwned` (with `PagesTyped`), `OneHolder`,
`PageCountersAgree` and `PanicOnlyWhenFull`, all that the run checks.

The argument: `OneHolder` and the counters are not inductive. The inductive
invariant adds that the locked pages are the boot's and the callers', disjointly
(`Owned`), and that each page has at most one holder: then a run of clear
bits has no holder, so that a request adds exactly the pages it counts, and a
free removes a page that was locked. The counters follow from cardinalities of
disjoint unions, with lemmas of their own. `PanicOnlyWhenFull` holds because the
second scan is from bit 0, whatever the hint.

`ChannelProofs`, about the queue, for every set of items, every initial size and any bound on
the items that wait: `TypeOK`, and `ImplementsFifo`, the refinement. Here `TypeOK` is
inductive: it says that the tail is `count` places behind the head modulo the
size, without which an `Enqueue` could overwrite the oldest item. The refinement
goes call by call, on four lemmas about reading the ring: writing at the tail
appends to what is read, moving the head takes the first item away, copying to a
new array leaves it alone, and the ring with room that `Enqueue` goes on with has
the old contents. They rest on lemmas about places modulo the size. The bound
`MaxCount` is in the abstract specification as well, so it takes nothing away.

`MrafsProofs`, for every size of partition and table, any files, sizes (zero
too), bytes and outcomes of disk accesses that meet `MrafsAssumption` (the table
fits into the partition, and accesses may succeed): `ExtentsTile`, `FilesOwnExtents`,
`DataIntegrity`, `ReportedIsDurable` and `NoLeak`. None of the middle three is
inductive, and nor is their conjunction. A crash replaces the lists in memory by
those on the disk, so all that is said of the one must be kept for the other as well
(`Placed`, `Neat`, `Kept` of `saved`), while later writes go to extents that were
free in memory only: that the files of the saved table still have their bytes holds
between boot and mount alone (`Stored(saved.files, ...)` where `~mounted`), which is
when the code needs it. And an access in the middle of a call relies on what its
first half looked up, so `Structure` says of each `pc` what that was. Ownership is
stated by the extents as a set (`Held`), not by their positions, as each split and
merge moves the positions: an operation of `FSPartitionList` takes one extent out of
that set or puts one in, which its lemma says, and only these lemmas look at indices.
`NoneEmpty` cannot be dropped from the second half of `Kept`: an extent of size zero
hides its neighbour from a search by location. TLC has checked `Inv` on an instance
with sizes of zero, too.

`DiskProofs`, about `Mraps`, for every drive, sector and entry size, any sizes and any number of
partitions, under `MrapsAssumption` (types and no more): `PartitionsTile` and the
action property `OthersUntouched`. The inductive invariant is that the list in memory
and the table on the disk are well formed, and that both have no undefined
neighbours and no empty partition as long as none ever was empty: without the last
part a resize that combines neighbours might be the one that the code skips.
`DeletePartition` and `ResizePartition` call each other; the lemmas go along that
recursion, which ends after two levels, and each says which entries of the list it
leaves in place (`Keeps`).

`DiskProofs`, about `DiskBytes`, for every sector, page and drive size and any number of
sectors that a count of zero stands for (`DiskAssumption` has types and no more):
`FailsOnlyForCause`, and `ImplementsByteDisk`, the refinement. `ByteDisk` can be broken
by a step of its own, from which it allows anything; `DiskBytes` takes it only when
the drive carries out a command for no sectors, and the theorem `FailsOnlyForCause` says
that no drive with fewer than `FullCount` sectors does. The inductive invariant (`Progress`) has for
each command of a call what was done by then: which bytes of the range are on the
drive, what the first and last sector in the buffer hold, how far the page transfer
has come. The rest is arithmetic on quotients and remainders, in lemmas
of their own: that first, middle and last sectors together are just the range. Each
command maps to a write of a part of the bytes of the call, or to a stutter.

`ProgramProofs`, about `WindowTasks`, for any blocks (finitely many), programs and bounds under
`WindowTasksAssumption`: `CallbacksPaired`, `OneTerminalPerProgram` and
`OrphansClosing`, each up to the use of a freed block ("astray"). They are inductive
together with the types, once it is added that a terminal has at most one task and
that a program has a window once in its list: only then does removing the first task, or the first occurrence of a window, remove
it altogether. `OneTerminalPerProgram` counts terminals; the invariant says the same
without counting. That blocks are finitely many is used only for that count. `ActiveOpen`, part of
`TypeOK` and with an invariant of its own, says that the active window is one of the
list: only the raising of a stale pointer makes another one active, and a window
that closes gives it up. So the keys need no guard.

`AllocatorProofs`, about `Heap`, for every size of headers, pages, memory, cache and requests and any
number of blocks that callers hold, under `HeapAssumption` and
`HeapCallersAssumption` (types, a start segment that fits, an array of keys that is
not empty): `HeapLinked`, `NoDoubleGrant`, `CountersAgree` and `OnlyMemoryPanics`, with
handlers between any two steps. What is kept (`Kept`) is `overtaken` or `HInv`, and
`HInvNext` says that every step, of the main loop or of a handler, keeps `HInv` unless
it sets `overtaken`. None of the four is inductive. `HInv`
speaks of the segments as a set of addresses (`Listed`) in place of the walk over
the list: each ends where the next begins, each knows its neighbours, and none
overlaps another. It adds that each caller's block and each cache entry has a segment
in use of its own and that the reserve is nobody's (`Sane`), what each step of malloc
or free relies on of the step before (`Working`), and that two neighbours are both
free only around the segment that is being split or freed (`Pieces`). The lemmas go
operator by operator: `Split`, `CombineForward`, `CombineBackward`, `MarkUsed`,
`MarkFree` and `Expanded` each take a `Listed` heap to a `Listed` heap, keep the
segments in use, and say which neighbours they leave unmerged. The recursive functions
(`Chain`, `RefreshAll`) are handled without induction over data: a table of the
function's values up to n exists for each n, since there is no least n for which it
does not, and a property of the entries is shown by the same least-number argument.
`ListedLinked` then gives `HeapLinked`, which is about the walk, back from the set.
The counters are part of the same invariant (`Counted`, with the merged neighbours in
`Whole`): they are those of the segments, but for the one block that `free` has marked
and not yet counted (`Uncounted` in `Pieces`). The sum of the lengths is the number
of the blocks one by one (`Cells`, `AmountIsCells`). Then marking a segment adds or
takes away its blocks alone, and a split or a merge of free segments changes no block
in use.

`ProgramProofs`, about `MaabMem`, for every size of the buffer, of a header and of
what is asked for under `MaabAssumption`: `SegmentsTile` and `OnlyHeldIsAccepted`
(`ProgramMemoryTiled`, `ProgramFreesOnlyItsOwn`). The inductive invariant (`MaabInv`)
has the segments as a set of addresses (`Linked`), as in the heap, with no two free
neighbours, and says of the addresses between them that those with a header which
looks like one in use are just those that the program has made look so (`LooksInUse` is
`forged`): that is why `FreeMem`, which trusts any header, does nothing with one that
merging or splitting has left. The segments in use are those the program holds. It is
kept whatever the program writes, until it has written over a header of the list or
frees behind a look-alike (`MaabKept`).

`ChannelProofs`, about `Tcp`, for any ports, packets, lengths and reads under
`TcpAssumption`: `StreamInOrder` and `ShortReadLeavesNone`. The invariant (`TcpInv`)
says for each port that what arrived is what was read followed by what is not read yet,
at each place and step of the reader, also between the two removals of
`RemovePacketAt`, where one list is a packet ahead of the other; and that the packets
the reader has passed are of other ports. While a `RemoveAt` is under way it speaks of
the lists as they will be behind it (`Held`). It is kept until a packet comes within
one (`TcpKept`).

`ChannelProofs`, about `SerialManager`, for any signature, packets, ports, lengths and
size of a burst: `FramesArrive`, `PortsInOrder`, `FramesLeaveWhole`
and the action property `ClosedStaysQuiet`. `SerialAssumption` is about the constants of
the code (the ports differ, the signature is a sequence of bytes); `HostAssumption`
is what the host keeps to (section 3), since the kernel does not check it.
`SerialInv` has three parts: `Receiving`, that the bytes sent by the host are the frames
of what was parsed, then what lies in the receive buffer, then what is on the line;
`PortsKept`, that each port's part of what was parsed is what it took followed by what
waits for it; and `Leaving`, that what went out is the answer to the signature, the
frames begun before, and the part of the present one that `sendBufferIndex` says (but
for a byte that has intruded). Beside it, the search of the main loop has passed no
packet for its port (`Finding`). Both are kept until an interrupt has overtaken the main
loop (`SerialKept`). The
stream is compared by flattening sequences of frames, with lemmas of their own.

`CompositorProofs`, for any windows, positions, sizes and number of inputs under
`CompositorAssumption` (there is a first and a last position, a window has a least
size): `PixelsInPlace`, `HiddenNotShown` and `StackingShown`. Three lemmas say what
one drawing does to a screen. The update of a rectangle folds over the list of windows:
it is shown by induction on the list that each of its pixels ends with the
uppermost window that is seen there (`UpTo`), where the fold of the library is an
explicit function of the numbers. `ScreenInv` says of each pixel that it points to its
place in an open window, to none that is hidden and was so at the last update
(`GoneOf`), and to nothing behind a settled window. It is not inductive: an update of a
window relies on those before it in the same frame having noticed what was hidden
(`Noticed`), and `Activate`, which takes the active window for one that lies in front
and draws over others, on `FrontOK`: in front of an active window that was raised there
is none that is seen and does not wait to be raised itself. A screen that is right stays
right when a window is moved to the front, is no longer settled, or is drawn over
others and remembered as such, each a lemma.

`FoldersProofs`, for any paths (finitely many), any tree at boot and any number of calls,
of failed saves and of losses of power under `FoldersAssumption` (paths are sequences
that are not empty; the two model values are neither a path nor a copy): the
refinement `ImplementsTree`, `NothingLost` and `RetryCompletes`. A call waits for
another of its own kind, so the invariant (`FoldersInv`) has to say what those before
have done. It takes the tree the user saw last and asks for two sets, the files F and
the folders D of the call that are done: what is in memory is that tree with just these
gone, or come to the new place (`Half`); a folder is done after its files and after the
folders in it (`Orderly`); and for each call on the stack, what lies in its folder is
done, or still on its list, or is the folder of the next call (`Stacked`). When the
last list is empty F and D are all there was, and the half-done tree is the one that
`FolderTree` promises. A second reading of the same two sets gives `RetryCompletes`:
what is left to do in a half-done tree is what was to do but for F and D, so a call
made again on it is to achieve the same (`Resumable`), and that holds of memory and of
every table on the way, since each is half done. The recursion needs no induction over
data: `Way` and `Below` are defined by the prefixes of a path, and what holds of every
entry on the way is shown with a shortest path for which it fails. `ClosedKept` is for
the part of `NothingLost` that says files can be reached, `ContentsKept` for the other.

In all of these modules the theorem is first that the specification (`Spec`, `PagesSpec`,
`FoldersSpec`, `MaabSpec`, `TcpSpec`, `SerialSpec`, `DriveSpec`) keeps the inductive invariant, with one
lemma for each action; what a run checks follows from it. TLC has checked the
inductive invariants of `Mrafs`, `MrafsFolders`, `Mraps`, `DiskBytes`, `MaabMem`, `Tcp` and
`Compositor` on the instances of the runs.

Only checked by TLC, and so it stays: the liveness of `Heap` (`CallsReturn`), of
`SerialManager` (`AllGetsThrough`) and of `WindowTasks` (`CloseServed`,
`ApplicationsClose`), as fairness and ENABLED are beyond the prover.

## 7. What is not modelled

Planned: section 2, items 12 to 14. Abstracted on purpose: names, text and flags;
the format of the tables, but for their size; a table written as a whole; time; what
happens after a panic, with it the switch to the backup heap; what happens after a
call was overtaken, a list of a program spoilt, a freed block used or a page overrun. A
step of `Heap`, `SerialManager` and `Tcp` is a few instructions of the code; where it
changes what handlers use as well, a handler next to it counts as overtaking, but one
inside of a step that only reads is not told apart from one before or behind it. A host that starts again while
the kernel thinks it connected is not modelled: nothing resets `clientConnected`.

Extents of size zero in `Mrafs`, and larger trees in `MrafsFolders`, do not end in
minutes.

Left out altogether, with the reason in `PROJECT.json`: what applications draw; the
commands of the terminal that only print or pass arguments on (it calls the parts
above); audio mixing (arithmetic on samples); archives and hardware tables
(read-only data); the AHCI registers (the device); the instructions of MAAB programs;
and the ported games, not of this project, which are more than half of the lines of
the repository.
