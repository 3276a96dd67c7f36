----------------------------- MODULE DiskBytes -----------------------------
(***************************************************************************)
(* Bytes of a SATA drive (Disk_Interfaces/sata/sataDiskInterface.cpp): the  *)
(* drive is read and written in sectors, through a page that holds ChunkLen *)
(* of them, by commands of the AHCI driver that may fail.  A write of bytes *)
(* reads and writes back the first and the last sector it touches, in this  *)
(* order, then writes those in between.  Refines ByteDisk.                  *)
(*                                                                         *)
(* One action is one command (Port::Read, Port::Write) together with the    *)
(* copying into and out of the page.  A failed command may have written     *)
(* some of its sectors, in their order, which stands for a loss of power in *)
(* the middle of it as well.  What a failed read leaves in the caller's     *)
(* buffer is left out.                                                      *)
(*                                                                         *)
(* A command for no sectors asks the drive for FullCount of them, as the    *)
(* ATA standard has it.  A drive that has them carries it out: between its  *)
(* sectors and the memory behind the page, of which nothing is known here.  *)
(* That is kept in overrun, and ByteDisk promises nothing from there on.    *)
(***************************************************************************)
EXTENDS Integers

CONSTANTS
    SectorLen,      \* bytes of a sector (512)
    ChunkLen,       \* sectors the page holds (8)
    SectorCount,    \* sectors of the drive (10240: cDisk.sh:5)
    FullCount,      \* sectors that a count of zero means (65536)
    Span,           \* bytes that the size of the drive is computed within:
                    \* 32 bits
    MaxWrites       \* bound: calls that write

ASSUME DiskAssumption ==
    /\ SectorLen \in Nat \ {0} /\ ChunkLen \in Nat \ {0}
    /\ SectorCount \in Nat \ {0}
    /\ FullCount \in Nat \ {0} /\ Span \in Nat \ {0}
    /\ MaxWrites \in Nat

VARIABLES
    drive,          \* the bytes of the drive
    call,           \* the call: what it does, first byte, bytes
    writes,         \* calls that wrote, so far
    step,           \* what the call does next, or how it ended
    sector, left,   \* the transfer under way: next sector, sectors left,
    at,             \*   and where they are in the buffer
    buf,            \* buffer2
    fault,          \* the drive failed a command of this call by itself
    overrun         \* history: the drive accepted a command for no sectors

driveVars ==
    <<drive, call, writes, step, sector, left, at, buf, fault, overrun>>
transfer == <<sector, left, at>>

Size == SectorCount * SectorLen
Bytes == 0 .. (Size - 1)
SectorBytes == 0 .. (SectorLen - 1)

(* A byte knows the write that stored it, and the place it was meant for.   *)
Zero == <<-1, -1>>
Values == {Zero} \cup ((0 .. MaxWrites) \X Bytes)
Given(i) == <<writes, call.from + i>>

Ended == step \in {"none", "ok", "failed"}

DriveInit ==
    /\ drive = [b \in Bytes |-> <<0, b>>]
    /\ call = [op |-> "ReadBytes", from |-> 0, count |-> 0]
    /\ writes = 0
    /\ step = "none"
    /\ sector = 0 /\ left = 0 /\ at = 0
    /\ buf = <<>>
    /\ fault = FALSE /\ overrun = FALSE

-----------------------------------------------------------------------------
(* Sectors that a range of bytes touches, as the code counts them.          *)
(* Mutant: as if every range began with its sector.                         *)
SectorsOfAligned(from, count) == (count + SectorLen - 1) \div SectorLen

SectorsOf(from, count) ==
    (from + count + SectorLen - 1) \div SectorLen - from \div SectorLen

(* Mutant: a range may not end with the drive.                              *)
InBoundsBefore(from, count) == from + count < Size % Span

InBounds(from, count) == from + count <= Size % Span

offset == call.from % SectorLen

(* Bytes of the last sector that a write of several sectors changes.        *)
lastCount == (call.from + call.count) % SectorLen

StartTransfer(first, n, from) == sector' = first /\ left' = n /\ at' = from

(* ReadBytes of some bytes: Read of all sectors that they touch.            *)
ReadBytes(from, count) ==
    /\ Ended
    /\ call' = [op |-> "ReadBytes", from |-> from, count |-> count]
    /\ step' = IF count = 0 THEN "ok"
               ELSE IF InBounds(from, count) THEN "read" ELSE "failed"
    /\ StartTransfer(from \div SectorLen, SectorsOf(from, count), 0)
    /\ buf' = [i \in 0 .. (SectorsOf(from, count) * SectorLen - 1) |-> Zero]
    /\ fault' = FALSE
    /\ UNCHANGED <<drive, writes, overrun>>

WriteBytes(from, count) ==
    /\ Ended /\ writes < MaxWrites
    /\ call' = [op |-> "WriteBytes", from |-> from, count |-> count]
    /\ writes' = writes + 1
    /\ step' = IF count = 0 THEN "ok"
               ELSE IF InBounds(from, count) THEN "first" ELSE "failed"
    /\ StartTransfer(from \div SectorLen, 1, 0)
    /\ buf' = [i \in SectorBytes |-> Zero]
    /\ fault' = FALSE
    /\ UNCHANGED <<drive, overrun>>

(* Write of whole sectors, without a look at the size of the drive.         *)
WriteSectors(first, n) ==
    /\ Ended /\ writes < MaxWrites
    /\ call' = [op |-> "Write", from |-> first * SectorLen, count |-> n * SectorLen]
    /\ writes' = writes + 1
    /\ step' = "middle"
    /\ StartTransfer(first, n, 0)
    /\ buf' = <<>>
    /\ fault' = FALSE
    /\ UNCHANGED <<drive, overrun>>

-----------------------------------------------------------------------------
(* The sectors of the next command: full pages, then what is left, be it    *)
(* nothing.                                                                 *)
Command == IF left >= ChunkLen THEN ChunkLen ELSE left

(* The drive refuses a command that leads behind its end.                   *)
Asked == IF Command = 0 THEN FullCount ELSE Command
Accepted == sector + Asked <= SectorCount

NextCommand ==
    /\ sector' = sector + Command
    /\ left' = left - Command
    /\ at' = at + Command * SectorLen

(* One pass of the loop of Read, or the command after it.                   *)
ReadChunk ==
    /\ step = "read" /\ Accepted
    /\ buf' = [i \in DOMAIN buf |->
                 IF i - at \in 0 .. (Command * SectorLen - 1)
                 THEN drive[sector * SectorLen + i - at] ELSE buf[i]]
    /\ NextCommand
    /\ step' = IF left >= ChunkLen THEN "read" ELSE "ok"
    /\ overrun' = (overrun \/ Command = 0)
    /\ UNCHANGED <<drive, call, writes, fault>>

(* The first n sectors of the command with the caller's bytes.              *)
Overwritten(n) ==
    [b \in Bytes |-> IF b - sector * SectorLen \in 0 .. (n * SectorLen - 1)
                     THEN Given(at + b - sector * SectorLen) ELSE drive[b]]

(* What a command for no sectors writes is not the caller's: any number of  *)
(* sectors, of which Zero stands for the contents.                          *)
Trampled ==
    {[b \in Bytes |-> IF b - sector * SectorLen \in 0 .. (n * SectorLen - 1)
                      THEN Zero ELSE drive[b]] : n \in 0 .. FullCount}

(* One pass of the loop of Write, or the command after it.                  *)
WriteChunk ==
    /\ step = "middle" /\ Accepted
    /\ drive' \in IF Command = 0 THEN Trampled ELSE {Overwritten(Command)}
    /\ NextCommand
    /\ step' = IF left >= ChunkLen THEN "middle" ELSE "ok"
    /\ overrun' = (overrun \/ Command = 0)
    /\ UNCHANGED <<call, writes, buf, fault>>

(* The sector as it is on the drive, with the caller's bytes over it: those *)
(* of a write that stays in it, of its first or of its last sector.         *)
OneSector == SectorsOf(call.from, call.count) = 1

FirstMerged ==
    [b \in SectorBytes |->
        IF b >= offset /\ (OneSector => b < offset + call.count)
        THEN Given(b - offset) ELSE drive[sector * SectorLen + b]]

LastMerged ==
    [b \in SectorBytes |->
        IF b < lastCount THEN Given(b + call.count - lastCount)
        ELSE drive[sector * SectorLen + b]]

ReadFirst ==
    /\ step = "first" /\ Accepted
    /\ buf' = FirstMerged
    /\ step' = "firstBack"
    /\ UNCHANGED <<drive, call, writes, transfer, fault, overrun>>

ReadLast ==
    /\ step = "last" /\ Accepted
    /\ buf' = LastMerged
    /\ step' = "lastBack"
    /\ UNCHANGED <<drive, call, writes, transfer, fault, overrun>>

WrittenBack ==
    [b \in Bytes |-> IF b - sector * SectorLen \in SectorBytes
                     THEN buf[b - sector * SectorLen] ELSE drive[b]]

WriteFirst ==
    /\ step = "firstBack" /\ Accepted
    /\ drive' = WrittenBack
    /\ IF OneSector
       THEN step' = "ok" /\ UNCHANGED transfer
       ELSE /\ step' = "last"
            /\ StartTransfer((call.from + call.count) \div SectorLen, 1, 0)
    /\ UNCHANGED <<call, writes, buf, fault, overrun>>

(* The sectors between the first and the last one.                          *)
MiddleCount ==
    (call.count - (SectorLen - offset) - lastCount) \div SectorLen

WriteLast ==
    /\ step = "lastBack" /\ Accepted
    /\ drive' = WrittenBack
    /\ step' = IF MiddleCount # 0 THEN "middle" ELSE "ok"
    /\ StartTransfer((call.from + SectorLen - offset) \div SectorLen,
                     MiddleCount, SectorLen - offset)
    /\ UNCHANGED <<call, writes, buf, fault, overrun>>

(* The driver returns FALSE: the drive refused, was busy for too long or    *)
(* could not do it.  The call ends there.                                   *)
CommandFails ==
    LET overruns == step \in {"read", "middle"} /\ Command = 0 /\ Accepted
    IN  /\ ~Ended
        /\ step' = "failed"
        /\ fault' = Accepted
        /\ overrun' = (overrun \/ overruns)
        /\ drive' \in {drive}
             \cup (IF step = "middle" /\ Accepted
                   THEN {Overwritten(n) : n \in 1 .. Command} ELSE {})
             \cup (IF step = "middle" /\ overruns THEN Trampled ELSE {})
             \cup (IF step \in {"firstBack", "lastBack"} /\ Accepted
                   THEN {WrittenBack} ELSE {})
        /\ buf' = <<>>
        /\ UNCHANGED <<call, writes, transfer>>

PowerLoss ==
    /\ ~Ended
    /\ step' = "none"
    /\ buf' = <<>>
    /\ UNCHANGED <<drive, call, writes, transfer, fault, overrun>>

(* Ranges that end up to a byte, or a sector, behind the drive.             *)
Calls ==
    \/ \E from \in Bytes : \E count \in 0 .. (Size - from + 1) :
          ReadBytes(from, count) \/ WriteBytes(from, count)
    \/ \E first \in 0 .. (SectorCount - 1) :
          \E n \in 0 .. (SectorCount - first + 1) : WriteSectors(first, n)

DriveNext ==
    \/ Calls
    \/ ReadChunk \/ WriteChunk
    \/ ReadFirst \/ WriteFirst \/ ReadLast \/ WriteLast
    \/ CommandFails \/ PowerLoss

DriveSpec == DriveInit /\ [][DriveNext]_driveVars

-----------------------------------------------------------------------------
(* The types of the variables.                                              *)
DriveTypeOK ==
    /\ drive \in [Bytes -> Values]
    /\ call \in [op : {"ReadBytes", "WriteBytes", "Write"},
                from : 0 .. Size, count : Nat]
    /\ writes \in 0 .. MaxWrites
    /\ step \in {"none", "ok", "failed", "read", "first", "firstBack", "last",
                 "lastBack", "middle"}
    /\ sector \in Nat /\ left \in Nat /\ at \in Nat
    /\ \A i \in DOMAIN buf : buf[i] \in Values
    /\ fault \in BOOLEAN /\ overrun \in BOOLEAN

Abstract == INSTANCE ByteDisk WITH
    bytes  <- drive,
    call   <- [writes |-> call.op # "ReadBytes", from |-> call.from,
               count |-> call.count],
    data   <- [i \in 0 .. (call.count - 1) |->
                 IF call.op # "ReadBytes" THEN Given(i)
                 ELSE IF i + offset \in DOMAIN buf THEN buf[i + offset]
                 ELSE Zero],
    answer <- IF Ended THEN step ELSE "running",
    broken <- overrun

(* However a range lies across sectors and pages, whichever commands fail   *)
(* and wherever the power goes: no byte outside the range of a write        *)
(* changes, none is stored in the wrong place, a call that returns TRUE has *)
(* done all of it, and a read returns what was written, as long as the      *)
(* drive has carried out no command for no sectors.                         *)
ImplementsByteDisk == Abstract!Spec

(* Sectors that the call hands to Read or Write, to be cut into pages, and  *)
(* the sector behind them.                                                  *)
Transferred ==
    IF call.op = "WriteBytes" THEN (IF OneSector THEN 0 ELSE MiddleCount)
    ELSE SectorsOf(call.from, call.count)
Behind ==
    IF call.op = "WriteBytes" THEN (call.from + call.count) \div SectorLen
    ELSE call.from \div SectorLen + Transferred

(* TRUE is what a call returns for bytes of the drive that does its work,   *)
(* with two exceptions: after a whole number of pages, be it none, the code *)
(* asks for sectors once more (sataDiskInterface.cpp:48, 80), which only a  *)
(* drive with FullCount of them behind that place accepts, and overruns;    *)
(* and a write of several sectors reads the one behind its last when it     *)
(* ends with a sector (:211), which a write that ends with the drive cannot.*)
FailsOnlyForCause ==
    /\ DriveTypeOK
    /\ step \in {"ok", "failed"} /\ (call.count # 0 \/ call.op = "Write") =>
          (step = "failed" <=>
              \/ fault
              \/ call.op = "Write" /\ call.from + call.count > Size
              \/ call.op # "Write" /\ call.from + call.count > Size % Span
              \/ /\ Transferred # 0 \/ call.op = "Write"
                 /\ Transferred % ChunkLen = 0
                 /\ Behind + FullCount > SectorCount
              \/ /\ call.op = "WriteBytes" /\ ~OneSector
                 /\ call.from + call.count = Size)
    /\ overrun => SectorCount >= FullCount
=============================================================================
