------------------------------- MODULE Mraps -------------------------------
(***************************************************************************)
(* The partition table of a drive (mrapsPartitionInterface.cpp): the boot   *)
(* sector, the table itself and the partitions behind them, changed in      *)
(* memory by terminal commands and saved only on request.  Saving writes    *)
(* the signature into the boot sector and then the table; the power may go  *)
(* between the two.                                                         *)
(*                                                                         *)
(* The drive was blank before.  A write of the table is taken as one step,  *)
(* one that fails changes nothing, and every entry has the same size in it. *)
(***************************************************************************)
EXTENDS Extents, SequencesExt

CONSTANTS
    driveSize,      \* bytes of the drive
    SectorSize,     \* 512
    EntrySize,      \* bytes of one entry in the saved table
    MaxPartitions,  \* bound: entries of the list
    Sizes,          \* sizes that the terminal passes on
    DiskOutcomes    \* what a disk access may return: {TRUE} or BOOLEAN

ASSUME MrapsAssumption ==
    /\ driveSize \in Nat
    /\ SectorSize \in Nat \ {0}
    /\ EntrySize \in Nat
    /\ Sizes \subseteq Nat
    /\ DiskOutcomes \subseteq BOOLEAN

Types == {"Boot", "PartitionData", "Undefined", "Normal"}

PartitionInfo(type, sizeInBytes, locationInBytes) ==
    [type |-> type, size |-> sizeInBytes, loc |-> locationInBytes]

VARIABLES
    present,        \* the drive has a partition interface
    partitionList,
    signature,      \* the boot sector on the disk carries "MRAPS01"
    saved,          \* the table on the disk
    pc,             \* the next disk access of a save
    emptied         \* history: a partition has had the size zero

vars == <<present, partitionList, signature, saved, pc, emptied>>
disk == <<signature, saved>>

InitialList ==
    <<PartitionInfo("Boot", SectorSize, 0),
      PartitionInfo("PartitionData", 19 * SectorSize, SectorSize),
      PartitionInfo("Undefined", driveSize - 20 * SectorSize, 20 * SectorSize)>>

Init ==
    /\ present = FALSE
    /\ partitionList = <<>>
    /\ signature = FALSE
    /\ saved = <<>>
    /\ pc = "idle"
    /\ emptied = FALSE

Idle == present /\ pc = "idle"

(* ResizePartition and DeletePartition refuse the first two partitions.     *)
Editable(part) == part.type \notin {"Boot", "PartitionData"}

(* Partition i takes all of the next one.                                   *)
TakeNext(list, i) ==
    RemoveAt([list EXCEPT ![i].size = @ + list[i + 1].size], i + 1)

(* The call of ResizePartition with the sum of two sizes: when the next     *)
(* partition is empty, that is the size the partition has already.          *)
Combine(list, i) ==
    IF list[i + 1].size = 0 THEN list ELSE TakeNext(list, i)

IsUndefinedAt(list, i) == i \in 1 .. Len(list) /\ list[i].type = "Undefined"

(* Mutant: the partition before is not looked at.                           *)
DeletedForward(list, i) ==
    LET marked == [list EXCEPT ![i].type = "Undefined"]
    IN  IF IsUndefinedAt(marked, i + 1) THEN Combine(marked, i) ELSE marked

Deleted(list, i) ==
    LET marked == [list EXCEPT ![i].type = "Undefined"]
        joined == IF IsUndefinedAt(marked, i + 1) THEN Combine(marked, i)
                  ELSE marked
    IN  IF IsUndefinedAt(joined, i - 1) THEN Combine(joined, i - 1) ELSE joined

(* Mutant: the new partition starts one byte too early.                     *)
ShrunkEarly(list, i, newSize) ==
    LET rest == PartitionInfo("Undefined", list[i].size - newSize,
                              list[i].loc + newSize - 1)
    IN  Deleted(InsertAt([list EXCEPT ![i].size = newSize], i + 1, rest), i + 1)

(* The rest becomes a partition of its own and is deleted at once, so that  *)
(* it is combined with undefined neighbours.                                *)
Shrunk(list, i, newSize) ==
    LET rest == PartitionInfo("Undefined", list[i].size - newSize,
                              list[i].loc + newSize)
    IN  Deleted(InsertAt([list EXCEPT ![i].size = newSize], i + 1, rest), i + 1)

Grown(list, i, newSize) ==
    LET more == newSize - list[i].size
    IN  IF more = list[i + 1].size THEN TakeNext(list, i)
        ELSE [list EXCEPT ![i].size = newSize,
                          ![i + 1].size = @ - more, ![i + 1].loc = @ + more]

-----------------------------------------------------------------------------
ChangeList(list) ==
    /\ partitionList' = list
    /\ UNCHANGED <<present, disk, pc>>

CreatePartition(i, size) ==
    LET part   == partitionList[i]
        marked == [partitionList EXCEPT ![i].type = "Normal"]
    IN  /\ Idle
        /\ part.type = "Undefined"
        /\ size <= part.size
        /\ ChangeList(IF size = part.size THEN marked
                      ELSE Shrunk(marked, i, size))

ShrinkPartition(i, newSize) ==
    /\ Idle
    /\ Editable(partitionList[i])
    /\ newSize < partitionList[i].size
    /\ ChangeList(Shrunk(partitionList, i, newSize))

(* Mutant: nobody looks whether the next partition is in use.               *)
GrowPartitionIntoUsed(i, newSize) ==
    /\ Idle
    /\ Editable(partitionList[i])
    /\ newSize > partitionList[i].size
    /\ i < Len(partitionList)
    /\ newSize - partitionList[i].size <= partitionList[i + 1].size
    /\ ChangeList(Grown(partitionList, i, newSize))

(* Mutant: nobody looks whether the next partition is large enough.         *)
GrowPartitionTooFar(i, newSize) ==
    /\ Idle
    /\ Editable(partitionList[i])
    /\ newSize > partitionList[i].size
    /\ IsUndefinedAt(partitionList, i + 1)
    /\ ChangeList(Grown(partitionList, i, newSize))

GrowPartition(i, newSize) ==
    /\ Idle
    /\ Editable(partitionList[i])
    /\ newSize > partitionList[i].size
    /\ IsUndefinedAt(partitionList, i + 1)
    /\ newSize - partitionList[i].size <= partitionList[i + 1].size
    /\ ChangeList(Grown(partitionList, i, newSize))

DeletePartition(i) ==
    /\ Idle
    /\ Editable(partitionList[i])
    /\ ChangeList(Deleted(partitionList, i))

InitAndSavePartitionTable ==
    /\ Idle
    /\ driveSize >= 20 * SectorSize
    /\ partitionList' = InitialList
    /\ pc' = IF 10 + 3 * EntrySize < 19 * SectorSize THEN "signature"
             ELSE "idle"
    /\ UNCHANGED <<present, disk>>

(* A table that does not fit into its 19 sectors is not saved.              *)
SavePartitionTable ==
    /\ Idle
    /\ 10 + Len(partitionList) * EntrySize < 19 * SectorSize
    /\ pc' = "signature"
    /\ UNCHANGED <<present, partitionList, disk>>

WriteSignature(ok) ==
    /\ pc = "signature"
    /\ signature' = (signature \/ ok)
    /\ pc' = IF ok THEN "table" ELSE "idle"
    /\ UNCHANGED <<present, partitionList, saved>>

WriteTable(ok) ==
    /\ pc = "table"
    /\ saved' = IF ok THEN partitionList ELSE saved
    /\ pc' = "idle"
    /\ UNCHANGED <<present, partitionList, signature>>

Crash ==
    /\ present
    /\ present' = FALSE
    /\ partitionList' = <<>>
    /\ pc' = "idle"
    /\ UNCHANGED disk

(* The list is cleared before the table is read, which may fail.            *)
Loaded(ok) == IF ok THEN saved ELSE <<>>

(* At boot, a drive with the signature gets its interface and its table; a  *)
(* blank one, or one that cannot be read, gets an interface with an empty   *)
(* list by a terminal command.                                              *)
Attach(ok) ==
    /\ ~present
    /\ present' = TRUE
    /\ partitionList' = IF signature THEN Loaded(ok) ELSE <<>>
    /\ UNCHANGED <<disk, pc>>

(* A terminal command: changes that were not saved are dropped.             *)
LoadPartitionTable(ok) ==
    /\ Idle
    /\ partitionList' = Loaded(ok)
    /\ UNCHANGED <<present, disk, pc>>

(* Empty partitions take no room, so only the bound ends the list.         *)
ChangePartitions ==
  /\ \E i \in DOMAIN partitionList :
        \/ DeletePartition(i)
        \/ \E size \in Sizes :
              \/ CreatePartition(i, size)
              \/ ShrinkPartition(i, size)
              \/ GrowPartition(i, size)
  /\ Len(partitionList') <= MaxPartitions

Step ==
    \/ ChangePartitions
    \/ InitAndSavePartitionTable
    \/ SavePartitionTable
    \/ \E ok \in DiskOutcomes :
          \/ WriteSignature(ok) \/ WriteTable(ok)
          \/ Attach(ok) \/ LoadPartitionTable(ok)
    \/ Crash

Next ==
    /\ Step
    /\ emptied' = (emptied \/ \E i \in DOMAIN partitionList' :
                                 partitionList'[i].size = 0)

Spec == Init /\ [][Next]_vars

-----------------------------------------------------------------------------
PartitionInfos == [type : Types, size : Nat, loc : Nat]

(* The types of the variables.                                              *)
TypeOK ==
    /\ present \in BOOLEAN
    /\ partitionList \in Seq(PartitionInfos)
    /\ signature \in BOOLEAN
    /\ saved \in Seq(PartitionInfos)
    /\ pc \in {"idle", "signature", "table"}
    /\ emptied \in BOOLEAN

(* A list that is not empty covers the drive without gap or overlap and     *)
(* starts with the boot sector and the table, at their fixed places.        *)
WellFormed(list) ==
    list # <<>> =>
        /\ Tiles(list, driveSize)
        /\ Len(list) >= 3
        /\ list[1] = InitialList[1] /\ list[2] = InitialList[2]
        /\ \A i \in 3 .. Len(list) : Editable(list[i])

UndefinedCombined ==
    \A i \in DOMAIN partitionList :
        ~(IsUndefinedAt(partitionList, i) /\ IsUndefinedAt(partitionList, i + 1))

(* Whatever sequence of creations, resizings and deletions, saved or lost   *)
(* in a crash, no two partitions overlap, no byte of the drive is lost, and *)
(* the boot sector and the table stay where the loader looks for them; only *)
(* after a load that failed, or on a blank drive, the list is empty.        *)
(* No two undefined partitions lie side by side either, unless there was    *)
(* one of size zero: that is not combined (mrapsPartitionInterface.cpp:65), *)
(* and can keep its neighbours apart when it has grown or is gone.          *)
PartitionsTile ==
    /\ TypeOK
    /\ WellFormed(partitionList) /\ WellFormed(saved)
    /\ emptied \/ UndefinedCombined

(* A command that changes one partition leaves every other partition in     *)
(* use where it is and as large as it is: its file system would not find    *)
(* its data again.                                                          *)
OthersUntouched ==
    [][ChangePartitions =>
        \E i \in DOMAIN partitionList :
            \A j \in DOMAIN partitionList \ {i} :
                partitionList[j].type # "Undefined" =>
                    \E k \in DOMAIN partitionList' :
                        partitionList'[k] = partitionList[j]]_vars
=============================================================================
