-------------------------- MODULE FSPartitionList --------------------------
(***************************************************************************)
(* The extent list of the MRAFS file system (fsPartitionList of            *)
(* mrafsFileSystemInterface.cpp): the partition cut into extents in the     *)
(* order of their location, each owned or free, and the operations that     *)
(* resize, allocate and free one.  Pure operators; positions count from 1   *)
(* and 0 stands for the -1 of the code's lookups.                           *)
(***************************************************************************)
EXTENDS Extents, SequencesExt

FSPartitionInfo(locationInBytes, sizeInBytes, free) ==
    [loc |-> locationInBytes, size |-> sizeInBytes, free |-> free]

GetIndexOfPartitionFromLocation(list, location) ==
    SelectInSeq(list, LAMBDA part : part.loc = location)

(* First fit.                                                              *)
GetIndexOfFreeFilePartition(list, sizeInBytes) ==
    SelectInSeq(list, LAMBDA part : part.free /\ part.size >= sizeInBytes)

(* Mutant: the extent is not shortened when a part of it is split off.      *)
ShrinkKeepingSize(list, i, newSize) ==
    InsertAt(list, i + 1,
             FSPartitionInfo(list[i].loc + newSize,
                             list[i].size - newSize, TRUE))

(* The tail that is cut off becomes a free extent of its own.               *)
Shrink(list, i, newSize) ==
    InsertAt([list EXCEPT ![i].size = newSize], i + 1,
             FSPartitionInfo(list[i].loc + newSize,
                             list[i].size - newSize, TRUE))

(* Growth into the free extent that follows: it disappears when all of it   *)
(* is taken, otherwise the border between the two moves.                    *)
Grow(list, i, newSize) ==
    LET diff  == newSize - list[i].size
        grown == [list EXCEPT ![i].size = newSize]
    IN  IF diff = list[i + 1].size
        THEN RemoveAt(grown, i + 1)
        ELSE [grown EXCEPT ![i + 1].size = @ - diff, ![i + 1].loc = @ + diff]

(* Every caller that grows an extent has seen that the next one is free, so *)
(* the error returns of the function are not reached.                       *)
ResizeFilePartition(list, i, newSize) ==
    IF newSize = list[i].size THEN list
    ELSE IF newSize < list[i].size THEN Shrink(list, i, newSize)
    ELSE Grow(list, i, newSize)

AbsorbNext(list, i) ==
    ResizeFilePartition(list, i, list[i].size + list[i + 1].size)

(* Mutant: the extent before is not looked at.                              *)
DeleteFilePartitionForward(list, i) ==
    LET freed == [list EXCEPT ![i].free = TRUE]
    IN  IF i < Len(list) /\ freed[i + 1].free THEN AbsorbNext(freed, i)
        ELSE freed

(* Free extent i, then merge it with a free extent behind and one before.   *)
DeleteFilePartition(list, i) ==
    LET freed  == [list EXCEPT ![i].free = TRUE]
        merged == IF i < Len(list) /\ freed[i + 1].free
                  THEN AbsorbNext(freed, i) ELSE freed
    IN  IF i > 1 /\ merged[i - 1].free THEN AbsorbNext(merged, i - 1)
        ELSE merged

(* Mutant: the extent stays marked as free.                                 *)
CreateFilePartitionStillFree(list, sizeInBytes) ==
    LET i == GetIndexOfFreeFilePartition(list, sizeInBytes)
    IN  ResizeFilePartition(list, i, sizeInBytes)

(* The list after an allocation; GetIndexOfFreeFilePartition must not be 0. *)
CreateFilePartition(list, sizeInBytes) ==
    LET i == GetIndexOfFreeFilePartition(list, sizeInBytes)
    IN  ResizeFilePartition([list EXCEPT ![i].free = FALSE], i, sizeInBytes)
=============================================================================
