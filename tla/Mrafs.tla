------------------------------- MODULE Mrafs -------------------------------
(***************************************************************************)
(* The file store of the MRAFS file system: file entries, the extents they  *)
(* point to, the data on the disk and the file system table, with a crash   *)
(* possible between any two disk writes.                                    *)
(*                                                                         *)
(* A call runs in one thread, so what it does to the lists in memory up to  *)
(* its next disk access is one step.  pc says which disk access the running *)
(* call makes next.  Sizes are bytes; a byte on the disk is a token.  The   *)
(* table is read and written as a whole, and a disk access that fails       *)
(* changes nothing on the disk.  A load of the table that fails leaves the  *)
(* lists in memory empty (unread), and the volume can be used as it is then.*)
(* Folders are only names and are left out here.                            *)
(***************************************************************************)
EXTENDS FSPartitionList

CONSTANTS
    Paths,          \* file paths
    Tokens,         \* values of a byte
    partitionSize,  \* sizeInBytes of the partition
    maxFSTableSize, \* bytes at its start that are kept for the table
    PathLen,        \* length of every path
    Sizes,          \* sizes that callers create and write
    MaxExtents,     \* bound: entries of the extent list
    NoPath,         \* no call is running, or the running call copies nothing
    DiskOutcomes    \* what a disk access may return: {TRUE} or BOOLEAN

ASSUME MrafsAssumption ==
    /\ maxFSTableSize \in Nat \ {0}
    /\ partitionSize \in Nat
    /\ maxFSTableSize <= partitionSize
    /\ PathLen \in Nat
    /\ Sizes \subseteq Nat
    /\ NoPath \notin Paths
    /\ DiskOutcomes \subseteq BOOLEAN /\ TRUE \in DiskOutcomes

VARIABLES
    mounted,            \* the lists in memory are loaded
    fsPartitionList, fsFileList,
    disk,               \* bytes of the data area
    saved,              \* the table on the disk
    pc, cur, data, from,\* next disk access; path and bytes written; source
    result,             \* of the last call
    expected,           \* history: what the callers last put into each file
    unread,             \* history: the lists are not those of the disk, as
                        \*   they come from a load that failed
    stale,              \* history: files whose extent a failed write freed
    harmed              \* history: such a file was written or freed again

memory == <<fsPartitionList, fsFileList>>
call == <<pc, cur, data, from>>
history == <<expected, stale, harmed>>
vars == <<mounted, unread, memory, disk, saved, call, result, history>>

DataArea == maxFSTableSize .. (partitionSize - 1)
NoFile == [loc |-> 0, size |-> 0]
Extent(file) == file.loc .. (file.loc + file.size - 1)

(* The check of ReadPartition and WritePartition.                           *)
InBounds(address, size) == address + size < partitionSize

Contents(file, bytes) == [i \in 1 .. file.size |-> bytes[file.loc + i - 1]]

(* The bytes of the table: 27 for its header, 17 an extent, 21 and the path *)
(* a file.                                                                  *)
TableSize(list, files) ==
    27 + 17 * Len(list) + (21 + PathLen) * Cardinality(DOMAIN files)

EmptyList ==
    <<FSPartitionInfo(0, maxFSTableSize, FALSE),
      FSPartitionInfo(maxFSTableSize, partitionSize - maxFSTableSize, TRUE)>>

(* The partition right after InitAndSaveFSTable.                            *)
Init ==
    /\ mounted = TRUE
    /\ fsPartitionList = EmptyList
    /\ fsFileList = <<>>
    /\ disk \in [DataArea -> Tokens]
    /\ \A p, q \in DataArea : disk[p] = disk[q]
    /\ saved = [list |-> EmptyList, files |-> <<>>, stale |-> {}, unread |-> FALSE]
    /\ unread = FALSE
    /\ pc = "idle" /\ cur = NoPath /\ data = <<>> /\ from = NoPath
    /\ result = "none"
    /\ expected = <<>>
    /\ stale = {}
    /\ harmed = FALSE

Idle == mounted /\ pc = "idle"
FileExists(path) == path \in DOMAIN fsFileList

Finish(outcome) ==
    /\ result' = outcome
    /\ pc' = "idle" /\ cur' = NoPath /\ data' = <<>> /\ from' = NoPath

(* The call goes on with the given disk access.                             *)
Continue(next, path, bytes, source) ==
    /\ pc' = next /\ cur' = path /\ data' = bytes /\ from' = source
    /\ result' = "none"

GoSave(path) == Continue("table", path, <<>>, NoPath)

Without(f, path) == [p \in DOMAIN f \ {path} |-> f[p]]
With(f, path, value) ==
    [p \in DOMAIN f \cup {path} |-> IF p = path THEN value ELSE f[p]]

-----------------------------------------------------------------------------
(* Calls that only change the lists and save them.                          *)

AddEmptyFile(path) ==
    /\ ~FileExists(path)
    /\ fsFileList' = With(fsFileList, path, NoFile)
    /\ expected' = With(expected, path, <<>>)
    /\ UNCHANGED <<mounted, unread, fsPartitionList, disk, saved, stale, harmed>>

CreateFile(path) == Idle /\ AddEmptyFile(path) /\ GoSave(path)

(* CreateFile(path, size): when no extent is large enough, the entry that   *)
(* was added with size 0 stays.                                             *)
CreateFileNoSpace(path, size) ==
    /\ Idle /\ AddEmptyFile(path)
    /\ GetIndexOfFreeFilePartition(fsPartitionList, size) = 0
    /\ Finish("error")

CreateFileSized(path, size) ==
    LET i    == GetIndexOfFreeFilePartition(fsPartitionList, size)
        file == [loc |-> fsPartitionList[i].loc, size |-> size]
    IN  /\ Idle /\ ~FileExists(path)
        /\ i # 0
        /\ fsPartitionList' = CreateFilePartition(fsPartitionList, size)
        /\ fsFileList' = With(fsFileList, path, file)
        /\ expected' = With(expected, path, Contents(file, disk))
        /\ GoSave(path)
        /\ UNCHANGED <<mounted, unread, disk, saved, stale, harmed>>

(* The extent a file's location leads to: 0 when there is none.             *)
ExtentIndex(path) ==
    GetIndexOfPartitionFromLocation(fsPartitionList, fsFileList[path].loc)

(* Mutant: the old extent is kept.                                          *)
ReleasedNothing(path) == fsPartitionList

(* The list once the extent of a file is given back.                        *)
Released(path) ==
    IF fsFileList[path].size = 0 THEN fsPartitionList
    ELSE LET i == ExtentIndex(path)
         IN  IF fsPartitionList[i].size = 0 THEN fsPartitionList
             ELSE DeleteFilePartition(fsPartitionList, i)

ExtentFound(path) == fsFileList[path].size # 0 => ExtentIndex(path) # 0

(* A stale entry releases whatever now lies at its location.                *)
HarmIfStale(path) == harmed' = (harmed \/ path \in stale)

DeleteFile(path) ==
    /\ Idle /\ FileExists(path)
    /\ ExtentFound(path)
    /\ fsPartitionList' = Released(path)
    /\ fsFileList' = Without(fsFileList, path)
    /\ expected' = Without(expected, path)
    /\ stale' = stale \ {path}
    /\ HarmIfStale(path)
    /\ GoSave(path)
    /\ UNCHANGED <<mounted, unread, disk, saved>>

(* No extent at the location of the file: the file cannot be deleted.       *)
DeleteFileLost(path) ==
    /\ Idle /\ FileExists(path)
    /\ ~ExtentFound(path)
    /\ Finish("error")
    /\ UNCHANGED <<mounted, unread, memory, disk, saved, history>>

RenameFile(old, new) ==
    /\ Idle /\ FileExists(old) /\ ~FileExists(new)
    /\ fsFileList' = With(Without(fsFileList, old), new, fsFileList[old])
    /\ expected' = With(Without(expected, old), new, expected[old])
    /\ stale' = IF old \in stale THEN (stale \ {old}) \cup {new} ELSE stale
    /\ GoSave(new)
    /\ UNCHANGED <<mounted, unread, fsPartitionList, disk, saved, harmed>>

-----------------------------------------------------------------------------
(* WriteFile, as a call of its own (source = NoPath) or made by CopyFile.   *)

WriteInPlace(path, bytes, source) ==
    /\ Len(bytes) = fsFileList[path].size
    /\ IF bytes = <<>>
       THEN Finish("none") /\ UNCHANGED harmed
       ELSE Continue("data", path, bytes, source) /\ HarmIfStale(path)
    /\ UNCHANGED <<mounted, unread, memory, disk, saved, expected, stale>>

WriteLost(path, bytes) ==
    /\ Len(bytes) # fsFileList[path].size
    /\ ~ExtentFound(path)
    /\ Finish("error")
    /\ UNCHANGED <<mounted, unread, memory, disk, saved, history>>

(* The old extent is free again and no free extent is large enough: the     *)
(* call ends there, and the file entry is left as it was.                   *)
WriteNoSpace(path, bytes, source) ==
    /\ Len(bytes) # fsFileList[path].size
    /\ ExtentFound(path)
    /\ GetIndexOfFreeFilePartition(Released(path), Len(bytes)) = 0
    /\ fsPartitionList' = Released(path)
    /\ stale' = IF Released(path) = fsPartitionList THEN stale
                ELSE stale \cup {path}
    /\ HarmIfStale(path)
    /\ Finish(IF source = NoPath THEN "error" ELSE "copied")
    /\ UNCHANGED <<mounted, unread, fsFileList, disk, saved, expected>>

WriteMoved(path, bytes, source) ==
    LET i == GetIndexOfFreeFilePartition(Released(path), Len(bytes))
    IN  /\ Len(bytes) # fsFileList[path].size
        /\ ExtentFound(path)
        /\ i # 0
        /\ fsPartitionList' = CreateFilePartition(Released(path), Len(bytes))
        /\ fsFileList' = With(fsFileList, path,
                             [loc |-> Released(path)[i].loc,
                              size |-> Len(bytes)])
        /\ stale' = stale \ {path}
        /\ HarmIfStale(path)
        /\ Continue("data", path, bytes, source)
        /\ UNCHANGED <<mounted, unread, disk, saved, expected>>

WriteFile(path, bytes, source) ==
    \/ WriteInPlace(path, bytes, source)
    \/ WriteLost(path, bytes)
    \/ WriteNoSpace(path, bytes, source)
    \/ WriteMoved(path, bytes, source)

CallWriteFile(path, bytes) ==
    Idle /\ FileExists(path) /\ WriteFile(path, bytes, NoPath)

Overwrite(bytes, address) ==
    [b \in DataArea |-> IF b \in address .. (address + Len(bytes) - 1)
                       THEN bytes[b - address + 1] ELSE disk[b]]

(* WritePartition with the bytes of the file.  When it fails, the call ends *)
(* and the table is not saved.                                              *)
WriteData(ok) ==
    LET file == fsFileList[cur]
    IN  /\ pc = "data"
        /\ IF ok /\ InBounds(file.loc, file.size)
           THEN /\ disk' = Overwrite(data, file.loc)
                /\ expected' = With(expected, cur, data)
                /\ Continue("table", cur, <<>>, from)
           ELSE /\ UNCHANGED disk
                /\ expected' = With(expected, cur, Contents(file, disk))
                /\ Finish(IF from = NoPath THEN "error" ELSE "copied")
        /\ UNCHANGED <<mounted, unread, memory, saved, stale, harmed>>

(* A part of a file is written in place; the table is not saved.            *)
WriteFileBuffer(path, address, bytes) ==
    LET file == fsFileList[path]
    IN  /\ Idle /\ FileExists(path)
        /\ address + Len(bytes) <= file.size
        /\ InBounds(file.loc + address, Len(bytes))
        /\ disk' = Overwrite(bytes, file.loc + address)
        /\ expected' = With(expected, path, Contents(file, disk'))
        /\ HarmIfStale(path)
        /\ Finish("none")
        /\ UNCHANGED <<mounted, unread, memory, saved, stale>>

-----------------------------------------------------------------------------
(* CopyFile: create the target and save, read the source, write the target. *)
(* It reports success whatever its reads and writes return.                 *)

CopyFile(old, new) ==
    /\ Idle /\ FileExists(old)
    /\ AddEmptyFile(new)
    /\ Continue("create", new, <<>>, old)

CopyData(ok) ==
    LET file == fsFileList[from]
    IN  /\ pc = "copy"
        /\ IF ok /\ InBounds(file.loc, file.size) /\ file.size # 0
           THEN WriteFile(cur, Contents(file, disk), from)
           ELSE /\ Finish("copied")
                /\ UNCHANGED <<mounted, unread, memory, disk, saved, history>>

-----------------------------------------------------------------------------
(* The table.                                                               *)

TableFits ==
    LET size == TableSize(fsPartitionList, fsFileList)
    IN  size <= maxFSTableSize /\ InBounds(0, size)

(* Mutant: a call reports success without looking at what the save returned. *)
SaveFSTableUnchecked(ok) ==
    /\ pc \in {"table", "create"}
    /\ saved' = IF ok /\ TableFits
                THEN [list |-> fsPartitionList, files |-> fsFileList,
                      stale |-> stale, unread |-> unread]
                ELSE saved
    /\ IF pc = "create" THEN Continue("copy", cur, <<>>, from)
       ELSE Finish(IF from = NoPath THEN "ok" ELSE "copied")
    /\ UNCHANGED <<mounted, unread, memory, disk, history>>

SaveFSTable(ok) ==
    /\ pc \in {"table", "create"}
    /\ IF ok /\ TableFits
       THEN /\ saved' = [list |-> fsPartitionList, files |-> fsFileList,
                         stale |-> stale, unread |-> unread]
            /\ IF pc = "create" THEN Continue("copy", cur, <<>>, from)
               ELSE Finish(IF from = NoPath THEN "ok" ELSE "copied")
       ELSE /\ UNCHANGED saved
            /\ Finish(IF pc = "table" /\ from # NoPath THEN "copied" ELSE "error")
    /\ UNCHANGED <<mounted, unread, memory, disk, history>>

(* What a caller can expect to find after the lists are read from the disk: *)
(* the files whose entry is the saved one keep their bytes, except the file *)
(* that was being written; of the others, whatever the disk holds.          *)
Recovered(path) ==
    IF /\ FileExists(path)
       /\ fsFileList[path] = saved.files[path]
       /\ path \notin stale
       /\ ~(pc = "data" /\ path = cur)
    THEN expected[path]
    ELSE Contents(saved.files[path], disk)

Crash ==
    /\ mounted
    /\ mounted' = FALSE
    /\ fsPartitionList' = <<>> /\ fsFileList' = <<>>
    /\ expected' = [path \in DOMAIN saved.files |-> Recovered(path)]
    /\ stale' = saved.stale /\ unread' = FALSE
    /\ Finish("none")
    /\ UNCHANGED <<disk, saved, harmed>>

(* At boot, or for a volume in use: its lists are cleared and read anew.    *)
TableLoaded ==
    /\ fsPartitionList' = saved.list /\ fsFileList' = saved.files
    /\ expected' = IF mounted
                   THEN [path \in DOMAIN saved.files |-> Recovered(path)]
                   ELSE expected
    /\ stale' = saved.stale /\ unread' = saved.unread
    /\ Finish("none")

(* Either read fails: the lists stay empty, which nobody looks at at boot.  *)
TableUnread ==
    /\ fsPartitionList' = <<>> /\ fsFileList' = <<>>
    /\ expected' = <<>>
    /\ stale' = {} /\ unread' = TRUE
    /\ Finish("error")

LoadFSTable(ok) ==
    /\ pc = "idle" /\ mounted' = TRUE
    /\ IF ok THEN TableLoaded ELSE TableUnread
    /\ UNCHANGED <<disk, saved, harmed>>

(* A volume in use is formatted again.                                      *)
InitAndSaveFSTable ==
    /\ Idle
    /\ fsPartitionList' = EmptyList /\ fsFileList' = <<>>
    /\ expected' = <<>>
    /\ stale' = {} /\ unread' = FALSE
    /\ GoSave(NoPath)
    /\ UNCHANGED <<mounted, disk, saved, harmed>>

(* The lists are saved as they are.                                         *)
CallSaveFSTable ==
    /\ Idle
    /\ GoSave(NoPath)
    /\ UNCHANGED <<mounted, unread, memory, disk, saved, history>>

-----------------------------------------------------------------------------
(* Callers write the same token to every byte of one call.                  *)
Fill(token, size) == [i \in 1 .. size |-> token]

Step ==
    \/ \E path \in Paths :
          \/ CreateFile(path) \/ DeleteFile(path) \/ DeleteFileLost(path)
          \/ \E size \in Sizes :
                \/ CreateFileSized(path, size)
                \/ CreateFileNoSpace(path, size)
                \/ \E token \in Tokens :
                      \/ CallWriteFile(path, Fill(token, size))
                      \/ \E address \in {0, 1} :
                            WriteFileBuffer(path, address, Fill(token, size))
    \/ \E old, new \in Paths : RenameFile(old, new) \/ CopyFile(old, new)
    \/ \E ok \in DiskOutcomes : WriteData(ok) \/ CopyData(ok) \/ SaveFSTable(ok)
                                    \/ LoadFSTable(ok)
    \/ Crash
    \/ InitAndSaveFSTable
    \/ CallSaveFSTable

(* A file that is created or written with size zero leaves an empty extent  *)
(* behind for good, so the list grows without limit in the code.            *)
Next == Step /\ Len(fsPartitionList') <= MaxExtents

Spec == Init /\ [][Next]_vars

-----------------------------------------------------------------------------
Parts == [loc : 0 .. partitionSize, size : 0 .. partitionSize, free : BOOLEAN]
Files == [loc : 0 .. partitionSize, size : 0 .. partitionSize]

IsFileMap(files) ==
    DOMAIN files \subseteq Paths /\ \A p \in DOMAIN files : files[p] \in Files

(* The types of the variables.                                              *)
TypeOK ==
    /\ mounted \in BOOLEAN
    /\ fsPartitionList \in Seq(Parts)
    /\ IsFileMap(fsFileList)
    /\ disk \in [DataArea -> Tokens]
    /\ saved.list \in Seq(Parts) /\ IsFileMap(saved.files)
    /\ pc \in {"idle", "create", "copy", "data", "table"}
    /\ {cur, from} \subseteq Paths \cup {NoPath}
    /\ data \in Seq(Tokens)
    /\ result \in {"none", "ok", "copied", "error"}
    /\ mounted => DOMAIN expected = DOMAIN fsFileList
    /\ \A p \in DOMAIN expected : expected[p] \in Seq(Tokens)
    /\ stale \subseteq Paths
    /\ {unread, saved.unread, harmed} \subseteq BOOLEAN

(* Whatever fails and whenever the power goes, the extents in memory cover  *)
(* the partition without gap or overlap, the table keeps its own, and no    *)
(* two free extents lie side by side, so that a file that fits into the     *)
(* free bytes of one place is never refused.  Only after a load that failed *)
(* there are none, until the volume is formatted or a good table is loaded: *)
(* what is saved in between takes the place of the table.                   *)
ExtentsTile ==
    /\ TypeOK
    /\ mounted /\ ~unread =>
          /\ Tiles(fsPartitionList, partitionSize)
          /\ fsPartitionList[1] = FSPartitionInfo(0, maxFSTableSize, FALSE)
    /\ \A i \in 1 .. (Len(fsPartitionList) - 1) :
          ~(fsPartitionList[i].free /\ fsPartitionList[i + 1].free)

Owns(path, i) ==
    /\ ~fsPartitionList[i].free
    /\ fsPartitionList[i].loc = fsFileList[path].loc
    /\ fsPartitionList[i].size = fsFileList[path].size

Sound(path) == path \notin stale /\ fsFileList[path].size # 0

(* Until an entry left behind by a failed write is used again, each file    *)
(* with data has an extent of its own: one that is not free, of exactly its *)
(* size, and that no other file points to.                                  *)
FilesOwnExtents ==
    mounted /\ ~harmed =>
        /\ \A p \in DOMAIN fsFileList :
              Sound(p) => \E i \in 2 .. Len(fsPartitionList) : Owns(p, i)
        /\ \A p, q \in DOMAIN fsFileList :
              Sound(p) /\ Sound(q) /\ p # q =>
                  Extent(fsFileList[p]) \cap Extent(fsFileList[q]) = {}

(* Under the same proviso a file reads back as what was last put into it,   *)
(* also after calls on other files, failed calls, a crash before any disk   *)
(* write and a reload.  A crash may cost the file being written, and undoes *)
(* what was not saved.                                                      *)
DataIntegrity ==
    mounted /\ ~harmed =>
        \A p \in DOMAIN fsFileList :
            Sound(p) /\ ~(pc = "data" /\ p = cur) =>
                Contents(fsFileList[p], disk) = expected[p]

(* A call whose save succeeded leaves on the disk exactly the lists in      *)
(* memory: a crash right after it loses nothing.                            *)
ReportedIsDurable ==
    mounted /\ result = "ok" =>
        /\ saved.list = fsPartitionList
        /\ saved.files = fsFileList

(* Every extent that is not free belongs to the table or to a file.  Only   *)
(* where an empty one lies, which no file that was written again or deleted *)
(* ever gives back, the extent of a file may be lost, as it goes by its     *)
(* location.                                                                *)
NoLeak ==
    mounted /\ ~harmed /\ (\A i \in DOMAIN fsPartitionList : fsPartitionList[i].size # 0) =>
        \A i \in 2 .. Len(fsPartitionList) :
            ~fsPartitionList[i].free =>
                \E p \in DOMAIN fsFileList : Owns(p, i)
=============================================================================
