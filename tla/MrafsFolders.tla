---------------------------- MODULE MrafsFolders ----------------------------
(***************************************************************************)
(* Files and folders of MRAFS (Filesystem_Interfaces/mrafs): deleting,      *)
(* copying or renaming a folder does the same to each of its files, then to *)
(* each of its folders, then to itself, and saves the whole table every     *)
(* time; what the inner calls answer is ignored.  Where the data lies is    *)
(* left to Mrafs: here a file has its contents, or is Broken, when it could *)
(* not be copied.  Refines FolderTree.                                      *)
(*                                                                         *)
(* One action is one inner call, up to its save.  Any save may fail, as the *)
(* table may not fit or the disk access may fail, and the power may go      *)
(* between any two actions.  The order of the lists is left open.           *)
(***************************************************************************)
EXTENDS Integers, Sequences, SequencesExt, FiniteSets, Functions

CONSTANTS
    FullPaths,      \* bound: sequences of names
    FirstEntries,   \* bound: files and folders at boot
    MaxEntries,     \* bound: files and folders at any time
    MaxCalls,       \* bound: calls of users
    MaxFaults,      \* bound: saves that fail, and losses of power
    Broken, None    \* model values

ASSUME FoldersAssumption ==
    /\ IsFiniteSet(FullPaths)
    /\ \A p \in FullPaths : p \in Seq(Range(p)) /\ p # <<>>
    /\ {FirstEntries, MaxEntries, MaxCalls, MaxFaults} \subseteq Nat
    /\ Broken \notin FullPaths
    /\ None \notin [from : FullPaths, to : FullPaths]

VARIABLES
    lists,          \* fsFileList, fsFolderList
    table,          \* the table on the disk
    calls,          \* the folder calls under way, the innermost one last
    copy,           \* the copy of a file under way
    seen,           \* what the user saw last: the answer, and the tree then
    asked, faults,  \* calls, and failures, so far
    doomed,         \* history: contents that a call was asked to delete
    goal,           \* history: a call that was begun with everything saved,
                    \*   and what it was to achieve
    astray          \* history: an entry may be in a folder that is not there

folderVars == <<lists, table, calls, copy, seen, asked, faults, doomed, goal, astray>>

Tree == INSTANCE FolderTree WITH
    Paths <- FullPaths, tree <- seen.tree, saved <- table, answer <- seen.answer

Entries(t) == Tree!Entries(t)
Moved(p, old, new) == Tree!Moved(p, old, new)

(* A boot, with any table that was saved before.                            *)
FoldersInit ==
    /\ \E files, folders \in SUBSET FullPaths :
          /\ Cardinality(files) + Cardinality(folders) <= FirstEntries
          /\ lists = [files |-> [p \in files |-> p], folders |-> folders]
          /\ Tree!Closed(lists)
    /\ table = lists
    /\ calls = <<>> /\ copy = None
    /\ seen = [tree |-> lists, answer |-> "none"]
    /\ asked = 0 /\ faults = 0
    /\ doomed = {} /\ goal = None
    /\ astray = FALSE

NoCall == calls = <<>> /\ copy = None

-----------------------------------------------------------------------------
(* The list operations, and SaveFSTable behind each of them.                *)
Save(t, ok) ==
    /\ ok \/ faults < MaxFaults
    /\ lists' = t
    /\ table' = IF ok THEN t ELSE table
    /\ faults' = IF ok THEN faults ELSE faults + 1

WithFile(p, c) == [lists EXCEPT !.files = [q \in DOMAIN @ \cup {p} |->
                                             IF q = p THEN c ELSE @[q]]]
WithFolder(p) == [lists EXCEPT !.folders = @ \cup {p}]
WithoutFile(p) == [lists EXCEPT !.files = Restrict(@, DOMAIN @ \ {p})]
WithoutFolder(p) == [lists EXCEPT !.folders = @ \ {p}]

(* Mutant: the new folder is made as soon as a file is in it.               *)
FileRenamedIntoFolder(old, new) ==
    [files   |-> [q \in (DOMAIN lists.files \cup {new}) \ {old} |->
                    IF q = new THEN lists.files[old] ELSE lists.files[q]],
     folders |-> (lists.folders \cup {Front(new)}) \ {<<>>}]

FileRenamed(old, new) ==
    [lists EXCEPT !.files = [q \in (DOMAIN @ \cup {new}) \ {old} |->
                                IF q = new THEN @[old] ELSE @[q]]]
FolderRenamed(old, new) == [lists EXCEPT !.folders = (@ \ {old}) \cup {new}]

(* Mutant: a file in the new place is replaced.                             *)
MayTakeFileAnyway(old, new) == old # new /\ old \in DOMAIN lists.files

(* The checks of CopyFile and RenameFile.                                   *)
MayTakeFile(old, new) ==
    /\ old # new /\ old \in DOMAIN lists.files
    /\ new \notin DOMAIN lists.files /\ new \notin lists.folders

Operations == {"delete", "copy", "rename"}

(* The checks of the folder calls.                                          *)
MayBegin(op, old, new) ==
    /\ old \in lists.folders
    /\ op # "delete" => old # new /\ new \notin lists.folders

(* GetFiles and GetFolders: what is in a folder, by its path with one name  *)
(* more.                                                                    *)
GetFiles(path) == {p \in DOMAIN lists.files : Len(p) > 1 /\ Front(p) = path}
GetFolders(path) == {p \in lists.folders : Len(p) > 1 /\ Front(p) = path}

Frame(op, old, new) ==
    [op |-> op, old |-> old, new |-> new,
     files |-> GetFiles(old), folders |-> GetFolders(old)]

-----------------------------------------------------------------------------
(* What a user asks for.                                                    *)
Returned(ok) == seen' = [tree |-> lists', answer |-> IF ok THEN "ok" ELSE "failed"]

(* Remembered as long as it may still be found on the disk.                 *)
Doom(paths) ==
    doomed' = (doomed \cap Range(table.files))
                 \cup {lists.files[p] : p \in paths \cap DOMAIN lists.files}

Stray(p) == Len(p) > 1 /\ Front(p) \notin lists.folders
NoteStray(p) == astray' = (astray \/ Stray(p))

Used(id) == id \in Range(lists.files) \cup Range(table.files)

CallCreateFile(p) ==
    /\ p \notin DOMAIN lists.files /\ ~Used(p)
    /\ \E ok \in BOOLEAN : Save(WithFile(p, p), ok) /\ Returned(ok)
    /\ Doom({}) /\ NoteStray(p)
    /\ UNCHANGED <<calls, copy>>

CallCreateFolder(p) ==
    /\ p \notin lists.folders
    /\ \E ok \in BOOLEAN : Save(WithFolder(p), ok) /\ Returned(ok)
    /\ Doom({}) /\ NoteStray(p)
    /\ UNCHANGED <<calls, copy>>

CallDeleteFile(p) ==
    /\ p \in DOMAIN lists.files
    /\ \E ok \in BOOLEAN : Save(WithoutFile(p), ok) /\ Returned(ok)
    /\ Doom({p})
    /\ UNCHANGED <<calls, copy, astray>>

CallRenameFile(old, new) ==
    /\ MayTakeFile(old, new)
    /\ \E ok \in BOOLEAN : Save(FileRenamed(old, new), ok) /\ Returned(ok)
    /\ Doom({}) /\ NoteStray(new)
    /\ UNCHANGED <<calls, copy>>

(* CopyFile up to and with CreateFile; CopyContents is the rest.            *)
CallCopyFile(old, new) ==
    /\ MayTakeFile(old, new)
    /\ \E ok \in BOOLEAN :
          /\ Save(WithFile(new, Broken), ok)
          /\ IF ok THEN copy' = [from |-> old, to |-> new] /\ UNCHANGED seen
             ELSE Returned(FALSE) /\ UNCHANGED copy
    /\ Doom({}) /\ NoteStray(new)
    /\ UNCHANGED calls

Wanted(op, old, new) ==
    [op |-> op, old |-> old, new |-> new,
     tree |-> IF op = "rename" THEN Tree!Renamed(lists, old, new)
              ELSE Tree!Deleted(lists, old)]

Again(op, old, new) ==
    goal # None /\ goal.op = op /\ goal.old = old /\ goal.new = new

CallFolder(op, old, new) ==
    /\ MayBegin(op, old, new)
    /\ calls' = <<Frame(op, old, new)>>
    /\ Doom(IF op = "delete" THEN Tree!Below(lists, old) ELSE {})
    /\ goal' = IF Again(op, old, new) THEN goal
               ELSE IF op # "copy" /\ table = lists THEN Wanted(op, old, new)
               ELSE None
    /\ astray' = (astray \/ (op # "delete" /\ (Stray(new) \/ IsStrictPrefix(old, new))))
    /\ UNCHANGED <<lists, table, copy, seen, faults>>

(* What the first checks of each call turn away: there is always such a     *)
(* call, as either creating or deleting a file is.                          *)
Refused ==
    /\ seen' = [seen EXCEPT !.answer = "failed"]
    /\ Doom({})
    /\ UNCHANGED <<lists, table, calls, copy, faults, astray>>

Fits(op, old, new) ==
    LET below == Tree!Below(lists, old) IN
    op # "delete" =>
        /\ \A p \in below : Moved(p, old, new) \in FullPaths
        /\ op = "copy" => Cardinality(Entries(lists)) + Cardinality(below) < MaxEntries

Room == Cardinality(Entries(lists)) < MaxEntries

Ask ==
    /\ NoCall /\ asked < MaxCalls /\ asked' = asked + 1
    /\ \/ /\ goal' = None
          /\ \/ \E p \in FullPaths :
                   \/ Room /\ (CallCreateFile(p) \/ CallCreateFolder(p))
                   \/ CallDeleteFile(p)
                   \/ \E new \in FullPaths :
                         CallRenameFile(p, new) \/ (Room /\ CallCopyFile(p, new))
             \/ Refused
       \/ \E op \in Operations : \E old \in lists.folders, new \in FullPaths :
             /\ op = "delete" => new = old
             /\ Fits(op, old, new)
             /\ CallFolder(op, old, new)

-----------------------------------------------------------------------------
(* The call under way.                                                      *)
Top == Last(calls)
ChangeTop(frame) == calls' = Append(Front(calls), frame)

(* A failure in the middle of a rename or a copy leaves entries of the new  *)
(* place without their folder.                                              *)
NoteFault == astray' = (astray \/ (faults' # faults /\ calls[1].op # "delete"))

(* DeleteFile, RenameFile or CopyFile for one of its files.                 *)
NextFile ==
    /\ calls # <<>> /\ copy = None
    /\ \E p \in Top.files :
          LET new == Moved(p, Top.old, Top.new) IN
          /\ ChangeTop([Top EXCEPT !.files = @ \ {p}])
          /\ IF Top.op # "delete" /\ ~MayTakeFile(p, new)
             THEN UNCHANGED <<lists, table, copy, faults>>
             ELSE \E ok \in BOOLEAN :
                     /\ Save(CASE Top.op = "delete" -> WithoutFile(p)
                               [] Top.op = "rename" -> FileRenamed(p, new)
                               [] Top.op = "copy"   -> WithFile(new, Broken), ok)
                     /\ copy' = IF Top.op = "copy" /\ ok
                                THEN [from |-> p, to |-> new] ELSE None
    /\ NoteFault
    /\ UNCHANGED <<seen, asked, doomed, goal>>

(* The second half of CopyFile, ReadFile and WriteFile: either may fail     *)
(* without a change to the list, or the last save; "success" it is anyway.  *)
CopyContents ==
    /\ copy # None
    /\ \/ \E ok \in BOOLEAN : Save(WithFile(copy.to, lists.files[copy.from]), ok)
       \/ Save(lists, FALSE)
    /\ copy' = None
    /\ IF calls = <<>> THEN Returned(TRUE) /\ UNCHANGED astray
       ELSE UNCHANGED seen /\ NoteFault
    /\ UNCHANGED <<calls, asked, doomed, goal>>

(* The same call for one of its folders.                                    *)
NextFolder ==
    /\ calls # <<>> /\ copy = None /\ Top.files = {}
    /\ \E q \in Top.folders :
          LET rest == [Top EXCEPT !.folders = @ \ {q}]
              new  == Moved(q, Top.old, Top.new) IN
          calls' = Append(Front(calls), rest) \o
                      (IF MayBegin(Top.op, q, new)
                       THEN <<Frame(Top.op, q, new)>> ELSE <<>>)
    /\ UNCHANGED <<lists, table, copy, seen, asked, faults, doomed, goal, astray>>

(* Mutant: the folders in it are forgotten.                                 *)
NothingLeftButFolders(frame) == frame.files = {}

NothingLeft(frame) == frame.files = {} /\ frame.folders = {}

(* The folder itself, at last.                                              *)
FolderDone ==
    /\ calls # <<>> /\ copy = None /\ NothingLeft(Top)
    /\ \E ok \in BOOLEAN :
          /\ Save(CASE Top.op = "delete" -> WithoutFolder(Top.old)
                    [] Top.op = "rename" -> FolderRenamed(Top.old, Top.new)
                    [] Top.op = "copy"   -> WithFolder(Top.new), ok)
          /\ IF Len(calls) = 1 THEN Returned(ok) /\ goal' = None
             ELSE UNCHANGED <<seen, goal>>
    /\ calls' = Front(calls)
    /\ NoteFault
    /\ UNCHANGED <<copy, asked, doomed>>

(* Everything in memory is lost; LoadFSTable at the next boot, which reads   *)
(* the table here (Mrafs has the load that fails).                          *)
PowerLoss ==
    /\ faults < MaxFaults
    /\ faults' = faults + 1
    /\ lists' = table
    /\ calls' = <<>> /\ copy' = None
    /\ seen' = [tree |-> table, answer |-> "none"]
    /\ goal' = IF calls = <<>> THEN None ELSE goal
    /\ astray' = (astray \/ (calls # <<>> /\ calls[1].op # "delete"))
    /\ doomed' = {}
    /\ UNCHANGED <<table, asked>>

FoldersNext == Ask \/ NextFile \/ CopyContents \/ NextFolder \/ FolderDone \/ PowerLoss

FoldersSpec == FoldersInit /\ [][FoldersNext]_folderVars

-----------------------------------------------------------------------------
(* The types of the variables.                                              *)
IsTree(t) ==
    /\ DOMAIN t.files \subseteq FullPaths
    /\ Range(t.files) \subseteq FullPaths \cup {Broken}
    /\ t.folders \subseteq FullPaths

FoldersTyped ==
    /\ IsTree(lists) /\ IsTree(table) /\ IsTree(seen.tree)
    /\ Len(calls) <= Cardinality(FullPaths)
    /\ \A i \in DOMAIN calls :
          /\ calls[i].op \in Operations
          /\ calls[i].files \cup calls[i].folders \subseteq FullPaths
    /\ faults \in 0 .. MaxFaults
    /\ doomed \subseteq FullPaths \cup {Broken}
    /\ astray \in BOOLEAN

(* To its caller, a call on a folder is one step on the whole of what it    *)
(* holds: all of that goes along, and nothing else changes, whatever fails  *)
(* on the way; a call that answers success has saved it.                    *)
ImplementsTree == Tree!Spec

(* As long as users put entries into folders that exist, and no failure     *)
(* comes into a rename or a copy, the table on the disk has no entry that   *)
(* cannot be reached; and none either while a folder is being deleted.      *)
SavedIsClosed ==
    ~astray /\ (calls # <<>> => calls[1].op = "delete") => Tree!Closed(table)

(* A file that once is in the table on the disk stays there, at its old or  *)
(* at a new place, until a user asks to delete it, and can be reached there *)
(* unless a rename or a copy was broken off: whatever save fails, and       *)
(* wherever the power goes, as long as the next boot can read the table.    *)
NothingLost ==
    /\ [](FoldersTyped /\ SavedIsClosed)
    /\ [][Range(table.files) \subseteq
             Range(table'.files) \cup doomed' \cup {Broken}]_folderVars

(* A folder call that the power cut off can be made again: it is not turned *)
(* away because of what it has done already, and then achieves what it was  *)
(* to achieve, as if it had not been cut off.                               *)
RetryCompletes ==
    /\ [](NoCall /\ goal # None => MayBegin(goal.op, goal.old, goal.new))
    /\ [][calls # <<>> /\ calls' = <<>> /\ goal # None /\ seen'.answer = "ok"
             => lists' = goal.tree]_folderVars
=============================================================================
