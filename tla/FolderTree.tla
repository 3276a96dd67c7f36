----------------------------- MODULE FolderTree -----------------------------
(***************************************************************************)
(* What the calls of a file system with folders promise their callers: each *)
(* is one step on a tree of files and folders.  A tree is a record of its   *)
(* files, a function from their paths to what is in them, and the set of    *)
(* the paths of its folders.  A path is a sequence of names; nothing says   *)
(* that the folders around an entry exist, and what lies in a folder that   *)
(* does not exist is not reached from the folders above it.  The contents   *)
(* of files are told apart by the paths they were created with.             *)
(***************************************************************************)
EXTENDS Sequences, SequencesExt, Functions, Naturals

CONSTANTS
    Paths,          \* sequences of names, none of them empty
    Broken          \* what is in a file whose copying failed

VARIABLES
    tree,           \* what the callers see
    saved,          \* what a loss of power leaves
    answer          \* of the last call: "none", "ok" or "failed"

vars == <<tree, saved, answer>>

Entries(t) == DOMAIN t.files \cup t.folders

(* Every entry is in a folder that exists, or in none.                      *)
Closed(t) == \A p \in Entries(t) : Len(p) > 1 => Front(p) \in t.folders

Within(old, p) == IsStrictPrefix(old, p)
Moved(p, old, new) == new \o SubSeq(p, Len(old) + 1, Len(p))

(* The folders on the way from old down to p, p included.                   *)
Way(old, p) == {SubSeq(p, 1, n) : n \in (Len(old) + 1) .. Len(p)}

With(t, p, c) ==
    [t EXCEPT !.files = [q \in DOMAIN @ \cup {p} |-> IF q = p THEN c ELSE @[q]]]
WithFolder(t, p) == [t EXCEPT !.folders = @ \cup {p}]

(* What is reached from old, without old itself.                            *)
Below(t, old) ==
    {p \in Entries(t) : Within(old, p) /\ Way(old, Front(p)) \subseteq t.folders}

(* What a move or a copy of a folder takes along: its folders, but those    *)
(* that exist in the new place already, and the files in it and in these,   *)
(* unless there is something in their new place.                            *)
TakenFolders(t, old, new) ==
    {q \in t.folders : Within(old, q) /\
        \A w \in Way(old, q) : w \in t.folders /\ Moved(w, old, new) \notin t.folders}

TakenFiles(t, old, new) ==
    {p \in DOMAIN t.files :
        /\ Within(old, p)
        /\ Front(p) \in {old} \cup TakenFolders(t, old, new)
        /\ Moved(p, old, new) \notin Entries(t)}

Copies(ps, old, new) == {Moved(p, old, new) : p \in ps}

FilesWithCopies(t, old, new) ==
    LET taken == TakenFiles(t, old, new)
        copies == Copies(taken, old, new) IN
    [t EXCEPT !.files = [p \in DOMAIN @ \cup copies |->
        IF p \in copies THEN @[CHOOSE q \in taken : Moved(q, old, new) = p]
        ELSE @[p]]]

FoldersWithCopies(t, old, new) ==
    [t EXCEPT !.folders =
        @ \cup {new} \cup Copies(TakenFolders(t, old, new), old, new)]

Copied(t, old, new) == FoldersWithCopies(FilesWithCopies(t, old, new), old, new)

Renamed(t, old, new) ==
    LET all == Copied(t, old, new) IN
    [files   |-> Restrict(all.files, DOMAIN all.files \ TakenFiles(t, old, new)),
     folders |-> all.folders \ ({old} \cup TakenFolders(t, old, new))]

Deleted(t, old) ==
    [files   |-> Restrict(t.files, DOMAIN t.files \ Below(t, old)),
     folders |-> t.folders \ ({old} \cup Below(t, old))]

-----------------------------------------------------------------------------
Init == tree = saved /\ answer = "none"

(* A call that changes the tree to what the caller sees from then on: if it *)
(* answers "ok", a loss of power leaves that tree too.                      *)
Changed(t) ==
    /\ answer' \in {"ok", "failed"}
    /\ answer' = "ok" => saved' = tree'
    /\ tree' = t

CreateFile(p) == p \notin DOMAIN tree.files /\ Changed(With(tree, p, p))

CreateFolder(p) == p \notin tree.folders /\ Changed(WithFolder(tree, p))

DeleteFile(p) == Changed([tree EXCEPT !.files = Restrict(@, DOMAIN @ \ {p})])

DeleteFolder(p) == Changed(Deleted(tree, p))

RenameFile(old, new) ==
    Changed([tree EXCEPT !.files =
               [q \in (DOMAIN @ \cup {new}) \ {old} |->
                  IF q = new THEN @[old] ELSE @[q]]])

(* A copy of a file is a file whatever the answer; "ok" does not say that   *)
(* its contents arrived or are saved.                                       *)
CopyFile(old, new) ==
    LET copies == {With(tree, new, tree.files[old]), With(tree, new, Broken)} IN
    /\ answer' \in {"ok", "failed"}
    /\ answer' = "ok" => saved' \in copies
    /\ tree' \in copies

RenameFolder(old, new) == Changed(Renamed(tree, old, new))

CopyFolder(old, new) ==
    \E broken \in SUBSET Copies(TakenFiles(tree, old, new), old, new) :
        LET t == Copied(tree, old, new) IN
        Changed([t EXCEPT !.files =
                   [p \in DOMAIN @ |-> IF p \in broken THEN Broken ELSE @[p]]])

Calls ==
    \/ \E p \in Paths : CreateFolder(p) \/ CreateFile(p)
    \/ \E p \in DOMAIN tree.files :
          \/ DeleteFile(p)
          \/ \E new \in Paths \ Entries(tree) : RenameFile(p, new) \/ CopyFile(p, new)
    \/ \E p \in tree.folders :
          \/ DeleteFolder(p)
          \/ \E new \in Paths \ tree.folders : RenameFolder(p, new) \/ CopyFolder(p, new)

(* A call that asks for something else.                                     *)
Refused == answer' = "failed" /\ UNCHANGED <<tree, saved>>

(* A call that has not returned saves what it has done so far.              *)
Saving == UNCHANGED <<tree, answer>>

PowerLoss == tree' = saved /\ answer' = "none" /\ UNCHANGED saved

Next == Saving \/ Refused \/ PowerLoss \/ Calls

Spec == Init /\ [][Next]_vars
=============================================================================
