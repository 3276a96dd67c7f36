----------------------------- MODULE MrafsProofs -----------------------------
(***************************************************************************)
(* The files of Mrafs, for any partition, any files, any data and any       *)
(* number of extents: the extents tile the partition, files own theirs,     *)
(* keep their bytes and lose none, and what is reported saved is saved.     *)
(***************************************************************************)
EXTENDS Mrafs, SequenceLemmas

Pieces == [loc : Nat, size : Nat, free : BOOLEAN]
Table == FSPartitionInfo(0, maxFSTableSize, FALSE)

(* The extents tile the partition, and none that is free is empty, unless   *)
(* there is no room but for the table.                                      *)
Formed(list) ==
    /\ list \in Seq(Pieces)
    /\ Tiles(list, partitionSize)
    /\ list[1] = Table
    /\ partitionSize # maxFSTableSize =>
          \A i \in 1 .. Len(list) : list[i].free => list[i].size # 0

(* No two free extents side by side, but for those at j and j + 1 with j    *)
(* in K.                                                                    *)
Apart(list, K) ==
    \A j \in 1 .. (Len(list) - 1) : list[j].free /\ list[j + 1].free => j \in K

Neat(list) == Formed(list) /\ Apart(list, {})

(* A list that was read, or the empty one of a load that failed.            *)
Known(list, none) == IF none THEN list = <<>> ELSE Neat(list)

(* The extents that are not free, without that of the table.                *)
Held(list) == {list[i] : i \in {j \in 2 .. Len(list) : ~list[j].free}}

NoneEmpty(list) == \A i \in 1 .. Len(list) : list[i].size # 0

AsExtent(file) == FSPartitionInfo(file.loc, file.size, FALSE)

(* A file lies behind the table, within the partition.                      *)
Fits(file) ==
    file.size # 0 => /\ file.loc >= maxFSTableSize
                     /\ file.loc + file.size <= partitionSize

Placed(files) == IsFileMap(files) /\ \A p \in DOMAIN files : Fits(files[p])

(* Files and extents go together, but for the files that are lost.          *)
Kept(list, files, lost) ==
    /\ \A p \in DOMAIN files \ lost :
          files[p].size # 0 =>
              /\ AsExtent(files[p]) \in Held(list)
              /\ \A q \in DOMAIN files \ lost :
                    q # p /\ files[q].size # 0 => files[q].loc # files[p].loc
    /\ NoneEmpty(list) =>
          \A e \in Held(list) : \E p \in DOMAIN files : e = AsExtent(files[p])

(* The files have the bytes that their callers put into them.               *)
Stored(files, lost) ==
    \A p \in DOMAIN files \ lost :
        files[p].size # 0 => Contents(files[p], disk) = expected[p]

Structure ==
    /\ TypeOK
    /\ Placed(fsFileList) /\ Placed(saved.files)
    /\ Known(saved.list, saved.unread) /\ saved.stale \subseteq Paths
    /\ mounted => Known(fsPartitionList, unread)
    /\ ~mounted => /\ fsPartitionList = <<>> /\ pc = "idle"
                   /\ DOMAIN expected = DOMAIN saved.files
    /\ pc \in {"create", "copy"} => {cur, from} \subseteq DOMAIN fsFileList
    /\ pc = "data" => /\ cur \in DOMAIN fsFileList
                      /\ Len(data) = fsFileList[cur].size

(* The file that is being written.                                          *)
Writing == IF pc = "data" THEN {cur} ELSE {}

Ownership ==
    ~harmed =>
        /\ Kept(saved.list, saved.files, saved.stale)
        /\ mounted => /\ Kept(fsPartitionList, fsFileList, stale)
                      /\ Stored(fsFileList, stale \cup Writing)
        /\ ~mounted => Stored(saved.files, saved.stale)
        /\ Writing \cap stale = {}

(* What no step disturbs.                                                   *)
Inv == Structure /\ Ownership /\ ReportedIsDurable
-----------------------------------------------------------------------------
(* The lookups in an extent list.                                           *)

(* What a lookup by location finds, and what one for a free extent does.    *)
LEMMA LocationFound ==
    ASSUME NEW list \in Seq(Pieces), NEW location,
           GetIndexOfPartitionFromLocation(list, location) # 0
    PROVE  LET i == GetIndexOfPartitionFromLocation(list, location)
           IN  i \in 1 .. Len(list) /\ list[i].loc = location
<1> DEFINE I == {i \in 1 .. Len(list) : list[i].loc = location}
<1>1. GetIndexOfPartitionFromLocation(list, location) = IF I # {} THEN Min(I) ELSE 0
  BY DEF GetIndexOfPartitionFromLocation, SelectInSeq
<1>2. I \subseteq Nat /\ I # {}
  BY <1>1
<1>3. Min(I) \in I
  <2> HIDE DEF I
  <2> QED BY <1>2, MinIsLeast
<1> QED BY <1>1, <1>2, <1>3

LEMMA FreeFound ==
    ASSUME NEW list \in Seq(Pieces), NEW n \in Nat,
           GetIndexOfFreeFilePartition(list, n) # 0
    PROVE  LET i == GetIndexOfFreeFilePartition(list, n)
           IN  i \in 1 .. Len(list) /\ list[i].free /\ list[i].size >= n
<1> DEFINE I == {i \in 1 .. Len(list) : list[i].free /\ list[i].size >= n}
<1>1. GetIndexOfFreeFilePartition(list, n) = IF I # {} THEN Min(I) ELSE 0
  BY DEF GetIndexOfFreeFilePartition, SelectInSeq
<1>2. I \subseteq Nat /\ I # {}
  BY <1>1
<1>3. Min(I) \in I
  <2> HIDE DEF I
  <2> QED BY <1>2, MinIsLeast
<1> QED BY <1>1, <1>2, <1>3

(* The types that hold in a list that is formed.                            *)
LEMMA FormedParts ==
    ASSUME NEW list, Formed(list)
    PROVE  /\ list \in Seq(Pieces) /\ Len(list) \in Nat /\ Len(list) >= 1
           /\ DOMAIN list = 1 .. Len(list) /\ ExtentsIn(Pieces)
           /\ \A j \in 1 .. Len(list) :
                 /\ list[j] \in Pieces /\ list[j].loc \in Nat
                 /\ list[j].size \in Nat /\ list[j].free \in BOOLEAN
                 /\ list[j] = FSPartitionInfo(list[j].loc, list[j].size, list[j].free)
           /\ list[1].loc = 0 /\ list[1].size = maxFSTableSize /\ ~list[1].free
<1>1. /\ list \in Seq(Pieces) /\ list # <<>> /\ list[1] = Table
  BY DEF Formed, Tiles
<1>2. Len(list) \in Nat /\ Len(list) >= 1 /\ DOMAIN list = 1 .. Len(list)
  BY <1>1, LenProperties, EmptySeq
<1>3. \A j \in 1 .. Len(list) : list[j] \in Pieces
  BY <1>1, <1>2, ElementOfSeq
<1>4. \A e \in Pieces :
         /\ e.loc \in Nat /\ e.size \in Nat /\ e.free \in BOOLEAN
         /\ e = FSPartitionInfo(e.loc, e.size, e.free)
  BY DEF Pieces, FSPartitionInfo
<1>5. Table.loc = 0 /\ Table.size = maxFSTableSize /\ ~Table.free
  BY DEF Table, FSPartitionInfo
<1> QED BY <1>1, <1>2, <1>3, <1>4, <1>5 DEF ExtentsIn

(* Where the extents other than that of the table lie.                      *)
LEMMA Behind ==
    ASSUME NEW list, Formed(list), NEW i \in 2 .. Len(list)
    PROVE  /\ list[i].loc >= maxFSTableSize
           /\ list[i].loc + list[i].size <= partitionSize
           /\ list[i].loc > 0 /\ partitionSize \in Nat /\ maxFSTableSize \in Nat
           /\ \A j \in 2 .. Len(list) :
                 list[i].loc = list[j].loc /\ list[i].size # 0 /\ list[j].size # 0
                    => i = j
<1>1. /\ list \in Seq(Pieces) /\ ExtentsIn(Pieces) /\ Tiles(list, partitionSize)
      /\ Len(list) \in Nat /\ i \in 1 .. Len(list) /\ 1 \in 1 .. Len(list)
      /\ i \in (1 + 1) .. Len(list)
      /\ \A j \in 1 .. Len(list) : list[j].loc \in Nat /\ list[j].size \in Nat
      /\ list[1].loc = 0 /\ list[1].size = maxFSTableSize
      /\ partitionSize \in Nat /\ maxFSTableSize \in Nat /\ maxFSTableSize > 0
  BY FormedParts, MrafsAssumption DEF Formed
<1>2. list[1].loc + list[1].size <= list[i].loc
  BY <1>1, TilesOrdered
<1>3. list[i].loc + list[i].size <= partitionSize
  BY <1>1, TilesOrdered
<1>4. ASSUME NEW j \in 2 .. Len(list), list[i].loc = list[j].loc,
             list[i].size # 0, list[j].size # 0
      PROVE  i = j
  <2>1. j \in 1 .. Len(list)
    BY <1>1
  <2>2. CASE i < j
    <3>1. list[i].loc + list[i].size <= list[j].loc
      <4>1. j \in (i + 1) .. Len(list)
        BY <1>1, <2>1, <2>2
      <4> QED BY <1>1, <4>1, TilesOrdered
    <3> QED BY <1>1, <1>4, <2>1, <3>1
  <2>3. CASE j < i
    <3>1. list[j].loc + list[j].size <= list[i].loc
      <4>1. i \in (j + 1) .. Len(list)
        BY <1>1, <2>1, <2>3
      <4> QED BY <1>1, <2>1, <4>1, TilesOrdered
    <3> QED BY <1>1, <1>4, <2>1, <3>1
  <2> QED BY <1>1, <2>1, <2>2, <2>3
<1> QED BY <1>1, <1>2, <1>3, <1>4

-----------------------------------------------------------------------------
(* The operations of an extent list.                                        *)

(* One extent with its size or its mark changed.                            *)
LEMMA PieceChanged ==
    ASSUME NEW e \in Pieces
    PROVE  /\ [e EXCEPT !.free = TRUE] = FSPartitionInfo(e.loc, e.size, TRUE)
           /\ [e EXCEPT !.free = FALSE] = FSPartitionInfo(e.loc, e.size, FALSE)
           /\ [e EXCEPT !.free = TRUE] \in Pieces /\ [e EXCEPT !.free = FALSE] \in Pieces
           /\ \A size \in Nat :
                 /\ [e EXCEPT !.size = size] = FSPartitionInfo(e.loc, size, e.free)
                 /\ [e EXCEPT !.size = size] \in Pieces
           /\ \A loc, size \in Nat : \A free \in BOOLEAN :
                 /\ FSPartitionInfo(loc, size, free) \in Pieces
                 /\ FSPartitionInfo(loc, size, free).loc = loc
                 /\ FSPartitionInfo(loc, size, free).size = size
                 /\ FSPartitionInfo(loc, size, free).free = free
<1>1. /\ [e EXCEPT !.free = TRUE] = FSPartitionInfo(e.loc, e.size, TRUE)
      /\ [e EXCEPT !.free = FALSE] = FSPartitionInfo(e.loc, e.size, FALSE)
      /\ [e EXCEPT !.free = TRUE] \in Pieces /\ [e EXCEPT !.free = FALSE] \in Pieces
  <2>1. \A free \in BOOLEAN :
           /\ [e EXCEPT !.free = free] = FSPartitionInfo(e.loc, e.size, free)
           /\ FSPartitionInfo(e.loc, e.size, free) \in Pieces
    BY DEF Pieces, FSPartitionInfo
  <2>2. TRUE \in BOOLEAN /\ FALSE \in BOOLEAN
    OBVIOUS
  <2> QED BY ONLY <2>1, <2>2
<1>2. ASSUME NEW size \in Nat
      PROVE  /\ [e EXCEPT !.size = size] = FSPartitionInfo(e.loc, size, e.free)
             /\ [e EXCEPT !.size = size] \in Pieces
  BY DEF Pieces, FSPartitionInfo
<1>3. ASSUME NEW loc \in Nat, NEW size \in Nat, NEW free \in BOOLEAN
      PROVE  /\ FSPartitionInfo(loc, size, free) \in Pieces
             /\ FSPartitionInfo(loc, size, free).loc = loc
             /\ FSPartitionInfo(loc, size, free).size = size
             /\ FSPartitionInfo(loc, size, free).free = free
  BY DEF Pieces, FSPartitionInfo
<1> QED BY <1>1, <1>2, <1>3

(* An extent takes over a free one that follows it.                         *)
LEMMA AbsorbProperties ==
    ASSUME NEW list, Formed(list), NEW i \in 2 .. (Len(list) - 1),
           list[i].free, list[i + 1].free, list[i + 1].size # 0
    PROVE  LET t == AbsorbNext(list, i)
           IN  /\ Formed(t) /\ Len(t) = Len(list) - 1 /\ t[i].free
               /\ Held(t) = Held(list)
               /\ NoneEmpty(t) /\ list[i].size # 0 => NoneEmpty(list)
               /\ \A j \in 1 .. (i - 1) : t[j] = list[j]
               /\ \A K \in SUBSET {i - 1} : Apart(list, K \cup {i}) => Apart(t, K)
<1> DEFINE n == list[i].size + list[i + 1].size
           g == [list EXCEPT ![i].size = n]
           p == FSPartitionInfo(list[i].loc, n, TRUE)
           t == AbsorbNext(list, i)
<1>1. /\ list \in Seq(Pieces) /\ Len(list) \in Nat /\ Len(list) >= 3
      /\ DOMAIN list = 1 .. Len(list) /\ ExtentsIn(Pieces)
      /\ Tiles(list, partitionSize) /\ list[1] = Table
      /\ i \in 1 .. Len(list) /\ i + 1 \in 1 .. Len(list)
      /\ i \in 1 .. (Len(list) - 1)
      /\ list[i] \in Pieces
      /\ \A j \in 1 .. Len(list) : list[j] \in Pieces /\ list[j].size \in Nat
                                   /\ list[j].loc \in Nat
  BY FormedParts DEF Formed
<1>2. n \in Nat /\ n > list[i].size /\ n - list[i].size = list[i + 1].size
  BY <1>1
<1> HIDE DEF n
<1>3. t = RemoveAt(g, i + 1)
  <2>1. n # list[i].size /\ ~(n < list[i].size)
    BY <1>1, <1>2
  <2>2. t = Grow(list, i, n)
    BY <2>1 DEF AbsorbNext, ResizeFilePartition, n
  <2> QED BY <1>2, <2>2 DEF Grow
<1>4. [list[i] EXCEPT !.size = n] = p /\ p \in Pieces
  <2>1. list[i].free = TRUE
    BY <1>1 DEF Pieces
  <2>2. [list[i] EXCEPT !.size = n] = FSPartitionInfo(list[i].loc, n, list[i].free)
        /\ [list[i] EXCEPT !.size = n] \in Pieces
    BY <1>1, <1>2, PieceChanged
  <2> QED BY <2>1, <2>2
<1>5. g = [list EXCEPT ![i] = p]
  BY <1>4
<1> HIDE DEF p, g, t
<1>6. /\ g \in Seq(Pieces) /\ Len(g) = Len(list)
      /\ \A j \in 1 .. Len(list) : g[j] = IF j = i THEN p ELSE list[j]
  BY <1>1, <1>4, <1>5, ExceptSeq
<1>7. /\ t \in Seq(Pieces) /\ Len(t) = Len(list) - 1
      /\ \A j \in 1 .. (Len(list) - 1) : t[j] = IF j < i + 1 THEN g[j] ELSE g[j + 1]
  <2>1. i + 1 \in 1 .. Len(g)
    BY <1>1, <1>6
  <2>2. /\ t \in Seq(Pieces) /\ Len(t) = Len(g) - 1
        /\ \A j \in 1 .. (Len(g) - 1) : t[j] = IF j < i + 1 THEN g[j] ELSE g[j + 1]
    BY <1>3, <1>6, <2>1, RemoveAtProperties, Zenon
  <2> QED BY <1>6, <2>2
<1>8. /\ \A j \in 1 .. (i - 1) : t[j] = list[j]
      /\ t[i] = p
      /\ \A j \in (i + 1) .. (Len(list) - 1) : t[j] = list[j + 1]
  <2>1. ASSUME NEW j \in 1 .. (i - 1) PROVE t[j] = list[j]
    <3>1. j \in 1 .. (Len(list) - 1) /\ j \in 1 .. Len(list) /\ j < i + 1 /\ j # i
      BY <1>1
    <3> QED BY <1>6, <1>7, <3>1
  <2>2. t[i] = p
    <3>1. i < i + 1
      BY <1>1
    <3> QED BY <1>1, <1>6, <1>7, <3>1
  <2>3. ASSUME NEW j \in (i + 1) .. (Len(list) - 1) PROVE t[j] = list[j + 1]
    <3>1. /\ j \in 1 .. (Len(list) - 1) /\ j + 1 \in 1 .. Len(list)
          /\ ~(j < i + 1) /\ j + 1 # i
      BY <1>1
    <3> QED BY <1>6, <1>7, <3>1
  <2> QED BY <2>1, <2>2, <2>3
<1>9. p.loc = list[i].loc /\ p.size = n /\ p.free
  BY DEF p, FSPartitionInfo
<1>10. Tiles(t, partitionSize)
  <2>1. ASSUME NEW j \in 1 .. (Len(list) - 1)
        PROVE  /\ t[j].loc = IF j <= i THEN list[j].loc ELSE list[j + 1].loc
               /\ t[j].size = IF j < i THEN list[j].size
                              ELSE IF j = i THEN list[i].size + list[i + 1].size
                              ELSE list[j + 1].size
    <3>1. CASE j < i
      <4>1. j \in 1 .. (i - 1) /\ j <= i
        BY <1>1, <3>1
      <4> QED BY <1>8, <3>1, <4>1
    <3>2. CASE j = i
      BY <1>1, <1>8, <1>9, <3>2 DEF n
    <3>3. CASE j > i
      <4>1. j \in (i + 1) .. (Len(list) - 1) /\ ~(j <= i) /\ ~(j < i) /\ j # i
        BY <1>1, <3>3
      <4> QED BY <1>8, <4>1
    <3> QED BY <1>1, <3>1, <3>2, <3>3
  <2> QED BY <1>1, <1>7, <2>1, TilesMerged
<1>11. t[1] = Table
  <2>1. 1 \in 1 .. (i - 1)
    BY <1>1
  <2> QED BY <1>1, <1>8, <2>1
<1>12. \A j \in 1 .. Len(t) : j = i \/ j \in 1 .. (i - 1) \/ j \in (i + 1) .. (Len(list) - 1)
  BY <1>1, <1>7
<1>13. Formed(t)
  <2>1. ASSUME partitionSize # maxFSTableSize,
               NEW j \in 1 .. Len(t), t[j].free
        PROVE  t[j].size # 0
    <3>1. \A k \in 1 .. Len(list) : list[k].free => list[k].size # 0
      BY <2>1 DEF Formed
    <3>2. \A k \in 1 .. (i - 1) : k \in 1 .. Len(list)
      BY <1>1
    <3>3. \A k \in (i + 1) .. (Len(list) - 1) : k + 1 \in 1 .. Len(list)
      BY <1>1
    <3>4. n # 0
      BY <1>1, <1>2
    <3> QED BY <1>8, <1>9, <1>12, <2>1, <3>1, <3>2, <3>3, <3>4
  <2> QED BY <1>7, <1>10, <1>11, <2>1 DEF Formed
<1>14. Held(t) = Held(list)
  <2>1. ASSUME NEW e \in Held(t) PROVE e \in Held(list)
    <3>1. PICK j \in 2 .. Len(t) : ~t[j].free /\ e = t[j]
      BY DEF Held
    <3>2. j \in 1 .. Len(t) /\ j # i
      BY <1>1, <1>7, <1>8, <1>9, <3>1
    <3>3. CASE j \in 1 .. (i - 1)
      <4>1. j \in 2 .. Len(list) /\ t[j] = list[j]
        BY <1>1, <1>7, <1>8, <3>1, <3>3
      <4> QED BY <3>1, <4>1 DEF Held
    <3>4. CASE j \in (i + 1) .. (Len(list) - 1)
      <4>1. j + 1 \in 2 .. Len(list) /\ t[j] = list[j + 1]
        BY <1>1, <1>8, <3>4
      <4> QED BY <3>1, <4>1 DEF Held
    <3> QED BY <1>12, <3>2, <3>3, <3>4
  <2>2. ASSUME NEW e \in Held(list) PROVE e \in Held(t)
    <3>1. PICK j \in 2 .. Len(list) : ~list[j].free /\ e = list[j]
      BY DEF Held
    <3>2. CASE j < i
      <4>1. j \in 2 .. Len(t) /\ j \in 1 .. (i - 1)
        BY <1>1, <1>7, <3>2
      <4>2. t[j] = list[j]
        BY <1>8, <4>1
      <4> QED BY <3>1, <4>1, <4>2 DEF Held
    <3>3. CASE j > i + 1
      <4>1. /\ j - 1 \in 2 .. Len(t) /\ j - 1 \in (i + 1) .. (Len(list) - 1)
            /\ (j - 1) + 1 = j
        BY <1>1, <1>7, <3>3
      <4>2. t[j - 1] = list[j]
        BY <1>8, <4>1
      <4> QED BY <3>1, <4>1, <4>2 DEF Held
    <3>4. j # i /\ j # i + 1
      BY <3>1
    <3> QED BY <1>1, <3>2, <3>3, <3>4
  <2> QED BY <2>1, <2>2
<1>15. ASSUME NoneEmpty(t), list[i].size # 0 PROVE NoneEmpty(list)
  <2> SUFFICES ASSUME NEW j \in 1 .. Len(list) PROVE list[j].size # 0
    BY DEF NoneEmpty
  <2>1. CASE j < i
    <3>1. j \in 1 .. Len(t) /\ j \in 1 .. (i - 1)
      BY <1>1, <1>7, <2>1
    <3>2. t[j] = list[j]
      BY <1>8, <3>1
    <3> QED BY <1>15, <3>1, <3>2 DEF NoneEmpty
  <2>2. CASE j > i + 1
    <3>1. /\ j - 1 \in 1 .. Len(t) /\ j - 1 \in (i + 1) .. (Len(list) - 1)
          /\ (j - 1) + 1 = j
      BY <1>1, <1>7, <2>2
    <3>2. t[j - 1] = list[j]
      BY <1>8, <3>1
    <3> QED BY <1>15, <3>1, <3>2 DEF NoneEmpty
  <2>3. j = i \/ j = i + 1 \/ j < i \/ j > i + 1
    BY <1>1
  <2> QED BY <1>15, <2>1, <2>2, <2>3
<1>16. ASSUME NEW K \in SUBSET {i - 1}, Apart(list, K \cup {i}) PROVE Apart(t, K)
  <2> SUFFICES ASSUME NEW j \in 1 .. (Len(t) - 1), t[j].free, t[j + 1].free
               PROVE  j \in K
    BY DEF Apart
  <2>1. \A m \in 1 .. (Len(list) - 1) :
           list[m].free /\ list[m + 1].free => m \in K \cup {i}
    BY <1>16 DEF Apart
  <2>2. CASE j < i - 1
    <3>1. /\ j \in 1 .. (i - 1) /\ j + 1 \in 1 .. (i - 1)
          /\ j \in 1 .. (Len(list) - 1) /\ j # i
      BY <1>1, <1>7, <2>2
    <3>2. t[j] = list[j] /\ t[j + 1] = list[j + 1]
      BY <1>8, <3>1
    <3> QED BY <2>1, <3>1, <3>2
  <2>3. CASE j = i - 1
    <3>1. j \in 1 .. (i - 1) /\ j + 1 = i /\ j \in 1 .. (Len(list) - 1) /\ j # i
      BY <1>1, <1>7, <2>3
    <3>2. t[j] = list[j] /\ list[j + 1].free
      BY <1>8, <3>1
    <3> QED BY <2>1, <3>1, <3>2
  <2>4. CASE j = i
    <3>1. /\ i + 1 \in (i + 1) .. (Len(list) - 1)
          /\ i + 1 \in 1 .. (Len(list) - 1) /\ i + 1 # i /\ i + 1 # i - 1
      BY <1>1, <1>7, <2>4
    <3>2. t[i + 1] = list[(i + 1) + 1]
      BY <1>8, <3>1
    <3> QED BY <2>1, <2>4, <3>1, <3>2
  <2>5. CASE j > i
    <3>1. /\ j \in (i + 1) .. (Len(list) - 1) /\ j + 1 \in (i + 1) .. (Len(list) - 1)
          /\ j + 1 \in 1 .. (Len(list) - 1) /\ j + 1 # i /\ j + 1 # i - 1
      BY <1>1, <1>7, <2>5
    <3>2. t[j] = list[j + 1] /\ t[j + 1] = list[(j + 1) + 1]
      BY <1>8, <3>1
    <3> QED BY <2>1, <3>1, <3>2
  <2> QED BY <1>1, <1>7, <2>2, <2>3, <2>4, <2>5
<1> QED BY <1>7, <1>8, <1>9, <1>13, <1>14, <1>15, <1>16 DEF t

(* An extent is freed, not yet merged with its neighbours.                  *)
LEMMA FreedProperties ==
    ASSUME NEW list, Neat(list), NEW k \in 2 .. Len(list), list[k].size # 0,
           ~list[k].free
    PROVE  LET m == [list EXCEPT ![k].free = TRUE]
           IN  /\ Formed(m) /\ Len(m) = Len(list) /\ m[k].free
               /\ \A j \in 1 .. Len(list) : m[j].size = list[j].size
               /\ Held(m) = Held(list) \ {list[k]}
               /\ NoneEmpty(m) => NoneEmpty(list)
               /\ Apart(m, {k - 1, k})
<1> DEFINE p == FSPartitionInfo(list[k].loc, list[k].size, TRUE)
           m == [list EXCEPT ![k].free = TRUE]
<1>0. Formed(list) /\ Apart(list, {})
  BY DEF Neat
<1>1. /\ list \in Seq(Pieces) /\ Len(list) \in Nat /\ DOMAIN list = 1 .. Len(list)
      /\ ExtentsIn(Pieces) /\ Tiles(list, partitionSize) /\ list[1] = Table
      /\ k \in 1 .. Len(list) /\ list[k] \in Pieces
      /\ \A j \in 1 .. Len(list) : list[j] \in Pieces
  BY <1>0, FormedParts DEF Formed
<1>2. /\ [list[k] EXCEPT !.free = TRUE] = p /\ p \in Pieces
      /\ p.loc = list[k].loc /\ p.size = list[k].size /\ p.free
  <2>1. \A e \in Pieces :
           /\ [e EXCEPT !.free = TRUE] = FSPartitionInfo(e.loc, e.size, TRUE)
           /\ [e EXCEPT !.free = TRUE] \in Pieces
    BY PieceChanged
  <2>2. list[k] \in Pieces
    BY <1>1
  <2>3. [list[k] EXCEPT !.free = TRUE] = p /\ p \in Pieces
    BY ONLY <2>1, <2>2
  <2> QED BY <2>3 DEF FSPartitionInfo
<1>3. m = [list EXCEPT ![k] = p]
  BY <1>2
<1> HIDE DEF p, m
<1>4. /\ m \in Seq(Pieces) /\ Len(m) = Len(list)
      /\ \A j \in 1 .. Len(list) : m[j] = IF j = k THEN p ELSE list[j]
  BY <1>1, <1>2, <1>3, ExceptSeq
<1>5. \A j \in 1 .. Len(list) : m[j].loc = list[j].loc /\ m[j].size = list[j].size
  BY <1>2, <1>4
<1>6. Tiles(m, partitionSize)
  BY <1>1, <1>4, <1>5, TilesKept
<1>7. m[1] = Table
  <2>1. 1 \in 1 .. Len(list) /\ 1 # k
    BY <1>1
  <2> QED BY <1>1, <1>4, <2>1
<1>8. Formed(m)
  <2>1. ASSUME partitionSize # maxFSTableSize, NEW j \in 1 .. Len(m), m[j].free
        PROVE  m[j].size # 0
    BY <1>0, <1>2, <1>4, <2>1 DEF Formed
  <2> QED BY <1>4, <1>6, <1>7, <2>1 DEF Formed
<1>9. Held(m) = Held(list) \ {list[k]}
  <2>1. ASSUME NEW e \in Held(m) PROVE e \in Held(list) \ {list[k]}
    <3>1. PICK j \in 2 .. Len(m) : ~m[j].free /\ e = m[j]
      BY DEF Held
    <3>2. j \in 2 .. Len(list) /\ j # k /\ m[j] = list[j]
      BY <1>1, <1>2, <1>4, <3>1
    <3>3. list[j] # list[k]
      BY <1>0, <3>2, Behind
    <3> QED BY <3>1, <3>2, <3>3 DEF Held
  <2>2. ASSUME NEW e \in Held(list) \ {list[k]} PROVE e \in Held(m)
    <3>1. PICK j \in 2 .. Len(list) : ~list[j].free /\ e = list[j]
      BY DEF Held
    <3>2. j # k /\ j \in 2 .. Len(m) /\ m[j] = list[j]
      BY <1>1, <1>4, <3>1
    <3> QED BY <3>1, <3>2 DEF Held
  <2> QED BY <2>1, <2>2
<1>10. NoneEmpty(m) => NoneEmpty(list)
  BY <1>4, <1>5 DEF NoneEmpty
<1>11. Apart(m, {k - 1, k})
  <2> SUFFICES ASSUME NEW j \in 1 .. (Len(m) - 1), m[j].free, m[j + 1].free,
                      j # k, j # k - 1
               PROVE  FALSE
    BY DEF Apart
  <2>1. /\ j \in 1 .. (Len(list) - 1) /\ j \in 1 .. Len(list)
        /\ j + 1 \in 1 .. Len(list) /\ j + 1 # k
    BY <1>1, <1>4
  <2>2. m[j] = list[j] /\ m[j + 1] = list[j + 1]
    BY <1>4, <2>1
  <2> QED BY <1>0, <2>1, <2>2 DEF Apart
<1> QED BY <1>1, <1>2, <1>4, <1>5, <1>8, <1>9, <1>10, <1>11 DEF m

(* Freeing an extent takes it, and nothing else, from those that are held.  *)
LEMMA DeletedProperties ==
    ASSUME NEW list, Neat(list), NEW k \in 2 .. Len(list), list[k].size # 0
    PROVE  LET t == DeleteFilePartition(list, k)
           IN  /\ Neat(t)
               /\ Held(t) = Held(list) \ {list[k]}
               /\ NoneEmpty(t) => NoneEmpty(list)
<1> DEFINE m == [list EXCEPT ![k].free = TRUE]
           n == IF k < Len(list) /\ m[k + 1].free THEN AbsorbNext(m, k) ELSE m
           t == DeleteFilePartition(list, k)
<1>1. t = IF k > 1 /\ n[k - 1].free THEN AbsorbNext(n, k - 1) ELSE n
  BY DEF DeleteFilePartition
<1>2. /\ Formed(list) /\ Apart(list, {}) /\ Len(list) \in Nat
      /\ k \in 1 .. Len(list) /\ list[k] \in Pieces /\ list \in Seq(Pieces)
      /\ DOMAIN list = 1 .. Len(list)
      /\ list[1] = Table /\ ~list[1].free
  BY FormedParts DEF Neat, Formed
<1>3. partitionSize # maxFSTableSize
  <2>1. /\ list[k].loc >= maxFSTableSize
        /\ list[k].loc + list[k].size <= partitionSize
        /\ partitionSize \in Nat /\ maxFSTableSize \in Nat
    BY <1>2, Behind
  <2>2. list[k].loc \in Nat /\ list[k].size \in Nat
    BY <1>2, FormedParts
  <2> QED BY <2>1, <2>2
<1>4. CASE list[k].free
  <2>1. m = list
    <3>1. list[k] = [list[k] EXCEPT !.free = TRUE]
      BY <1>2, <1>4 DEF Pieces
    <3>2. [list EXCEPT ![k] = list[k]] = list
      BY <1>2
    <3> QED BY <3>1, <3>2
  <2> HIDE DEF m
  <2>2. n = list
    <3>1. k < Len(list) => k \in 1 .. (Len(list) - 1)
      BY <1>2
    <3> QED BY <1>2, <1>4, <2>1, <3>1 DEF Apart
  <2> HIDE DEF n
  <2>3. ~list[k - 1].free
    <3>1. k - 1 \in 1 .. (Len(list) - 1) /\ (k - 1) + 1 = k
      BY <1>2
    <3> QED BY <1>2, <1>4, <3>1 DEF Apart
  <2>4. t = list
    BY <1>1, <2>2, <2>3
  <2>5. list[k] \notin Held(list)
    BY <1>4 DEF Held
  <2> QED BY <2>4, <2>5 DEF t
<1>5. CASE ~list[k].free
  <2>1. /\ Formed(m) /\ Len(m) = Len(list) /\ m[k].free
        /\ Held(m) = Held(list) \ {list[k]}
        /\ NoneEmpty(m) => NoneEmpty(list)
        /\ Apart(m, {k - 1, k}) /\ m[k].size = list[k].size
    BY <1>2, <1>5, FreedProperties
  <2> HIDE DEF m, t
  <2>2. /\ Formed(n) /\ Len(n) >= k /\ n[k].free /\ Held(n) = Held(m)
        /\ NoneEmpty(n) => NoneEmpty(m)
        /\ Apart(n, {k - 1})
    <3>1. CASE k < Len(list) /\ m[k + 1].free
      <4>1. n = AbsorbNext(m, k)
        BY <3>1
      <4> HIDE DEF n
      <4>2. k \in 2 .. (Len(m) - 1) /\ k + 1 \in 1 .. Len(m) /\ m[k + 1].free
        BY <1>2, <2>1, <3>1
      <4>3. m[k + 1].size # 0
        BY <1>3, <2>1, <4>2 DEF Formed
      <4>4. /\ Formed(n) /\ Len(n) = Len(m) - 1 /\ n[k].free /\ Held(n) = Held(m)
            /\ NoneEmpty(n) /\ m[k].size # 0 => NoneEmpty(m)
            /\ \A K \in SUBSET {k - 1} : Apart(m, K \cup {k}) => Apart(n, K)
        BY <2>1, <4>1, <4>2, <4>3, AbsorbProperties
      <4>5. {k - 1, k} = {k - 1} \cup {k} /\ {k - 1} \in SUBSET {k - 1}
        OBVIOUS
      <4>6. Apart(n, {k - 1})
        BY <2>1, <4>4, <4>5
      <4> QED BY <1>2, <2>1, <4>2, <4>4, <4>6
    <3>2. CASE ~(k < Len(list) /\ m[k + 1].free)
      <4>1. n = m
        BY <3>2
      <4> HIDE DEF n
      <4>2. Apart(m, {k - 1})
        <5>1. \A j \in 1 .. (Len(m) - 1) : j = k => k < Len(list)
          BY <1>2, <2>1
        <5> QED BY <2>1, <3>2, <5>1 DEF Apart
      <4> QED BY <1>2, <2>1, <4>1, <4>2
    <3> QED BY <3>1, <3>2
  <2> HIDE DEF n
  <2>3. /\ Len(n) \in Nat /\ n[1] = Table /\ ~n[1].free
        /\ \A j \in 1 .. Len(n) : n[j].free => n[j].size # 0
    BY <1>3, <2>2, FormedParts DEF Formed
  <2>4. Formed(t) /\ Apart(t, {}) /\ Held(t) = Held(n) /\ (NoneEmpty(t) => NoneEmpty(n))
    <3>1. CASE n[k - 1].free
      <4>1. t = AbsorbNext(n, k - 1)
        BY <1>1, <1>2, <3>1
      <4>2. k - 1 # 1
        BY <2>3, <3>1
      <4>3. /\ k - 1 \in 2 .. (Len(n) - 1) /\ (k - 1) + 1 = k
            /\ k - 1 \in 1 .. Len(n) /\ k \in 1 .. Len(n)
        BY <1>2, <2>2, <2>3, <4>2
      <4>4. n[k - 1].size # 0 /\ n[k].size # 0
        BY <2>2, <2>3, <3>1, <4>3
      <4>5. /\ Formed(t) /\ Held(t) = Held(n)
            /\ NoneEmpty(t) /\ n[k - 1].size # 0 => NoneEmpty(n)
            /\ \A K \in SUBSET {(k - 1) - 1} : Apart(n, K \cup {k - 1}) => Apart(t, K)
        BY <2>2, <3>1, <4>1, <4>3, <4>4, AbsorbProperties
      <4>6. {k - 1} = {} \cup {k - 1} /\ {} \in SUBSET {(k - 1) - 1}
        OBVIOUS
      <4> QED BY <2>2, <4>4, <4>5, <4>6
    <3>2. CASE ~n[k - 1].free
      <4>1. t = n
        BY <1>1, <3>2
      <4>2. Apart(n, {})
        BY <2>2, <3>2 DEF Apart
      <4> QED BY <2>2, <4>1, <4>2
    <3> QED BY <3>1, <3>2
  <2> QED BY <2>1, <2>2, <2>4 DEF Neat, t
<1> QED BY <1>4, <1>5

(* An allocation takes a free extent, or a part of one, for those that are  *)
(* held.                                                                    *)
LEMMA NeatCreated ==
    ASSUME NEW list, Neat(list), NEW n \in Nat,
           GetIndexOfFreeFilePartition(list, n) # 0
    PROVE  LET i == GetIndexOfFreeFilePartition(list, n)
               t == CreateFilePartition(list, n)
           IN  /\ Neat(t)
               /\ Held(t) = Held(list) \cup {FSPartitionInfo(list[i].loc, n, FALSE)}
               /\ NoneEmpty(t) => NoneEmpty(list)
               /\ list[i].loc \in Nat /\ list[i].loc >= maxFSTableSize
               /\ list[i].loc + n <= partitionSize
               /\ n # 0 => \A e \in Held(list) : e.loc = list[i].loc => e.size = 0
<1> DEFINE i == GetIndexOfFreeFilePartition(list, n)
           t == CreateFilePartition(list, n)
           p == FSPartitionInfo(list[i].loc, n, FALSE)
           g == [list EXCEPT ![i].free = FALSE]
           h == [g EXCEPT ![i].size = n]
           rest == FSPartitionInfo(list[i].loc + n, list[i].size - n, TRUE)
<1>1. /\ Formed(list) /\ Apart(list, {}) /\ list \in Seq(Pieces)
      /\ Len(list) \in Nat /\ Len(list) >= 1 /\ DOMAIN list = 1 .. Len(list)
      /\ ExtentsIn(Pieces) /\ Tiles(list, partitionSize) /\ list[1] = Table
      /\ \A j \in 1 .. Len(list) : list[j] \in Pieces /\ list[j].loc \in Nat
                                   /\ list[j].size \in Nat
  BY FormedParts DEF Neat, Formed
<1>2. i \in 1 .. Len(list) /\ list[i].free /\ list[i].size >= n
  BY <1>1, FreeFound
<1> HIDE DEF i
<1>3. i \in 2 .. Len(list) /\ i # 1
  <2>1. ~list[1].free
    BY <1>1, FormedParts
  <2>2. i # 1
    BY <1>2, <2>1
  <2> QED BY <1>1, <1>2, <2>2
<1>4. /\ list[i].loc \in Nat /\ list[i].loc >= maxFSTableSize
      /\ list[i].loc + n <= partitionSize
  <2>1. /\ list[i].loc >= maxFSTableSize
        /\ list[i].loc + list[i].size <= partitionSize
        /\ partitionSize \in Nat /\ maxFSTableSize \in Nat
    BY <1>1, <1>3, Behind
  <2>2. list[i].loc \in Nat /\ list[i].size \in Nat
    BY <1>1, <1>2
  <2> QED BY <1>2, <2>1, <2>2
<1>5. /\ p \in Pieces /\ p.loc = list[i].loc /\ p.size = n /\ ~p.free
      /\ [[list[i] EXCEPT !.free = FALSE] EXCEPT !.size = n] = p
      /\ [list[i] EXCEPT !.free = FALSE].size = list[i].size
      /\ [list[i] EXCEPT !.free = FALSE].loc = list[i].loc
      /\ [list[i] EXCEPT !.free = FALSE]
            = FSPartitionInfo(list[i].loc, list[i].size, FALSE)
  <2>1. /\ p \in Pieces /\ p.loc = list[i].loc /\ p.size = n /\ ~p.free
    BY <1>1, <1>2 DEF Pieces, FSPartitionInfo
  <2>2. \A e \in Pieces : \A b \in BOOLEAN :
           /\ [[e EXCEPT !.free = b] EXCEPT !.size = n] = FSPartitionInfo(e.loc, n, b)
           /\ [e EXCEPT !.free = b].size = e.size /\ [e EXCEPT !.free = b].loc = e.loc
           /\ [e EXCEPT !.free = b] = FSPartitionInfo(e.loc, e.size, b)
    <3> TAKE e \in Pieces
    <3> TAKE b \in BOOLEAN
    <3>1. [e EXCEPT !.free = b] = FSPartitionInfo(e.loc, e.size, b)
      BY DEF Pieces, FSPartitionInfo
    <3>2. [FSPartitionInfo(e.loc, e.size, b) EXCEPT !.size = n]
             = FSPartitionInfo(e.loc, n, b)
      BY DEF FSPartitionInfo
    <3>3. /\ FSPartitionInfo(e.loc, e.size, b).size = e.size
          /\ FSPartitionInfo(e.loc, e.size, b).loc = e.loc
      BY DEF FSPartitionInfo
    <3> QED BY ONLY <3>1, <3>2, <3>3
  <2>3. list[i] \in Pieces /\ FALSE \in BOOLEAN
    BY <1>1, <1>2
  <2>4. /\ [[list[i] EXCEPT !.free = FALSE] EXCEPT !.size = n]
               = FSPartitionInfo(list[i].loc, n, FALSE)
        /\ [list[i] EXCEPT !.free = FALSE].size = list[i].size
        /\ [list[i] EXCEPT !.free = FALSE].loc = list[i].loc
        /\ [list[i] EXCEPT !.free = FALSE]
              = FSPartitionInfo(list[i].loc, list[i].size, FALSE)
    BY ONLY <2>2, <2>3
  <2> QED BY <2>1, <2>4
<1>6. NoneEmpty(list) \/ \E j \in 1 .. Len(list) : list[j].size = 0
  BY DEF NoneEmpty
<1>7. n # 0 => \A e \in Held(list) : e.loc = list[i].loc => e.size = 0
  <2> SUFFICES ASSUME n # 0, NEW e \in Held(list), e.loc = list[i].loc, e.size # 0
               PROVE  FALSE
    OBVIOUS
  <2>1. PICK j \in 2 .. Len(list) : ~list[j].free /\ e = list[j]
    BY DEF Held
  <2>2. list[i].size # 0
    BY <1>1, <1>2
  <2>3. i = j
    BY <1>1, <1>3, <2>1, <2>2, Behind
  <2> QED BY <1>2, <2>1, <2>3
<1>8. t = ResizeFilePartition(g, i, n)
  BY DEF CreateFilePartition, i
<1>9. g[i].size = list[i].size /\ g[i].loc = list[i].loc
  BY <1>1, <1>2, <1>5
<1>10. h = [list EXCEPT ![i] = p]
  BY <1>1, <1>2, <1>5
<1>11. /\ h \in Seq(Pieces) /\ Len(h) = Len(list)
       /\ \A j \in 1 .. Len(list) : h[j] = IF j = i THEN p ELSE list[j]
  <2> HIDE DEF h, p
  <2> QED BY <1>1, <1>2, <1>5, <1>10, ExceptSeq
<1>12. ASSUME n = list[i].size
       PROVE  Neat(t) /\ Held(t) = Held(list) \cup {p}
              /\ (NoneEmpty(t) => NoneEmpty(list))
  <2>1. t = [list EXCEPT ![i] = p]
    <3>1. t = g
      BY <1>8, <1>9, <1>12 DEF ResizeFilePartition
    <3>2. [list[i] EXCEPT !.free = FALSE] = p
      BY <1>5, <1>12
    <3> QED BY <3>1, <3>2
  <2> HIDE DEF t, p, h, g
  <2>2. /\ t \in Seq(Pieces) /\ Len(t) = Len(list)
        /\ \A j \in 1 .. Len(list) : t[j] = IF j = i THEN p ELSE list[j]
    BY <1>10, <1>11, <2>1
  <2>3. \A j \in 1 .. Len(list) : t[j].loc = list[j].loc /\ t[j].size = list[j].size
    BY <1>5, <1>12, <2>2
  <2>4. Tiles(t, partitionSize)
    BY <1>1, <2>2, <2>3, TilesKept
  <2>5. t[1] = Table
    BY <1>1, <1>3, <2>2
  <2>6. ASSUME partitionSize # maxFSTableSize, NEW j \in 1 .. Len(t), t[j].free
        PROVE  t[j].size # 0
    BY <1>1, <1>5, <2>2, <2>6 DEF Formed
  <2>7. Formed(t)
    BY <2>2, <2>4, <2>5, <2>6 DEF Formed
  <2>8. Apart(t, {})
    <3> SUFFICES ASSUME NEW j \in 1 .. (Len(t) - 1), t[j].free, t[j + 1].free
                 PROVE  FALSE
      BY DEF Apart
    <3>1. j \in 1 .. (Len(list) - 1) /\ j \in 1 .. Len(list) /\ j + 1 \in 1 .. Len(list)
      BY <1>1, <2>2
    <3>2. j # i /\ j + 1 # i
      BY <1>5, <2>2, <3>1
    <3> QED BY <1>1, <2>2, <3>1, <3>2 DEF Apart
  <2>9. ASSUME NEW e \in Held(t) PROVE e \in Held(list) \cup {p}
    <3>1. PICK j \in 2 .. Len(t) : ~t[j].free /\ e = t[j]
      BY DEF Held
    <3>2. j \in 2 .. Len(list) /\ j \in 1 .. Len(list)
      BY <1>1, <2>2, <3>1
    <3> QED BY <2>2, <3>1, <3>2 DEF Held
  <2>10. ASSUME NEW e \in Held(list) \cup {p} PROVE e \in Held(t)
    <3>1. CASE e = p
      <4>1. i \in 2 .. Len(t) /\ t[i] = p /\ ~t[i].free
        BY <1>2, <1>3, <1>5, <2>2
      <4> QED BY <3>1, <4>1 DEF Held
    <3>2. CASE e \in Held(list)
      <4>1. PICK j \in 2 .. Len(list) : ~list[j].free /\ e = list[j]
        BY <3>2 DEF Held
      <4>2. j # i /\ j \in 2 .. Len(t) /\ j \in 1 .. Len(list) /\ t[j] = list[j]
        BY <1>1, <1>2, <2>2, <4>1
      <4> QED BY <4>1, <4>2 DEF Held
    <3> QED BY <3>1, <3>2
  <2>11. NoneEmpty(t) => NoneEmpty(list)
    BY <2>2, <2>3 DEF NoneEmpty
  <2> QED BY <2>7, <2>8, <2>9, <2>10, <2>11 DEF Neat
<1>13. ASSUME n < list[i].size
       PROVE  Neat(t) /\ Held(t) = Held(list) \cup {p}
              /\ (NoneEmpty(t) => NoneEmpty(list))
  <2>1. t = InsertAt(h, i + 1, rest)
    <3>1. n # list[i].size
      BY <1>1, <1>2, <1>13
    <3> QED BY <1>8, <1>9, <1>13, <3>1 DEF ResizeFilePartition, Shrink
  <2>2. /\ rest \in Pieces /\ rest.loc = list[i].loc + n
        /\ rest.size = list[i].size - n /\ rest.free /\ rest.size # 0
    BY <1>1, <1>2, <1>13 DEF Pieces, FSPartitionInfo
  <2> HIDE DEF t, p, h, g, rest
  <2>3. /\ t \in Seq(Pieces) /\ Len(t) = Len(list) + 1
        /\ \A j \in 1 .. (Len(list) + 1) :
              t[j] = IF j < i + 1 THEN h[j]
                     ELSE IF j = i + 1 THEN rest ELSE h[j - 1]
    <3>1. i + 1 \in 1 .. (Len(h) + 1)
      BY <1>1, <1>2, <1>11
    <3>2. /\ t \in Seq(Pieces) /\ Len(t) = Len(h) + 1
          /\ \A j \in 1 .. (Len(h) + 1) :
                t[j] = IF j < i + 1 THEN h[j]
                       ELSE IF j = i + 1 THEN rest ELSE h[j - 1]
      <4>1. h \in Seq(Pieces) /\ rest \in Pieces
        BY <1>11, <2>2
      <4> DEFINE k == i + 1
      <4>2. k \in 1 .. (Len(h) + 1)
        BY <3>1
      <4> HIDE DEF k
      <4>3. /\ InsertAt(h, k, rest) \in Seq(Pieces)
            /\ Len(InsertAt(h, k, rest)) = Len(h) + 1
            /\ \A j \in 1 .. (Len(h) + 1) :
                  InsertAt(h, k, rest)[j] = IF j < k THEN h[j]
                                            ELSE IF j = k THEN rest ELSE h[j - 1]
        BY <4>1, <4>2, InsertAtProperties
      <4> QED BY <2>1, <4>3 DEF k
    <3> QED BY <1>11, <3>2
  <2>4. /\ \A j \in 1 .. (i - 1) : t[j] = list[j]
        /\ t[i] = p /\ t[i + 1] = rest
        /\ \A j \in (i + 2) .. (Len(list) + 1) : t[j] = list[j - 1]
    <3>1. ASSUME NEW j \in 1 .. (i - 1) PROVE t[j] = list[j]
      BY <1>1, <1>2, <1>11, <2>3
    <3>2. t[i] = p /\ t[i + 1] = rest
      BY <1>1, <1>2, <1>11, <2>3
    <3>3. ASSUME NEW j \in (i + 2) .. (Len(list) + 1) PROVE t[j] = list[j - 1]
      <4>1. /\ j \in 1 .. (Len(list) + 1) /\ ~(j < i + 1) /\ j # i + 1
            /\ j - 1 \in 1 .. Len(list) /\ j - 1 # i
        BY <1>1, <1>2
      <4> QED BY <1>11, <2>3, <4>1
    <3> QED BY <3>1, <3>2, <3>3
  <2>5. Tiles(t, partitionSize)
    <3>1. n \in 0 .. list[i].size
      BY <1>1, <1>2
    <3>2. ASSUME NEW j \in 1 .. (Len(list) + 1)
          PROVE  /\ t[j].loc = IF j <= i THEN list[j].loc
                               ELSE IF j = i + 1 THEN list[i].loc + n
                               ELSE list[j - 1].loc
                 /\ t[j].size = IF j < i THEN list[j].size ELSE IF j = i THEN n
                                ELSE IF j = i + 1 THEN list[i].size - n
                                ELSE list[j - 1].size
      <4>1. CASE j < i
        <5>1. j \in 1 .. (i - 1) /\ j <= i
          BY <1>1, <1>2, <4>1
        <5> QED BY <2>4, <4>1, <5>1
      <4>2. CASE j = i
        <5>1. ~(j < i) /\ j <= i
          BY <1>2, <4>2
        <5> QED BY <1>5, <2>4, <4>2, <5>1
      <4>3. CASE j = i + 1
        <5>1. ~(j < i) /\ ~(j <= i) /\ j # i
          BY <1>2, <4>3
        <5> QED BY <2>2, <2>4, <4>3, <5>1
      <4>4. CASE j > i + 1
        <5>1. j \in (i + 2) .. (Len(list) + 1) /\ ~(j < i) /\ ~(j <= i) /\ j # i /\ j # i + 1
          BY <1>1, <1>2, <4>4
        <5> QED BY <2>4, <5>1
      <4> QED BY <1>2, <4>1, <4>2, <4>3, <4>4
    <3> QED BY <1>1, <1>2, <2>3, <3>1, <3>2, TilesCut
  <2>6. t[1] = Table
    <3>1. 1 \in 1 .. (i - 1)
      BY <1>1, <1>3
    <3> QED BY <1>1, <2>4, <3>1
  <2>7. ASSUME partitionSize # maxFSTableSize, NEW j \in 1 .. Len(t), t[j].free
        PROVE  t[j].size # 0
    <3>1. CASE j \in 1 .. (i - 1)
      <4>1. j \in 1 .. Len(list)
        BY <1>1, <1>2, <3>1
      <4> QED BY <1>1, <2>4, <2>7, <3>1, <4>1 DEF Formed
    <3>2. CASE j = i
      BY <1>5, <2>4, <2>7, <3>2
    <3>3. CASE j = i + 1
      BY <2>2, <2>4, <3>3
    <3>4. CASE j \in (i + 2) .. (Len(list) + 1)
      <4>1. j - 1 \in 1 .. Len(list)
        BY <1>1, <1>2, <3>4
      <4> QED BY <1>1, <2>4, <2>7, <3>4, <4>1 DEF Formed
    <3> QED BY <1>1, <1>2, <2>3, <3>1, <3>2, <3>3, <3>4
  <2>8. Formed(t)
    BY <2>3, <2>5, <2>6, <2>7 DEF Formed
  <2>9. Apart(t, {})
    <3> SUFFICES ASSUME NEW j \in 1 .. (Len(t) - 1), t[j].free, t[j + 1].free
                 PROVE  FALSE
      BY DEF Apart
    <3>0. Len(list) + 1 - 1 = Len(list) /\ j \in 1 .. Len(list)
      BY <1>1, <2>3
    <3>1. CASE j + 1 < i
      <4>1. /\ j \in 1 .. (i - 1) /\ j + 1 \in 1 .. (i - 1)
            /\ j \in 1 .. (Len(list) - 1)
        BY <1>1, <1>2, <3>0, <3>1
      <4> QED BY <1>1, <2>4, <4>1 DEF Apart
    <3>2. CASE j + 1 = i \/ j = i
      BY <1>5, <2>4, <3>2
    <3>3. CASE j = i + 1
      <4>1. j + 1 \in (i + 2) .. (Len(list) + 1) /\ (j + 1) - 1 = i + 1
        BY <1>1, <1>2, <3>0, <3>3
      <4>2. list[i + 1].free /\ i \in 1 .. (Len(list) - 1)
        BY <1>1, <1>2, <2>4, <3>0, <3>3, <4>1
      <4> QED BY <1>1, <1>2, <4>2 DEF Apart
    <3>4. CASE j > i + 1
      <4>1. /\ j \in (i + 2) .. (Len(list) + 1) /\ j + 1 \in (i + 2) .. (Len(list) + 1)
            /\ (j + 1) - 1 = (j - 1) + 1 /\ j - 1 \in 1 .. (Len(list) - 1)
        BY <1>1, <1>2, <3>0, <3>4
      <4>2. list[j - 1].free /\ list[(j - 1) + 1].free
        BY <2>4, <4>1
      <4> QED BY <1>1, <4>1, <4>2 DEF Apart
    <3> QED BY <1>2, <3>0, <3>1, <3>2, <3>3, <3>4
  <2>10. ASSUME NEW e \in Held(t) PROVE e \in Held(list) \cup {p}
    <3>1. PICK j \in 2 .. Len(t) : ~t[j].free /\ e = t[j]
      BY DEF Held
    <3>2. CASE j < i
      <4>1. j \in 1 .. (i - 1) /\ j \in 2 .. Len(list)
        BY <1>1, <1>2, <3>1, <3>2
      <4> QED BY <2>4, <3>1, <4>1 DEF Held
    <3>3. CASE j = i
      BY <2>4, <3>1, <3>3
    <3>4. CASE j = i + 1
      BY <2>2, <2>4, <3>1, <3>4
    <3>5. CASE j > i + 1
      <4>1. j \in (i + 2) .. (Len(list) + 1) /\ j - 1 \in 2 .. Len(list)
        BY <1>1, <1>2, <1>3, <2>3, <3>1, <3>5
      <4> QED BY <2>4, <3>1, <4>1 DEF Held
    <3> QED BY <1>2, <3>1, <3>2, <3>3, <3>4, <3>5
  <2>11. ASSUME NEW e \in Held(list) \cup {p} PROVE e \in Held(t)
    <3>1. CASE e = p
      <4>1. i \in 2 .. Len(t) /\ t[i] = p /\ ~t[i].free
        BY <1>1, <1>2, <1>3, <1>5, <2>3, <2>4
      <4> QED BY <3>1, <4>1 DEF Held
    <3>2. CASE e \in Held(list)
      <4>1. PICK j \in 2 .. Len(list) : ~list[j].free /\ e = list[j]
        BY <3>2 DEF Held
      <4>2. CASE j < i
        <5>1. j \in 1 .. (i - 1) /\ j \in 2 .. Len(t)
          BY <1>1, <1>2, <2>3, <4>1, <4>2
        <5> QED BY <2>4, <4>1, <5>1 DEF Held
      <4>3. CASE j > i
        <5>1. /\ j + 1 \in (i + 2) .. (Len(list) + 1) /\ j + 1 \in 2 .. Len(t)
              /\ (j + 1) - 1 = j
          BY <1>1, <1>2, <2>3, <4>1, <4>3
        <5>2. t[j + 1] = list[j]
          BY <2>4, <5>1
        <5> QED BY <4>1, <5>1, <5>2 DEF Held
      <4> QED BY <1>2, <4>1, <4>2, <4>3
    <3> QED BY <3>1, <3>2
  <2>12. ASSUME NoneEmpty(t), NEW j \in 1 .. Len(list) PROVE list[j].size # 0
    <3>1. CASE j < i
      <4>1. j \in 1 .. (i - 1) /\ j \in 1 .. Len(t)
        BY <1>1, <1>2, <2>3, <3>1
      <4> QED BY <2>4, <2>12, <4>1 DEF NoneEmpty
    <3>2. CASE j = i
      BY <1>1, <1>13, <3>2
    <3>3. CASE j > i
      <4>1. /\ j + 1 \in (i + 2) .. (Len(list) + 1) /\ j + 1 \in 1 .. Len(t)
            /\ (j + 1) - 1 = j
        BY <1>1, <1>2, <2>3, <3>3
      <4>2. t[j + 1] = list[j]
        BY <2>4, <4>1
      <4> QED BY <2>12, <4>1, <4>2 DEF NoneEmpty
    <3> QED BY <1>2, <3>1, <3>2, <3>3
  <2>13. NoneEmpty(t) => NoneEmpty(list)
    BY <2>12 DEF NoneEmpty
  <2> QED BY <2>8, <2>9, <2>10, <2>11, <2>13 DEF Neat
<1>14. Neat(t) /\ Held(t) = Held(list) \cup {p} /\ (NoneEmpty(t) => NoneEmpty(list))
  <2> HIDE DEF t, p
  <2>1. list[i].size \in Nat
    BY <1>1, <1>2
  <2> QED BY <1>2, <1>12, <1>13, <2>1
<1> HIDE DEF t, p
<1> QED BY <1>4, <1>7, <1>14 DEF i, t, p

-----------------------------------------------------------------------------
(* File entries and their bytes.                                            *)

(* Extents that tile the partition lie within it.                           *)
LEMMA NeatParts ==
    ASSUME NEW list, Neat(list)
    PROVE  list \in Seq(Parts)
<1>1. /\ list \in Seq(Pieces) /\ ExtentsIn(Pieces) /\ Tiles(list, partitionSize)
      /\ Len(list) \in Nat /\ DOMAIN list = 1 .. Len(list)
      /\ \A j \in 1 .. Len(list) : list[j] \in Pieces /\ list[j].loc \in Nat
                                   /\ list[j].size \in Nat
  BY FormedParts DEF Neat, Formed
<1>2. ASSUME NEW j \in 1 .. Len(list) PROVE list[j] \in Parts
  <2>1. list[j].loc + list[j].size <= partitionSize
    BY <1>1, TilesOrdered
  <2>2. /\ list[j] \in Pieces /\ list[j].loc \in Nat /\ list[j].size \in Nat
        /\ partitionSize \in Nat
    BY <1>1, MrafsAssumption
  <2>3. list[j].loc \in 0 .. partitionSize /\ list[j].size \in 0 .. partitionSize
    BY <2>1, <2>2
  <2> QED BY <2>2, <2>3 DEF Parts, Pieces
<1> QED BY <1>1, <1>2

(* The list of a partition that was just formatted.                         *)
LEMMA NeatEmptyList == Neat(EmptyList) /\ Held(EmptyList) = {}
<1> DEFINE a == FSPartitionInfo(0, maxFSTableSize, FALSE)
           b == FSPartitionInfo(maxFSTableSize, partitionSize - maxFSTableSize, TRUE)
<1>1. /\ maxFSTableSize \in Nat /\ partitionSize \in Nat
      /\ partitionSize - maxFSTableSize \in Nat
  BY MrafsAssumption
<1>2. /\ a \in Pieces /\ b \in Pieces
      /\ a.loc = 0 /\ a.size = maxFSTableSize /\ ~a.free
      /\ b.loc = maxFSTableSize /\ b.size = partitionSize - maxFSTableSize /\ b.free
  BY <1>1 DEF Pieces, FSPartitionInfo
<1>3. EmptyList = <<a, b>>
  BY DEF EmptyList
<1> HIDE DEF a, b
<1>4. /\ EmptyList \in Seq(Pieces) /\ Len(EmptyList) = 2 /\ EmptyList # <<>>
      /\ EmptyList[1] = a /\ EmptyList[2] = b
  BY <1>2, <1>3
<1>5. Tiles(EmptyList, partitionSize)
  BY <1>1, <1>2, <1>4 DEF Tiles
<1>6. partitionSize # maxFSTableSize => b.size # 0
  BY <1>1, <1>2
<1>7. Formed(EmptyList)
  <2>1. EmptyList[1] = Table
    BY <1>4 DEF Table, a
  <2>2. ASSUME NEW i \in 1 .. Len(EmptyList) PROVE i = 1 \/ i = 2
    BY <1>4
  <2>3. partitionSize # maxFSTableSize =>
           \A i \in 1 .. Len(EmptyList) : EmptyList[i].free => EmptyList[i].size # 0
    BY <1>2, <1>4, <1>6, <2>2
  <2> QED BY <1>4, <1>5, <2>1, <2>3 DEF Formed
<1>8. Apart(EmptyList, {})
  BY <1>2, <1>4 DEF Apart
<1>9. Held(EmptyList) = {}
  BY <1>2, <1>4 DEF Held
<1> QED BY <1>7, <1>8, <1>9 DEF Neat

(* A file map with one entry set, and with one taken out.                   *)
LEMMA WithProperties ==
    ASSUME NEW f, NEW path, NEW value
    PROVE  /\ DOMAIN With(f, path, value) = DOMAIN f \cup {path}
           /\ With(f, path, value)[path] = value
           /\ \A p \in DOMAIN f : p # path => With(f, path, value)[p] = f[p]
           /\ DOMAIN Without(f, path) = DOMAIN f \ {path}
           /\ \A p \in DOMAIN f : p # path => Without(f, path)[p] = f[p]
  BY DEF With, Without

LEMMA PlacedFiles ==
    ASSUME NEW files, Placed(files), NEW path \in Paths
    PROVE  /\ Placed(Without(files, path))
           /\ \A file \in Files : Fits(file) => Placed(With(files, path, file))
           /\ \A p \in DOMAIN files : files[p] \in Files /\ Fits(files[p])
<1>1. /\ DOMAIN files \subseteq Paths
      /\ \A p \in DOMAIN files : files[p] \in Files /\ Fits(files[p])
  BY DEF Placed, IsFileMap
<1>2. ASSUME NEW file \in Files, Fits(file)
      PROVE  Placed(With(files, path, file))
  <2> DEFINE new == With(files, path, file)
  <2>1. /\ DOMAIN new = DOMAIN files \cup {path} /\ new[path] = file
        /\ \A p \in DOMAIN files : p # path => new[p] = files[p]
    BY DEF With
  <2> HIDE DEF new
  <2>2. \A p \in DOMAIN new : new[p] \in Files /\ Fits(new[p])
    BY <1>1, <1>2, <2>1
  <2>3. DOMAIN new \subseteq Paths
    BY <1>1, <2>1
  <2>4. Placed(new)
    BY <2>2, <2>3 DEF Placed, IsFileMap
  <2> QED BY <2>4 DEF new
<1>3. Placed(Without(files, path))
  <2> DEFINE new == Without(files, path)
  <2>1. /\ DOMAIN new = DOMAIN files \ {path}
        /\ \A p \in DOMAIN files : p # path => new[p] = files[p]
    BY WithProperties
  <2> HIDE DEF new
  <2>2. \A p \in DOMAIN new : new[p] \in Files /\ Fits(new[p])
    BY <1>1, <2>1
  <2>3. DOMAIN new \subseteq Paths
    BY <1>1, <2>1
  <2>4. Placed(new)
    BY <2>2, <2>3 DEF Placed, IsFileMap
  <2> QED BY <2>4 DEF new
<1> QED BY <1>1, <1>2, <1>3

LEMMA NoFiles == Placed(<<>>) /\ DOMAIN <<>> = {} /\ NoFile \in Files /\ Fits(NoFile)
<1>1. DOMAIN <<>> = {}
  OBVIOUS
<1>2. NoFile \in Files /\ Fits(NoFile)
  BY MrafsAssumption DEF NoFile, Files, Fits
<1> QED BY <1>1, <1>2 DEF Placed, IsFileMap

(* What a file that lies within the partition reads.                        *)
LEMMA ContentsRead ==
    ASSUME NEW file \in Files, Fits(file), NEW bytes \in [DataArea -> Tokens]
    PROVE  /\ Contents(file, bytes) \in Seq(Tokens)
           /\ Len(Contents(file, bytes)) = file.size
           /\ \A i \in 1 .. file.size : /\ file.loc + i - 1 \in DataArea
                                        /\ file.loc + i - 1 \in Extent(file)
<1>1. /\ file.loc \in Nat /\ file.size \in Nat
      /\ maxFSTableSize \in Nat /\ partitionSize \in Nat
  BY MrafsAssumption DEF Files
<1>2. ASSUME NEW i \in 1 .. file.size
      PROVE  /\ file.loc + i - 1 \in DataArea
             /\ file.loc + i - 1 \in Extent(file)
  <2>1. file.size # 0
    BY <1>1
  <2>2. file.loc >= maxFSTableSize /\ file.loc + file.size <= partitionSize
    BY <2>1 DEF Fits
  <2> QED BY <1>1, <2>2 DEF DataArea, Extent
<1>3. \A i \in 1 .. file.size : bytes[file.loc + i - 1] \in Tokens
  BY <1>2
<1>4. Contents(file, bytes) \in Seq(Tokens) /\ Len(Contents(file, bytes)) = file.size
  BY <1>1, <1>3 DEF Contents
<1> QED BY <1>2, <1>4

(* The disk holds bytes after a write too.                                  *)
LEMMA OverwriteType ==
    ASSUME disk \in [DataArea -> Tokens], NEW bytes \in Seq(Tokens), NEW address \in Nat
    PROVE  Overwrite(bytes, address) \in [DataArea -> Tokens]
<1>1. \A b \in DataArea : b \in Nat
  BY MrafsAssumption DEF DataArea
<1>2. ASSUME NEW b \in DataArea, b \in address .. (address + Len(bytes) - 1)
      PROVE  bytes[b - address + 1] \in Tokens
  <2>1. b - address + 1 \in 1 .. Len(bytes)
    BY <1>1, <1>2
  <2> QED BY <2>1
<1> QED BY <1>2 DEF Overwrite

-----------------------------------------------------------------------------
(* Giving an extent back, and taking one, for a file.                       *)

(* In an empty list nothing is found, and nothing is held.                  *)
LEMMA EmptyListFacts ==
    /\ \A location : GetIndexOfPartitionFromLocation(<<>>, location) = 0
    /\ \A n : GetIndexOfFreeFilePartition(<<>>, n) = 0
    /\ Held(<<>>) = {} /\ <<>> \in Seq(Parts)
<1>1. \A location : GetIndexOfPartitionFromLocation(<<>>, location) = 0
  BY DEF GetIndexOfPartitionFromLocation, SelectInSeq
<1>2. \A n : GetIndexOfFreeFilePartition(<<>>, n) = 0
  BY DEF GetIndexOfFreeFilePartition, SelectInSeq
<1>3. Held(<<>>) = {}
  BY DEF Held
<1> QED BY <1>1, <1>2, <1>3

LEMMA KnownParts ==
    ASSUME NEW list, NEW none, Known(list, none)
    PROVE  list \in Seq(Parts)
  BY NeatParts, EmptyListFacts DEF Known

(* An extent is allocated only from a list that was read.                   *)
LEMMA CreatedProperties ==
    ASSUME NEW list, NEW none, Known(list, none), NEW n \in Nat,
           GetIndexOfFreeFilePartition(list, n) # 0
    PROVE  LET i == GetIndexOfFreeFilePartition(list, n)
               t == CreateFilePartition(list, n)
           IN  /\ Known(t, none)
               /\ Held(t) = Held(list) \cup {FSPartitionInfo(list[i].loc, n, FALSE)}
               /\ NoneEmpty(t) => NoneEmpty(list)
               /\ list[i].loc \in Nat /\ list[i].loc >= maxFSTableSize
               /\ list[i].loc + n <= partitionSize
               /\ n # 0 => \A e \in Held(list) : e.loc = list[i].loc => e.size = 0
<1>1. ~none
  BY EmptyListFacts DEF Known
<1> QED BY <1>1, NeatCreated DEF Known

(* What Released makes of the extents: nothing when the file, or the extent *)
(* at its location, is empty, otherwise that extent is free.                *)
LEMMA NeatReleased ==
    ASSUME Neat(fsPartitionList), Placed(fsFileList),
           NEW path \in DOMAIN fsFileList, ExtentFound(path)
    PROVE  LET rel  == Released(path)
               file == fsFileList[path]
           IN  /\ Neat(rel)
               /\ NoneEmpty(rel) => NoneEmpty(fsPartitionList)
               /\ \/ file.size = 0 /\ rel = fsPartitionList
                  \/ rel = fsPartitionList /\ ~NoneEmpty(fsPartitionList)
                  \/ \E e : /\ file.size # 0
                            /\ Held(rel) = Held(fsPartitionList) \ {e}
                            /\ e.loc = file.loc
                            /\ AsExtent(file) \in Held(fsPartitionList)
                                  => e = AsExtent(file)
<1> DEFINE list == fsPartitionList
           file == fsFileList[path]
           k == ExtentIndex(path)
           rel == Released(path)
<1>1. CASE file.size = 0
  <2>1. rel = list
    BY <1>1 DEF Released
  <2> QED BY <1>1, <2>1
<1>2. CASE file.size # 0
  <2>1. /\ Formed(list) /\ list \in Seq(Pieces) /\ Len(list) \in Nat
        /\ \A j \in 1 .. Len(list) : /\ list[j] \in Pieces
                                     /\ list[j].loc \in Nat /\ list[j].size \in Nat
        /\ list[1].loc = 0
    BY FormedParts DEF Neat
  <2>2. k # 0 /\ k \in 1 .. Len(list) /\ list[k].loc = file.loc
    <3>1. GetIndexOfPartitionFromLocation(list, file.loc) # 0
      BY <1>2 DEF ExtentFound, ExtentIndex
    <3> QED BY <2>1, <3>1, LocationFound DEF ExtentIndex
  <2>3. file \in Files /\ Fits(file)
    BY DEF Placed, IsFileMap
  <2>4. k \in 2 .. Len(list)
    <3>1. file.loc >= maxFSTableSize /\ file.loc \in Nat
      BY <1>2, <2>3 DEF Fits, Files
    <3>2. file.loc # 0
      BY <3>1, MrafsAssumption
    <3>3. k # 1
      BY <2>1, <2>2, <3>2
    <3> QED BY <2>1, <2>2, <3>3
  <2>5. rel = IF list[k].size = 0 THEN list ELSE DeleteFilePartition(list, k)
    BY <1>2 DEF Released
  <2> HIDE DEF k, rel
  <2>6. CASE list[k].size = 0
    <3>1. ~NoneEmpty(list)
      BY <2>2, <2>6 DEF NoneEmpty
    <3> QED BY <2>5, <2>6, <3>1 DEF rel
  <2>7. CASE list[k].size # 0
    <3>1. rel = DeleteFilePartition(list, k)
      BY <2>5, <2>7
    <3>2. /\ Neat(rel) /\ Held(rel) = Held(list) \ {list[k]}
          /\ NoneEmpty(rel) => NoneEmpty(list)
      BY <2>4, <2>7, <3>1, DeletedProperties
    <3>3. ASSUME AsExtent(file) \in Held(list) PROVE list[k] = AsExtent(file)
      <4>1. PICK j \in 2 .. Len(list) : ~list[j].free /\ AsExtent(file) = list[j]
        BY <3>3 DEF Held
      <4>2. AsExtent(file).loc = file.loc /\ AsExtent(file).size = file.size
        BY DEF AsExtent, FSPartitionInfo
      <4>3. j = k
        BY <1>2, <2>1, <2>2, <2>4, <2>7, <4>1, <4>2, Behind
      <4> QED BY <4>1, <4>3
    <3> HIDE DEF list, file
    <3>4. \E e : /\ file.size # 0
                 /\ Held(rel) = Held(list) \ {e}
                 /\ e.loc = file.loc
                 /\ AsExtent(file) \in Held(list) => e = AsExtent(file)
      <4>1. file.size # 0
        BY <1>2 DEF file
      <4> QED BY <2>2, <3>2, <3>3, <4>1
    <3> QED BY <3>2, <3>4 DEF list, file, rel
  <2> QED BY <2>6, <2>7
<1> QED BY <1>1, <1>2

LEMMA ReleasedProperties ==
    ASSUME Known(fsPartitionList, unread), Placed(fsFileList),
           NEW path \in DOMAIN fsFileList, ExtentFound(path)
    PROVE  LET rel  == Released(path)
               file == fsFileList[path]
           IN  /\ Known(rel, unread)
               /\ NoneEmpty(rel) => NoneEmpty(fsPartitionList)
               /\ \/ file.size = 0 /\ rel = fsPartitionList
                  \/ rel = fsPartitionList /\ ~NoneEmpty(fsPartitionList)
                  \/ \E e : /\ file.size # 0
                            /\ Held(rel) = Held(fsPartitionList) \ {e}
                            /\ e.loc = file.loc
                            /\ AsExtent(file) \in Held(fsPartitionList)
                                  => e = AsExtent(file)
<1>1. CASE ~unread
  BY <1>1, NeatReleased DEF Known
<1>2. CASE unread
  <2>1. fsPartitionList = <<>>
    BY <1>2 DEF Known
  <2>2. fsFileList[path].size = 0
    BY <2>1, EmptyListFacts DEF ExtentFound, ExtentIndex
  <2>3. Released(path) = fsPartitionList
    BY <2>2 DEF Released
  <2> QED BY <2>2, <2>3
<1> QED BY <1>1, <1>2

(* The other files keep their extents, and every extent that is held still  *)
(* is that of a file.                                                       *)
LEMMA ReleasedKept ==
    ASSUME Known(fsPartitionList, unread), Placed(fsFileList),
           NEW path \in DOMAIN fsFileList, ExtentFound(path),
           Kept(fsPartitionList, fsFileList, stale), path \notin stale
    PROVE  Kept(Released(path), Without(fsFileList, path), stale)
<1> DEFINE list == fsPartitionList
           files == fsFileList
           file == fsFileList[path]
           rel == Released(path)
           left == Without(files, path)
<1>1. /\ NoneEmpty(rel) => NoneEmpty(list)
      /\ \/ file.size = 0 /\ rel = list
         \/ rel = list /\ ~NoneEmpty(list)
         \/ \E e : /\ file.size # 0
                   /\ Held(rel) = Held(list) \ {e}
                   /\ e.loc = file.loc
                   /\ AsExtent(file) \in Held(list) => e = AsExtent(file)
  BY ReleasedProperties
<1>2. /\ DOMAIN left = DOMAIN files \ {path}
      /\ \A p \in DOMAIN files : p # path => left[p] = files[p]
  BY WithProperties
<1>3. /\ \A p \in DOMAIN files \ stale :
            files[p].size # 0 =>
                /\ AsExtent(files[p]) \in Held(list)
                /\ \A q \in DOMAIN files \ stale :
                      q # p /\ files[q].size # 0 => files[q].loc # files[p].loc
      /\ NoneEmpty(list) =>
            \A e \in Held(list) : \E p \in DOMAIN files : e = AsExtent(files[p])
  BY DEF Kept
<1>4. \A f : AsExtent(f).loc = f.loc /\ AsExtent(f).size = f.size
  BY DEF AsExtent, FSPartitionInfo
<1> HIDE DEF rel, left, list, files
<1>5. ASSUME NEW p \in DOMAIN left \ stale, left[p].size # 0
      PROVE  /\ AsExtent(left[p]) \in Held(rel)
             /\ \A q \in DOMAIN left \ stale :
                   q # p /\ left[q].size # 0 => left[q].loc # left[p].loc
  <2>1. p \in DOMAIN files \ stale /\ p # path /\ left[p] = files[p]
    BY <1>2, <1>5
  <2>2. /\ AsExtent(files[p]) \in Held(list)
        /\ \A q \in DOMAIN files \ stale :
              q # p /\ files[q].size # 0 => files[q].loc # files[p].loc
    BY <1>3, <1>5, <2>1
  <2>3. ASSUME NEW q \in DOMAIN left \ stale, q # p, left[q].size # 0
        PROVE  left[q].loc # left[p].loc
    BY <1>2, <2>1, <2>2, <2>3
  <2>4. AsExtent(files[p]) \in Held(rel)
    <3>1. CASE rel = list
      BY <2>2, <3>1
    <3>2. ASSUME file.size # 0, NEW e, Held(rel) = Held(list) \ {e}, e.loc = file.loc
          PROVE  AsExtent(files[p]) \in Held(rel)
      <4>1. path \in DOMAIN files \ stale /\ files[path] = file
        BY DEF files
      <4>2. file.loc # files[p].loc
        BY <2>1, <2>2, <3>2, <4>1
      <4>3. AsExtent(files[p]) # e
        BY <1>4, <3>2, <4>2
      <4> QED BY <2>2, <3>2, <4>3
    <3> QED BY <1>1, <3>1, <3>2
  <2> QED BY <2>1, <2>3, <2>4
<1>6. ASSUME NoneEmpty(rel), NEW e \in Held(rel)
      PROVE  \E p \in DOMAIN left : e = AsExtent(left[p])
  <2>1. NoneEmpty(list)
    BY <1>1, <1>6
  <2>2. e \in Held(list)
    BY <1>1, <1>6
  <2>3. PICK p \in DOMAIN files : e = AsExtent(files[p])
    BY <1>3, <2>1, <2>2
  <2>4. e.size # 0
    <3>1. PICK j \in 2 .. Len(list) : e = list[j]
      BY <2>2 DEF Held
    <3>2. j \in 1 .. Len(list)
      <4>1. Len(list) \in Nat
        BY KnownParts DEF list
      <4> QED BY <4>1
    <3> QED BY <2>1, <3>1, <3>2 DEF NoneEmpty
  <2>5. ASSUME p = path PROVE FALSE
    <3>1. e = AsExtent(file) /\ file.size # 0
      BY <1>4, <2>3, <2>4, <2>5 DEF files
    <3>2. path \in DOMAIN files \ stale /\ files[path] = file
      BY DEF files
    <3>3. AsExtent(file) \in Held(list)
      BY <2>2, <3>1
    <3> QED BY <1>1, <1>6, <2>1, <3>1, <3>3
  <2> QED BY <1>2, <2>3, <2>5
<1> QED BY <1>5, <1>6 DEF Kept, rel, left, files

(* The file that an extent is allocated for owns it.                        *)
LEMMA CreatedKept ==
    ASSUME NEW list, NEW none, Known(list, none), NEW n \in Nat,
           GetIndexOfFreeFilePartition(list, n) # 0,
           NEW files, NEW path, NEW lost, Kept(list, Without(files, path), lost)
    PROVE  LET i    == GetIndexOfFreeFilePartition(list, n)
               file == [loc |-> list[i].loc, size |-> n]
           IN  Kept(CreateFilePartition(list, n), With(files, path, file), lost)
<1> DEFINE i == GetIndexOfFreeFilePartition(list, n)
           file == [loc |-> list[i].loc, size |-> n]
           t == CreateFilePartition(list, n)
           left == Without(files, path)
           new == With(files, path, file)
<1>1. /\ Held(t) = Held(list) \cup {FSPartitionInfo(list[i].loc, n, FALSE)}
      /\ NoneEmpty(t) => NoneEmpty(list)
      /\ n # 0 => \A e \in Held(list) : e.loc = list[i].loc => e.size = 0
  BY CreatedProperties
<1>2. AsExtent(file) = FSPartitionInfo(list[i].loc, n, FALSE)
      /\ file.loc = list[i].loc /\ file.size = n
  BY DEF AsExtent
<1>3. /\ DOMAIN left = DOMAIN files \ {path}
      /\ \A p \in DOMAIN files : p # path => left[p] = files[p]
  BY WithProperties
<1>4. /\ DOMAIN new = DOMAIN files \cup {path} /\ new[path] = file
      /\ \A p \in DOMAIN files : p # path => new[p] = files[p]
  BY DEF With
<1>5. /\ \A p \in DOMAIN left \ lost :
            left[p].size # 0 =>
                /\ AsExtent(left[p]) \in Held(list)
                /\ \A q \in DOMAIN left \ lost :
                      q # p /\ left[q].size # 0 => left[q].loc # left[p].loc
      /\ NoneEmpty(list) =>
            \A e \in Held(list) : \E p \in DOMAIN left : e = AsExtent(left[p])
  BY DEF Kept
<1>6. \A f : AsExtent(f).loc = f.loc /\ AsExtent(f).size = f.size
  BY DEF AsExtent, FSPartitionInfo
<1> HIDE DEF i, file, t, left, new
<1>7. \A p \in DOMAIN new : p # path => p \in DOMAIN left /\ new[p] = left[p]
  BY <1>3, <1>4
<1>8. ASSUME NEW q \in DOMAIN left \ lost, left[q].size # 0, n # 0
      PROVE  left[q].loc # file.loc
  <2>1. AsExtent(left[q]) \in Held(list)
    BY <1>5, <1>8
  <2>2. AsExtent(left[q]).loc = left[q].loc /\ AsExtent(left[q]).size # 0
    BY <1>6, <1>8
  <2> QED BY <1>1, <1>2, <1>8, <2>1, <2>2
<1>9. ASSUME NEW p \in DOMAIN new \ lost, new[p].size # 0
      PROVE  /\ AsExtent(new[p]) \in Held(t)
             /\ \A q \in DOMAIN new \ lost :
                   q # p /\ new[q].size # 0 => new[q].loc # new[p].loc
  <2>1. CASE p = path
    <3>1. new[p] = file /\ n # 0
      BY <1>2, <1>4, <1>9, <2>1
    <3>2. AsExtent(new[p]) \in Held(t)
      BY <1>1, <1>2, <3>1
    <3>3. ASSUME NEW q \in DOMAIN new \ lost, q # p, new[q].size # 0
          PROVE  new[q].loc # new[p].loc
      BY <1>7, <1>8, <2>1, <3>1, <3>3
    <3> QED BY <3>2, <3>3
  <2>2. CASE p # path
    <3>1. p \in DOMAIN left \ lost /\ new[p] = left[p]
      BY <1>7, <1>9, <2>2
    <3>2. AsExtent(new[p]) \in Held(t)
      BY <1>1, <1>5, <1>9, <3>1
    <3>3. ASSUME NEW q \in DOMAIN new \ lost, q # p, new[q].size # 0
          PROVE  new[q].loc # new[p].loc
      <4>1. CASE q = path
        <5>1. n # 0 /\ new[q] = file
          BY <1>2, <1>4, <3>3, <4>1
        <5> QED BY <1>8, <1>9, <3>1, <5>1
      <4>2. CASE q # path
        BY <1>5, <1>7, <1>9, <3>1, <3>3, <4>2
      <4> QED BY <4>1, <4>2
    <3> QED BY <3>2, <3>3
  <2> QED BY <2>1, <2>2
<1>10. ASSUME NoneEmpty(t), NEW e \in Held(t)
       PROVE  \E p \in DOMAIN new : e = AsExtent(new[p])
  <2>1. CASE e \in Held(list)
    <3>1. PICK p \in DOMAIN left : e = AsExtent(left[p])
      BY <1>1, <1>5, <1>10, <2>1
    <3>2. p \in DOMAIN new /\ new[p] = left[p]
      BY <1>3, <1>4, <3>1
    <3> QED BY <3>1, <3>2
  <2>2. CASE e = AsExtent(file)
    BY <1>4, <2>2
  <2> QED BY <1>1, <1>2, <1>10, <2>1, <2>2
<1>11. Kept(t, new, lost)
  BY <1>9, <1>10 DEF Kept
<1> QED BY <1>11 DEF i, file, t, new

(* A file whose extent was given back is lost.                              *)
LEMMA ForgottenKept ==
    ASSUME NEW list, NEW files, NEW path, NEW lost,
           Kept(list, Without(files, path), lost)
    PROVE  Kept(list, files, lost \cup {path})
<1> DEFINE left == Without(files, path)
<1>1. /\ DOMAIN left = DOMAIN files \ {path}
      /\ \A p \in DOMAIN files : p # path => left[p] = files[p]
  BY WithProperties
<1>2. Kept(list, left, lost)
  OBVIOUS
<1> HIDE DEF left
<1>3. \A p \in DOMAIN files \ (lost \cup {path}) :
         p \in DOMAIN left \ lost /\ left[p] = files[p]
  BY <1>1
<1>4. \A p \in DOMAIN left : p \in DOMAIN files /\ left[p] = files[p]
  BY <1>1
<1> QED BY <1>2, <1>3, <1>4 DEF Kept

(* An entry without data needs no extent.                                   *)
LEMMA EmptyFileKept ==
    ASSUME NEW list, NEW files, NEW path, path \notin DOMAIN files, NEW lost,
           Kept(list, files, lost)
    PROVE  /\ Kept(list, With(files, path, NoFile), lost)
           /\ Kept(list, Without(files, path), lost)
<1>1. Kept(list, With(files, path, NoFile), lost)
  <2> DEFINE new == With(files, path, NoFile)
  <2>1. /\ DOMAIN new = DOMAIN files \cup {path} /\ new[path] = NoFile
        /\ \A p \in DOMAIN files : p # path => new[p] = files[p]
    BY DEF With
  <2>2. NoFile.size = 0
    BY DEF NoFile
  <2> HIDE DEF new
  <2>3. \A p \in DOMAIN new \ lost :
           new[p].size # 0 => p \in DOMAIN files \ lost /\ new[p] = files[p]
    BY <2>1, <2>2
  <2>4. \A p \in DOMAIN files : p \in DOMAIN new /\ new[p] = files[p]
    BY <2>1
  <2>5. Kept(list, new, lost)
    BY <2>3, <2>4 DEF Kept
  <2> QED BY <2>5 DEF new
<1>2. Kept(list, Without(files, path), lost)
  <2> DEFINE left == Without(files, path)
  <2>1. /\ DOMAIN left = DOMAIN files \ {path}
        /\ \A p \in DOMAIN files : p # path => left[p] = files[p]
    BY WithProperties
  <2> HIDE DEF left
  <2>2. DOMAIN left = DOMAIN files /\ \A p \in DOMAIN files : left[p] = files[p]
    BY <2>1
  <2>3. Kept(list, left, lost)
    BY <2>2 DEF Kept
  <2> QED BY <2>3 DEF left
<1> QED BY <1>1, <1>2

(* A file that is renamed keeps its extent; a lost one stays lost.          *)
LEMMA RenamedKept ==
    ASSUME NEW list, NEW files, NEW old \in DOMAIN files, NEW new,
           new \notin DOMAIN files, NEW lost, NEW after, Kept(list, files, lost),
           after = IF old \in lost THEN (lost \ {old}) \cup {new} ELSE lost
    PROVE  Kept(list, With(Without(files, old), new, files[old]), after)
<1> DEFINE t == With(Without(files, old), new, files[old])
           was == [p \in DOMAIN t |-> IF p = new THEN old ELSE p]
<1>1. /\ DOMAIN t = (DOMAIN files \ {old}) \cup {new} /\ t[new] = files[old]
      /\ \A p \in DOMAIN files : p # old => t[p] = files[p]
  BY DEF With, Without
<1> HIDE DEF t
<1>2. \A p \in DOMAIN t : was[p] = IF p = new THEN old ELSE p
  OBVIOUS
<1> HIDE DEF was
<1>3. /\ \A p \in DOMAIN t : was[p] \in DOMAIN files /\ t[p] = files[was[p]]
      /\ \A p \in DOMAIN t \ after : was[p] \in DOMAIN files \ lost
      /\ \A p, q \in DOMAIN t : p # q => was[p] # was[q]
      /\ \A p \in DOMAIN files : \E q \in DOMAIN t : p = was[q]
  <2>1. ASSUME NEW p \in DOMAIN t
        PROVE  was[p] \in DOMAIN files /\ t[p] = files[was[p]]
    BY <1>1, <1>2
  <2>2. ASSUME NEW p \in DOMAIN t \ after PROVE was[p] \in DOMAIN files \ lost
    BY <1>1, <1>2
  <2>3. ASSUME NEW p \in DOMAIN t, NEW q \in DOMAIN t, p # q PROVE was[p] # was[q]
    BY <1>1, <1>2, <2>3
  <2>4. ASSUME NEW p \in DOMAIN files PROVE \E q \in DOMAIN t : p = was[q]
    <3>1. CASE p = old
      <4>1. new \in DOMAIN t /\ was[new] = p
        BY <1>1, <1>2, <3>1
      <4> QED BY <4>1
    <3>2. CASE p # old
      <4>1. p \in DOMAIN t /\ was[p] = p
        BY <1>1, <1>2, <3>2
      <4> QED BY <4>1
    <3> QED BY <3>1, <3>2
  <2> QED BY <2>1, <2>2, <2>3, <2>4
<1>4. ASSUME NEW p \in DOMAIN t \ after, t[p].size # 0
      PROVE  /\ AsExtent(t[p]) \in Held(list)
             /\ \A q \in DOMAIN t \ after :
                   q # p /\ t[q].size # 0 => t[q].loc # t[p].loc
  <2>1. was[p] \in DOMAIN files \ lost /\ t[p] = files[was[p]]
    BY <1>3
  <2>2. /\ AsExtent(files[was[p]]) \in Held(list)
        /\ \A q \in DOMAIN files \ lost :
              q # was[p] /\ files[q].size # 0 => files[q].loc # files[was[p]].loc
    BY <1>4, <2>1 DEF Kept
  <2>3. ASSUME NEW q \in DOMAIN t \ after, q # p, t[q].size # 0
        PROVE  t[q].loc # t[p].loc
    <3>1. was[q] \in DOMAIN files \ lost /\ t[q] = files[was[q]] /\ was[q] # was[p]
      BY <1>3, <2>3
    <3> QED BY <2>1, <2>2, <2>3, <3>1
  <2> QED BY <2>1, <2>2, <2>3
<1>5. ASSUME NoneEmpty(list), NEW e \in Held(list)
      PROVE  \E p \in DOMAIN t : e = AsExtent(t[p])
  <2>1. PICK q \in DOMAIN files : e = AsExtent(files[q])
    BY <1>5 DEF Kept
  <2>2. PICK p \in DOMAIN t : q = was[p]
    BY <1>3
  <2>3. e = AsExtent(t[p])
    BY <1>3, <2>1, <2>2
  <2> QED BY <2>3
<1>6. Kept(list, t, after)
  BY <1>4, <1>5 DEF Kept
<1> QED BY <1>6 DEF t

-----------------------------------------------------------------------------
(* The bytes of one file and those of another.                              *)

(* Extents with different locations do not overlap, so neither do the files *)
(* that own them.                                                           *)
LEMMA HeldApart ==
    ASSUME NEW list, Formed(list), NEW e \in Held(list), NEW f \in Held(list),
           e.loc # f.loc
    PROVE  /\ e.loc \in Nat /\ e.size \in Nat /\ f.loc \in Nat /\ f.size \in Nat
           /\ e.loc + e.size <= f.loc \/ f.loc + f.size <= e.loc
<1>1. /\ list \in Seq(Pieces) /\ ExtentsIn(Pieces) /\ Tiles(list, partitionSize)
      /\ Len(list) \in Nat
      /\ \A j \in 1 .. Len(list) : list[j].loc \in Nat /\ list[j].size \in Nat
  BY FormedParts DEF Formed
<1>2. PICK j \in 2 .. Len(list) : e = list[j]
  BY DEF Held
<1>3. PICK k \in 2 .. Len(list) : f = list[k]
  BY DEF Held
<1>4. j \in 1 .. Len(list) /\ k \in 1 .. Len(list)
  BY <1>1
<1>5. CASE j < k
  <2>1. k \in (j + 1) .. Len(list)
    BY <1>1, <1>4, <1>5
  <2>2. list[j].loc + list[j].size <= list[k].loc
    BY <1>1, <1>4, <2>1, TilesOrdered
  <2> QED BY <1>1, <1>2, <1>3, <1>4, <2>2
<1>6. CASE k < j
  <2>1. j \in (k + 1) .. Len(list)
    BY <1>1, <1>4, <1>6
  <2>2. list[k].loc + list[k].size <= list[j].loc
    BY <1>1, <1>4, <2>1, TilesOrdered
  <2> QED BY <1>1, <1>2, <1>3, <1>4, <2>2
<1>7. j # k
  BY <1>2, <1>3
<1> QED BY <1>4, <1>5, <1>6, <1>7

LEMMA FilesApart ==
    ASSUME NEW list, NEW none, Known(list, none),
           NEW files, Placed(files), NEW lost,
           Kept(list, files, lost),
           NEW p \in DOMAIN files \ lost, NEW q \in DOMAIN files \ lost, p # q,
           files[p].size # 0, files[q].size # 0
    PROVE  Extent(files[p]) \cap Extent(files[q]) = {}
<1> DEFINE e == AsExtent(files[p])
           f == AsExtent(files[q])
<1>1. /\ e.loc = files[p].loc /\ e.size = files[p].size
      /\ f.loc = files[q].loc /\ f.size = files[q].size
  BY DEF AsExtent, FSPartitionInfo
<1>2. e \in Held(list) /\ f \in Held(list) /\ files[q].loc # files[p].loc
  BY DEF Kept
<1> HIDE DEF e, f
<1>3. Formed(list) /\ e.loc # f.loc
  BY <1>1, <1>2, EmptyListFacts DEF Known, Neat
<1>4. /\ e.loc \in Nat /\ e.size \in Nat /\ f.loc \in Nat /\ f.size \in Nat
      /\ e.loc + e.size <= f.loc \/ f.loc + f.size <= e.loc
  BY <1>2, <1>3, HeldApart
<1>5. ASSUME NEW b \in Extent(files[p]), b \in Extent(files[q])
      PROVE  FALSE
  <2>1. /\ b \in e.loc .. (e.loc + e.size - 1)
        /\ b \in f.loc .. (f.loc + f.size - 1)
    BY <1>1, <1>5 DEF Extent
  <2> QED BY <1>4, <2>1
<1> QED BY <1>5

(* A write elsewhere does not change what a file reads, and a write to the  *)
(* extent of a file is what it reads.                                       *)
LEMMA OtherBytes ==
    ASSUME disk \in [DataArea -> Tokens], NEW file \in Files, Fits(file),
           NEW bytes, NEW address,
           \A b \in Extent(file) : b \notin address .. (address + Len(bytes) - 1)
    PROVE  Contents(file, Overwrite(bytes, address)) = Contents(file, disk)
<1>1. \A i \in 1 .. file.size : /\ file.loc + i - 1 \in DataArea
                                /\ file.loc + i - 1 \in Extent(file)
  BY ContentsRead
<1>2. ASSUME NEW i \in 1 .. file.size
      PROVE  Overwrite(bytes, address)[file.loc + i - 1] = disk[file.loc + i - 1]
  BY <1>1 DEF Overwrite
<1> QED BY <1>2 DEF Contents

LEMMA OwnBytes ==
    ASSUME NEW file \in Files, Fits(file), NEW bytes \in Seq(Tokens),
           Len(bytes) = file.size
    PROVE  Contents(file, Overwrite(bytes, file.loc)) = bytes
<1>1. file.loc \in Nat /\ file.size \in Nat
  BY MrafsAssumption DEF Files
<1>2. \A i \in 1 .. file.size : file.loc + i - 1 \in DataArea
  <2>1. ASSUME NEW i \in 1 .. file.size PROVE file.loc + i - 1 \in DataArea
    <3>1. /\ file.loc >= maxFSTableSize /\ file.loc + file.size <= partitionSize
          /\ maxFSTableSize \in Nat /\ partitionSize \in Nat
      BY <1>1, MrafsAssumption DEF Fits
    <3> QED BY <1>1, <3>1 DEF DataArea
  <2> QED BY <2>1
<1>3. ASSUME NEW i \in 1 .. file.size
      PROVE  Overwrite(bytes, file.loc)[file.loc + i - 1] = bytes[i]
  <2>1. /\ file.loc + i - 1 \in DataArea
        /\ file.loc + i - 1 \in file.loc .. (file.loc + Len(bytes) - 1)
        /\ (file.loc + i - 1) - file.loc + 1 = i
    BY <1>1, <1>2
  <2> QED BY <2>1 DEF Overwrite
<1>4. Contents(file, Overwrite(bytes, file.loc)) = [i \in 1 .. file.size |-> bytes[i]]
  BY <1>3 DEF Contents
<1>5. bytes = [i \in 1 .. Len(bytes) |-> bytes[i]]
  OBVIOUS
<1> QED BY <1>4, <1>5

(* Writing within one file leaves the bytes of the others alone.            *)
LEMMA OthersUnwritten ==
    ASSUME Known(fsPartitionList, unread), Placed(fsFileList),
           Kept(fsPartitionList, fsFileList, stale), disk \in [DataArea -> Tokens],
           NEW path \in DOMAIN fsFileList \ stale,
           NEW bytes \in Seq(Tokens), NEW address \in Nat,
           address >= fsFileList[path].loc,
           address + Len(bytes) <= fsFileList[path].loc + fsFileList[path].size,
           NEW p \in DOMAIN fsFileList \ stale, p # path, fsFileList[p].size # 0
    PROVE  Contents(fsFileList[p], Overwrite(bytes, address)) = Contents(fsFileList[p], disk)
<1> DEFINE file == fsFileList[path]
           other == fsFileList[p]
<1>1. file \in Files /\ other \in Files /\ Fits(other) /\ Fits(file)
  BY DEF Placed, IsFileMap
<1>2. file.loc \in Nat /\ file.size \in Nat /\ Len(bytes) \in Nat
  BY <1>1, MrafsAssumption DEF Files
<1>3. ASSUME NEW b \in Extent(other), b \in address .. (address + Len(bytes) - 1)
      PROVE  FALSE
  <2>1. b \in file.loc .. (file.loc + file.size - 1) /\ file.size # 0
    BY <1>2, <1>3
  <2>2. b \in Extent(file)
    BY <2>1 DEF Extent
  <2>3. Extent(other) \cap Extent(file) = {}
    BY <2>1, FilesApart
  <2> QED BY <1>3, <2>2, <2>3
<1> HIDE DEF other
<1>4. Contents(other, Overwrite(bytes, address)) = Contents(other, disk)
  BY <1>1, <1>3, OtherBytes
<1> QED BY <1>4 DEF other

-----------------------------------------------------------------------------
(* Structure is kept by every action.                                       *)

Texts(f) == \A p \in DOMAIN f : f[p] \in Seq(Tokens)

LEMMA TextsChanged ==
    ASSUME NEW f, Texts(f), NEW path
    PROVE  /\ Texts(Without(f, path))
           /\ \A text \in Seq(Tokens) : Texts(With(f, path, text))
<1>1. Texts(Without(f, path))
  BY DEF Texts, Without
<1>2. ASSUME NEW text \in Seq(Tokens) PROVE Texts(With(f, path, text))
  BY DEF Texts, With
<1> QED BY <1>1, <1>2

(* What is known of a mounted volume.                                       *)
LEMMA MountedFacts ==
    ASSUME Structure, mounted
    PROVE  /\ Known(fsPartitionList, unread) /\ fsPartitionList \in Seq(Parts)
           /\ Placed(fsFileList) /\ DOMAIN fsFileList \subseteq Paths
           /\ \A p \in DOMAIN fsFileList : /\ fsFileList[p] \in Files
                                           /\ Fits(fsFileList[p])
                                           /\ fsFileList[p].loc \in Nat
                                           /\ fsFileList[p].size \in Nat
           /\ disk \in [DataArea -> Tokens]
           /\ Texts(expected) /\ DOMAIN expected = DOMAIN fsFileList
           /\ stale \subseteq Paths /\ {unread, harmed} \subseteq BOOLEAN
           /\ \A p \in DOMAIN fsFileList : /\ Contents(fsFileList[p], disk) \in Seq(Tokens)
                                           /\ Len(Contents(fsFileList[p], disk))
                                                 = fsFileList[p].size
<1>1. /\ Known(fsPartitionList, unread) /\ fsPartitionList \in Seq(Parts)
      /\ Placed(fsFileList) /\ IsFileMap(fsFileList)
      /\ disk \in [DataArea -> Tokens]
      /\ Texts(expected) /\ DOMAIN expected = DOMAIN fsFileList
      /\ stale \subseteq Paths /\ {unread, harmed} \subseteq BOOLEAN
  BY DEF Structure, TypeOK, Texts
<1>2. \A p \in DOMAIN fsFileList : fsFileList[p] \in Files /\ Fits(fsFileList[p])
  BY <1>1 DEF Placed, IsFileMap
<1>3. DOMAIN fsFileList \subseteq Paths
  BY <1>1 DEF IsFileMap
<1>4. \A file \in Files : file.loc \in Nat /\ file.size \in Nat
  BY MrafsAssumption DEF Files
<1>5. ASSUME NEW p \in DOMAIN fsFileList
      PROVE  /\ Contents(fsFileList[p], disk) \in Seq(Tokens)
             /\ Len(Contents(fsFileList[p], disk)) = fsFileList[p].size
  BY <1>1, <1>2, <1>5, ContentsRead
<1> QED BY <1>1, <1>2, <1>3, <1>4, <1>5

(* The lists of a mounted volume change, its disk and table do not.         *)
ListsStep ==
    /\ mounted /\ mounted' = mounted /\ unread' \in BOOLEAN
    /\ UNCHANGED <<disk, saved>>
    /\ Known(fsPartitionList', unread') /\ Placed(fsFileList')
    /\ Texts(expected') /\ DOMAIN expected' = DOMAIN fsFileList'
    /\ stale' \subseteq Paths /\ harmed' \in BOOLEAN
    /\ pc' \in {"idle", "create", "copy", "data", "table"}
    /\ {cur', from'} \subseteq Paths \cup {NoPath}
    /\ data' \in Seq(Tokens)
    /\ result' \in {"none", "ok", "copied", "error"}
    /\ pc' \in {"create", "copy"} => {cur', from'} \subseteq DOMAIN fsFileList'
    /\ pc' = "data" => /\ cur' \in DOMAIN fsFileList'
                       /\ Len(data') = fsFileList'[cur'].size

(* Such a step keeps the structure: all actions but the writes to the disk, *)
(* a crash and a reload are of this form.                                   *)
LEMMA ListsStepStructure ==
    ASSUME Structure, ListsStep
    PROVE  Structure'
<1>1. fsPartitionList' \in Seq(Parts)
  BY KnownParts DEF ListsStep
<1>2. IsFileMap(fsFileList')
  BY DEF ListsStep, Placed
<1>3. TypeOK'
  BY <1>1, <1>2 DEF ListsStep, Structure, TypeOK, Texts
<1> QED BY <1>3 DEF ListsStep, Structure

(* An empty entry is added.                                                 *)
LEMMA AddedStructure ==
    ASSUME Structure, mounted, NEW path \in Paths, AddEmptyFile(path),
           pc' \in {"idle", "create", "table"},
           {cur', from'} \subseteq Paths \cup {NoPath},
           data' = <<>>, result' \in {"none", "ok", "copied", "error"},
           pc' = "create" => {cur', from'} \subseteq DOMAIN fsFileList \cup {path}
    PROVE  Structure'
<1>1. /\ fsFileList' = With(fsFileList, path, NoFile)
      /\ expected' = With(expected, path, <<>>)
      /\ UNCHANGED <<mounted, unread, fsPartitionList, disk, saved, stale, harmed>>
  BY DEF AddEmptyFile
<1>2. Placed(fsFileList')
  BY <1>1, MountedFacts, PlacedFiles, NoFiles
<1>3. Texts(expected')
  <2>1. <<>> \in Seq(Tokens)
    OBVIOUS
  <2> QED BY <1>1, <2>1, MountedFacts, TextsChanged
<1>4. /\ DOMAIN fsFileList' = DOMAIN fsFileList \cup {path}
      /\ DOMAIN expected' = DOMAIN fsFileList'
  BY <1>1, MountedFacts DEF With
<1>5. ListsStep
  <2>1. data' \in Seq(Tokens)
    OBVIOUS
  <2> QED BY <1>1, <1>2, <1>3, <1>4, <2>1, MountedFacts DEF ListsStep
<1> QED BY <1>5, ListsStepStructure

(* WriteFile, whoever calls it.                                             *)
LEMMA WriteFileStructure ==
    ASSUME Structure, mounted, NEW path \in DOMAIN fsFileList,
           NEW bytes \in Seq(Tokens), NEW source \in Paths \cup {NoPath},
           WriteFile(path, bytes, source)
    PROVE  Structure'
<1>1. /\ Known(fsPartitionList, unread) /\ Placed(fsFileList) /\ DOMAIN fsFileList \subseteq Paths
      /\ Texts(expected) /\ DOMAIN expected = DOMAIN fsFileList
      /\ stale \subseteq Paths /\ {unread, harmed} \subseteq BOOLEAN
      /\ path \in Paths
      /\ <<>> \in Seq(Tokens) /\ Len(bytes) \in Nat
  BY MountedFacts
<1>2. CASE WriteInPlace(path, bytes, source)
  <2>1. /\ UNCHANGED <<mounted, unread, fsPartitionList, fsFileList, disk, saved, expected, stale>>
        /\ Len(bytes) = fsFileList[path].size
        /\ harmed' \in BOOLEAN
    BY <1>1, <1>2 DEF WriteInPlace, HarmIfStale, memory
  <2>2. \/ /\ pc' = "idle" /\ cur' = NoPath /\ data' = <<>> /\ from' = NoPath
           /\ result' = "none"
        \/ /\ pc' = "data" /\ cur' = path /\ data' = bytes /\ from' = source
           /\ result' = "none"
    BY <1>2 DEF WriteInPlace, Finish, Continue
  <2>3. ListsStep
    BY <1>1, <2>1, <2>2 DEF ListsStep
  <2> QED BY <2>3, ListsStepStructure
<1>3. CASE WriteLost(path, bytes)
  <2>1. /\ UNCHANGED <<mounted, unread, fsPartitionList, fsFileList, disk, saved,
                       expected, stale, harmed>>
        /\ pc' = "idle" /\ cur' = NoPath /\ data' = <<>> /\ from' = NoPath
        /\ result' = "error"
    BY <1>3 DEF WriteLost, Finish, memory, history
  <2>2. ListsStep
    BY <1>1, <2>1 DEF ListsStep
  <2> QED BY <2>2, ListsStepStructure
<1>4. CASE WriteNoSpace(path, bytes, source)
  <2>1. /\ UNCHANGED <<mounted, unread, fsFileList, disk, saved, expected>>
        /\ ExtentFound(path) /\ fsPartitionList' = Released(path)
        /\ stale' \subseteq Paths /\ harmed' \in BOOLEAN
        /\ pc' = "idle" /\ cur' = NoPath /\ data' = <<>> /\ from' = NoPath
        /\ result' \in {"error", "copied"}
    BY <1>1, <1>4 DEF WriteNoSpace, Finish, HarmIfStale
  <2>2. Known(fsPartitionList', unread')
    BY <1>1, <2>1, ReleasedProperties
  <2>3. ListsStep
    BY <1>1, <2>1, <2>2 DEF ListsStep
  <2> QED BY <2>3, ListsStepStructure
<1>5. CASE WriteMoved(path, bytes, source)
  <2> DEFINE rel == Released(path)
             i == GetIndexOfFreeFilePartition(rel, Len(bytes))
             file == [loc |-> rel[i].loc, size |-> Len(bytes)]
  <2>1. /\ UNCHANGED <<mounted, unread, disk, saved, expected>>
        /\ ExtentFound(path) /\ i # 0
        /\ fsPartitionList' = CreateFilePartition(rel, Len(bytes))
        /\ fsFileList' = With(fsFileList, path, file)
        /\ stale' = stale \ {path} /\ harmed' \in BOOLEAN
        /\ pc' = "data" /\ cur' = path /\ data' = bytes /\ from' = source
        /\ result' = "none"
    BY <1>1, <1>5 DEF WriteMoved, Continue, HarmIfStale
  <2>2. Known(rel, unread)
    BY <1>1, <2>1, ReleasedProperties
  <2>3. /\ Known(fsPartitionList', unread')
        /\ rel[i].loc \in Nat /\ rel[i].loc >= maxFSTableSize
        /\ rel[i].loc + Len(bytes) <= partitionSize
    <3> HIDE DEF rel
    <3> QED BY <1>1, <2>1, <2>2, CreatedProperties
  <2>4. /\ file.loc = rel[i].loc /\ file.size = Len(bytes)
        /\ file = [loc |-> rel[i].loc, size |-> Len(bytes)]
    OBVIOUS
  <2> HIDE DEF rel, i, file
  <2>5. file \in Files /\ Fits(file)
    <3>1. rel[i].loc \in 0 .. partitionSize /\ Len(bytes) \in 0 .. partitionSize
      BY <1>1, <2>3, MrafsAssumption
    <3> QED BY <2>3, <2>4, <3>1 DEF Files, Fits
  <2>6. Placed(fsFileList')
    BY <1>1, <2>1, <2>5, PlacedFiles
  <2>7. DOMAIN fsFileList' = DOMAIN fsFileList /\ fsFileList'[path] = file
    BY <1>1, <2>1 DEF With
  <2>8. ListsStep
    BY <1>1, <2>1, <2>3, <2>4, <2>6, <2>7 DEF ListsStep
  <2> QED BY <2>8, ListsStepStructure
<1> QED BY <1>2, <1>3, <1>4, <1>5 DEF WriteFile

(* What is expected of the files after a crash or a reload are bytes.       *)
LEMMA RecoveredTexts ==
    ASSUME Structure, mounted
    PROVE  Texts([path \in DOMAIN saved.files |-> Recovered(path)])
<1>1. ASSUME NEW path \in DOMAIN saved.files PROVE Recovered(path) \in Seq(Tokens)
  <2>1. Contents(saved.files[path], disk) \in Seq(Tokens)
    <3>1. saved.files[path] \in Files /\ Fits(saved.files[path])
      BY DEF Structure, Placed, IsFileMap
    <3>2. disk \in [DataArea -> Tokens]
      BY MountedFacts
    <3> QED BY <3>1, <3>2, ContentsRead
  <2>2. FileExists(path) => expected[path] \in Seq(Tokens)
    BY MountedFacts DEF FileExists, Texts
  <2> QED BY <2>1, <2>2 DEF Recovered
<1> QED BY <1>1 DEF Texts

(* A partition that was just formatted has the structure.                   *)
LEMMA StructureInit == Init => Structure
<1> SUFFICES ASSUME Init PROVE Structure
  OBVIOUS
<1>1. /\ Neat(EmptyList) /\ EmptyList \in Seq(Parts)
      /\ Placed(<<>>) /\ IsFileMap(<<>>) /\ DOMAIN <<>> = {}
  BY NeatEmptyList, NeatParts, NoFiles DEF Placed
<1>2. /\ saved.list = EmptyList /\ saved.files = <<>> /\ saved.stale = {}
      /\ saved.unread = FALSE
  BY DEF Init
<1>3. /\ mounted = TRUE /\ fsPartitionList = EmptyList /\ fsFileList = <<>>
      /\ disk \in [DataArea -> Tokens]
      /\ pc = "idle" /\ cur = NoPath /\ data = <<>> /\ from = NoPath
      /\ result = "none" /\ expected = <<>> /\ stale = {} /\ harmed = FALSE
      /\ unread = FALSE
  BY DEF Init
<1>4. TypeOK
  <2>1. mounted \in BOOLEAN /\ {unread, saved.unread, harmed} \subseteq BOOLEAN
    BY <1>2, <1>3
  <2>2. /\ data \in Seq(Tokens) /\ {cur, from} \subseteq Paths \cup {NoPath}
        /\ \A p \in DOMAIN expected : expected[p] \in Seq(Tokens)
        /\ DOMAIN expected = DOMAIN fsFileList /\ stale \subseteq Paths
    BY <1>1, <1>3
  <2>3. fsPartitionList \in Seq(Parts) /\ IsFileMap(fsFileList)
        /\ saved.list \in Seq(Parts) /\ IsFileMap(saved.files)
    BY <1>1, <1>2, <1>3
  <2> QED BY <1>3, <2>1, <2>2, <2>3 DEF TypeOK
<1> QED BY <1>1, <1>2, <1>3, <1>4 DEF Structure, Known

(* Every step keeps the structure, whatever was harmed.                     *)
LEMMA StructureKept == Structure /\ [Next]_vars => Structure'
<1> SUFFICES ASSUME Structure, [Next]_vars PROVE Structure'
  OBVIOUS
<1>0. /\ NoPath \notin Paths /\ Sizes \subseteq Nat /\ <<>> \in Seq(Tokens)
  BY MrafsAssumption
<1>1. ASSUME NEW path \in Paths, CreateFile(path)
      PROVE  Structure'
  <2>1. /\ mounted /\ AddEmptyFile(path)
        /\ pc' = "table" /\ cur' = path /\ data' = <<>> /\ from' = NoPath
        /\ result' = "none"
    BY <1>1 DEF CreateFile, Idle, GoSave, Continue
  <2> QED BY <2>1, AddedStructure
<1>2. ASSUME NEW path \in Paths, NEW size \in Sizes, CreateFileNoSpace(path, size)
      PROVE  Structure'
  <2>1. /\ mounted /\ AddEmptyFile(path)
        /\ pc' = "idle" /\ cur' = NoPath /\ data' = <<>> /\ from' = NoPath
        /\ result' = "error"
    BY <1>2 DEF CreateFileNoSpace, Idle, Finish
  <2> QED BY <2>1, AddedStructure
<1>3. ASSUME NEW path \in Paths, NEW size \in Sizes, CreateFileSized(path, size)
      PROVE  Structure'
  <2> DEFINE i == GetIndexOfFreeFilePartition(fsPartitionList, size)
             file == [loc |-> fsPartitionList[i].loc, size |-> size]
  <2>1. /\ mounted /\ i # 0 /\ size \in Nat
        /\ fsPartitionList' = CreateFilePartition(fsPartitionList, size)
        /\ fsFileList' = With(fsFileList, path, file)
        /\ expected' = With(expected, path, Contents(file, disk))
        /\ pc' = "table" /\ cur' = path /\ data' = <<>> /\ from' = NoPath
        /\ result' = "none"
        /\ UNCHANGED <<mounted, unread, disk, saved, stale, harmed>>
    BY <1>0, <1>3 DEF CreateFileSized, Idle, GoSave, Continue
  <2>2. /\ Known(fsPartitionList', unread')
        /\ fsPartitionList[i].loc \in Nat /\ fsPartitionList[i].loc >= maxFSTableSize
        /\ fsPartitionList[i].loc + size <= partitionSize
    BY <2>1, MountedFacts, CreatedProperties
  <2>3. /\ file.loc = fsPartitionList[i].loc /\ file.size = size
        /\ file = [loc |-> fsPartitionList[i].loc, size |-> size]
    OBVIOUS
  <2> HIDE DEF i, file
  <2>4. file \in Files /\ Fits(file)
    <3>1. fsPartitionList[i].loc \in 0 .. partitionSize /\ size \in 0 .. partitionSize
      BY <2>1, <2>2, MrafsAssumption
    <3> QED BY <2>2, <2>3, <3>1 DEF Files, Fits
  <2>5. Placed(fsFileList')
    BY <2>1, <2>4, MountedFacts, PlacedFiles
  <2>6. Contents(file, disk) \in Seq(Tokens)
    BY <2>1, <2>4, MountedFacts, ContentsRead
  <2>7. Texts(expected')
    BY <2>1, <2>6, MountedFacts, TextsChanged
  <2>8. DOMAIN expected' = DOMAIN fsFileList'
    BY <2>1, MountedFacts DEF With
  <2>9. ListsStep
    BY <1>0, <2>1, <2>2, <2>5, <2>7, <2>8, MountedFacts DEF ListsStep
  <2> QED BY <2>9, ListsStepStructure
<1>4. ASSUME NEW path \in Paths, DeleteFile(path)
      PROVE  Structure'
  <2>1. /\ mounted /\ path \in DOMAIN fsFileList /\ ExtentFound(path)
        /\ fsPartitionList' = Released(path)
        /\ fsFileList' = Without(fsFileList, path)
        /\ expected' = Without(expected, path)
        /\ stale' = stale \ {path} /\ harmed' = (harmed \/ path \in stale)
        /\ pc' = "table" /\ cur' = path /\ data' = <<>> /\ from' = NoPath
        /\ result' = "none"
        /\ UNCHANGED <<mounted, unread, disk, saved>>
    BY <1>4 DEF DeleteFile, Idle, GoSave, Continue, FileExists, HarmIfStale
  <2>2. Known(fsPartitionList', unread')
    BY <2>1, MountedFacts, ReleasedProperties
  <2>3. Placed(fsFileList') /\ Texts(expected')
    BY <2>1, MountedFacts, PlacedFiles, TextsChanged
  <2>4. DOMAIN expected' = DOMAIN fsFileList'
    BY <2>1, MountedFacts DEF Without
  <2>5. harmed' \in BOOLEAN
    BY <2>1
  <2>6. ListsStep
    BY <1>0, <2>1, <2>2, <2>3, <2>4, <2>5, MountedFacts DEF ListsStep
  <2> QED BY <2>6, ListsStepStructure
<1>5. ASSUME NEW path \in Paths, DeleteFileLost(path)
      PROVE  Structure'
  <2>1. /\ mounted
        /\ UNCHANGED <<mounted, unread, fsPartitionList, fsFileList, disk, saved,
                       expected, stale, harmed>>
        /\ pc' = "idle" /\ cur' = NoPath /\ data' = <<>> /\ from' = NoPath
        /\ result' = "error"
    BY <1>5 DEF DeleteFileLost, Idle, Finish, memory, history
  <2>2. ListsStep
    BY <1>0, <2>1, MountedFacts DEF ListsStep
  <2> QED BY <2>2, ListsStepStructure
<1>6. ASSUME NEW old \in Paths, NEW new \in Paths, RenameFile(old, new)
      PROVE  Structure'
  <2>1. /\ mounted /\ old \in DOMAIN fsFileList /\ new \notin DOMAIN fsFileList
        /\ fsFileList' = With(Without(fsFileList, old), new, fsFileList[old])
        /\ expected' = With(Without(expected, old), new, expected[old])
        /\ stale' = IF old \in stale THEN (stale \ {old}) \cup {new} ELSE stale
        /\ pc' = "table" /\ cur' = new /\ data' = <<>> /\ from' = NoPath
        /\ result' = "none"
        /\ UNCHANGED <<mounted, unread, fsPartitionList, disk, saved, harmed>>
    BY <1>6 DEF RenameFile, Idle, GoSave, Continue, FileExists
  <2>2. Placed(fsFileList')
    <3>1. Placed(Without(fsFileList, old))
      BY MountedFacts, PlacedFiles, <2>1
    <3>2. fsFileList[old] \in Files /\ Fits(fsFileList[old])
      BY MountedFacts, <2>1
    <3> QED BY <2>1, <3>1, <3>2, PlacedFiles
  <2>3. Texts(expected')
    <3>1. Texts(Without(expected, old))
      BY MountedFacts, TextsChanged, <2>1
    <3>2. expected[old] \in Seq(Tokens)
      BY MountedFacts, <2>1 DEF Texts
    <3> QED BY <2>1, <3>1, <3>2, TextsChanged
  <2>4. DOMAIN expected' = DOMAIN fsFileList'
    BY <2>1, MountedFacts DEF With, Without
  <2>5. stale' \subseteq Paths
    BY <2>1, MountedFacts
  <2>6. ListsStep
    BY <1>0, <2>1, <2>2, <2>3, <2>4, <2>5, MountedFacts DEF ListsStep
  <2> QED BY <2>6, ListsStepStructure
<1>7. ASSUME NEW old \in Paths, NEW new \in Paths, CopyFile(old, new)
      PROVE  Structure'
  <2>1. /\ mounted /\ AddEmptyFile(new) /\ old \in DOMAIN fsFileList
        /\ pc' = "create" /\ cur' = new /\ data' = <<>> /\ from' = old
        /\ result' = "none"
    BY <1>7 DEF CopyFile, Idle, Continue, FileExists
  <2> QED BY <2>1, AddedStructure
<1>8. ASSUME NEW path \in Paths, NEW size \in Sizes, NEW token \in Tokens,
             CallWriteFile(path, Fill(token, size))
      PROVE  Structure'
  <2>1. Fill(token, size) \in Seq(Tokens)
    BY <1>0 DEF Fill
  <2>2. mounted /\ path \in DOMAIN fsFileList /\ WriteFile(path, Fill(token, size), NoPath)
    BY <1>8 DEF CallWriteFile, Idle, FileExists
  <2> QED BY <2>1, <2>2, WriteFileStructure
<1>9. ASSUME NEW path \in Paths, NEW size \in Sizes, NEW token \in Tokens,
             NEW address \in {0, 1}, WriteFileBuffer(path, address, Fill(token, size))
      PROVE  Structure'
  <2> DEFINE bytes == Fill(token, size)
             file == fsFileList[path]
  <2>1. bytes \in Seq(Tokens)
    BY <1>0 DEF Fill
  <2> HIDE DEF bytes
  <2>2. /\ mounted /\ path \in DOMAIN fsFileList
        /\ disk' = Overwrite(bytes, file.loc + address)
        /\ expected' = With(expected, path, Contents(file, disk'))
        /\ harmed' = (harmed \/ path \in stale)
        /\ pc' = "idle" /\ cur' = NoPath /\ data' = <<>> /\ from' = NoPath
        /\ result' = "none"
        /\ UNCHANGED <<mounted, unread, fsPartitionList, fsFileList, saved, stale>>
    BY <1>9 DEF WriteFileBuffer, Idle, FileExists, HarmIfStale, Finish, memory, bytes
  <2>3. disk' \in [DataArea -> Tokens]
    <3>1. disk \in [DataArea -> Tokens] /\ file.loc + address \in Nat
      BY <2>2, MountedFacts
    <3> QED BY <2>1, <2>2, <3>1, OverwriteType
  <2>4. Contents(file, disk') \in Seq(Tokens)
    BY <2>2, <2>3, MountedFacts, ContentsRead
  <2>5. Texts(expected')
    BY <2>2, <2>4, MountedFacts, TextsChanged
  <2>6. DOMAIN expected' = DOMAIN fsFileList'
    BY <2>2, MountedFacts DEF With
  <2>7. harmed' \in BOOLEAN
    BY <2>2
  <2> QED BY <1>0, <2>2, <2>3, <2>5, <2>6, <2>7 DEF Structure, TypeOK, Texts
<1>10. ASSUME NEW ok \in DiskOutcomes, WriteData(ok)
       PROVE  Structure'
  <2> DEFINE file == fsFileList[cur]
  <2>1. mounted /\ cur \in DOMAIN fsFileList
    BY <1>10 DEF WriteData, Structure
  <2>2. /\ UNCHANGED <<mounted, unread, fsPartitionList, fsFileList, saved, stale, harmed>>
        /\ \/ /\ disk' = Overwrite(data, file.loc)
              /\ expected' = With(expected, cur, data)
              /\ pc' = "table" /\ cur' = cur /\ data' = <<>> /\ from' = from
              /\ result' = "none"
           \/ /\ disk' = disk
              /\ expected' = With(expected, cur, Contents(file, disk))
              /\ pc' = "idle" /\ cur' = NoPath /\ data' = <<>> /\ from' = NoPath
              /\ result' \in {"error", "copied"}
    BY <1>10 DEF WriteData, Continue, Finish, memory
  <2>3. data \in Seq(Tokens) /\ file.loc \in Nat /\ Contents(file, disk) \in Seq(Tokens)
    BY <2>1, MountedFacts DEF Structure, TypeOK
  <2>4. disk' \in [DataArea -> Tokens]
    BY <2>1, <2>2, <2>3, MountedFacts, OverwriteType
  <2>5. Texts(expected')
    BY <2>1, <2>2, <2>3, MountedFacts, TextsChanged
  <2>6. DOMAIN expected' = DOMAIN fsFileList'
    BY <2>1, <2>2, MountedFacts DEF With
  <2> QED BY <1>0, <2>1, <2>2, <2>4, <2>5, <2>6 DEF Structure, TypeOK, Texts
<1>11. ASSUME NEW ok \in DiskOutcomes, CopyData(ok)
       PROVE  Structure'
  <2> DEFINE file == fsFileList[from]
  <2>1. mounted /\ {cur, from} \subseteq DOMAIN fsFileList
    BY <1>11 DEF CopyData, Structure
  <2>2. CASE WriteFile(cur, Contents(file, disk), from)
    <3>1. Contents(file, disk) \in Seq(Tokens) /\ from \in Paths \cup {NoPath}
      BY <2>1, MountedFacts
    <3> QED BY <2>1, <2>2, <3>1, WriteFileStructure
  <2>3. CASE /\ UNCHANGED <<mounted, unread, fsPartitionList, fsFileList, disk, saved,
                            expected, stale, harmed>>
             /\ pc' = "idle" /\ cur' = NoPath /\ data' = <<>> /\ from' = NoPath
             /\ result' = "copied"
    <3>1. ListsStep
      BY <1>0, <2>1, <2>3, MountedFacts DEF ListsStep
    <3> QED BY <3>1, ListsStepStructure
  <2> QED BY <1>11, <2>2, <2>3 DEF CopyData, Finish, memory, history
<1>12. ASSUME NEW ok \in DiskOutcomes, SaveFSTable(ok)
       PROVE  Structure'
  <2>1. mounted
    BY <1>12 DEF SaveFSTable, Structure
  <2>2. \/ saved' = saved
        \/ /\ saved'.list = fsPartitionList /\ saved'.files = fsFileList
           /\ saved'.stale = stale /\ saved'.unread = unread
    BY <1>12 DEF SaveFSTable
  <2>3. /\ UNCHANGED <<mounted, unread, fsPartitionList, fsFileList, disk, expected, stale, harmed>>
        /\ \/ /\ pc = "create" /\ pc' = "copy" /\ cur' = cur /\ data' = <<>>
              /\ from' = from /\ result' = "none"
           \/ /\ pc' = "idle" /\ cur' = NoPath /\ data' = <<>> /\ from' = NoPath
              /\ result' \in {"ok", "error", "copied"}
    BY <1>12 DEF SaveFSTable, Finish, Continue, memory, history
  <2>4. /\ Known(saved'.list, saved'.unread) /\ Placed(saved'.files)
        /\ saved'.stale \subseteq Paths /\ saved'.unread \in BOOLEAN
    BY <2>1, <2>2, MountedFacts DEF Structure, TypeOK
  <2>5. saved'.list \in Seq(Parts) /\ IsFileMap(saved'.files)
    BY <2>4, KnownParts DEF Placed
  <2> QED BY <1>0, <2>1, <2>3, <2>4, <2>5 DEF Structure, TypeOK
<1>13. CASE Crash
  <2>1. /\ mounted /\ mounted' = FALSE
        /\ fsPartitionList' = <<>> /\ fsFileList' = <<>>
        /\ expected' = [path \in DOMAIN saved.files |-> Recovered(path)]
        /\ stale' = saved.stale /\ unread' = FALSE
        /\ pc' = "idle" /\ cur' = NoPath /\ data' = <<>> /\ from' = NoPath
        /\ result' = "none"
        /\ UNCHANGED <<disk, saved, harmed>>
    BY <1>13 DEF Crash, Finish
  <2>2. Texts(expected') /\ DOMAIN expected' = DOMAIN saved.files
    BY <2>1, RecoveredTexts
  <2>3. fsPartitionList' \in Seq(Parts) /\ Placed(fsFileList') /\ IsFileMap(fsFileList')
    BY <2>1, NoFiles DEF Placed
  <2> QED BY <1>0, <2>1, <2>2, <2>3 DEF Structure, TypeOK, Texts
<1>14. ASSUME LoadFSTable(TRUE)
       PROVE  Structure'
  <2>1. /\ pc = "idle" /\ mounted' = TRUE
        /\ fsPartitionList' = saved.list /\ fsFileList' = saved.files
        /\ expected' = IF mounted
                       THEN [path \in DOMAIN saved.files |-> Recovered(path)]
                       ELSE expected
        /\ stale' = saved.stale /\ unread' = saved.unread
        /\ pc' = "idle" /\ cur' = NoPath /\ data' = <<>> /\ from' = NoPath
        /\ result' = "none"
        /\ UNCHANGED <<disk, saved, harmed>>
    BY <1>14 DEF LoadFSTable, TableLoaded, Finish
  <2>2. Texts(expected') /\ DOMAIN expected' = DOMAIN saved.files
    <3>1. CASE mounted
      BY <2>1, <3>1, RecoveredTexts
    <3>2. CASE ~mounted
      BY <2>1, <3>2 DEF Structure, TypeOK, Texts
    <3> QED BY <3>1, <3>2
  <2> QED BY <1>0, <2>1, <2>2 DEF Structure, TypeOK, Texts
<1>15. CASE InitAndSaveFSTable
  <2>1. /\ mounted /\ fsPartitionList' = EmptyList /\ fsFileList' = <<>>
        /\ expected' = <<>> /\ stale' = {} /\ unread' = FALSE
        /\ pc' = "table" /\ cur' = NoPath /\ data' = <<>> /\ from' = NoPath
        /\ result' = "none"
        /\ UNCHANGED <<mounted, disk, saved, harmed>>
    BY <1>15 DEF InitAndSaveFSTable, Idle, GoSave, Continue
  <2>2. Known(fsPartitionList', unread') /\ Placed(fsFileList')
    BY <2>1, NeatEmptyList, NoFiles DEF Known
  <2>3. Texts(expected') /\ DOMAIN expected' = DOMAIN fsFileList'
    BY <2>1, NoFiles DEF Texts
  <2>4. ListsStep
    BY <1>0, <2>1, <2>2, <2>3, MountedFacts DEF ListsStep
  <2> QED BY <2>4, ListsStepStructure
<1>16. CASE UNCHANGED vars
  BY <1>16 DEF vars, memory, call, history, Structure, TypeOK
<1>17. ASSUME LoadFSTable(FALSE)
       PROVE  Structure'
  <2>1. /\ pc = "idle" /\ mounted' = TRUE
        /\ fsPartitionList' = <<>> /\ fsFileList' = <<>> /\ expected' = <<>>
        /\ stale' = {} /\ unread' = TRUE
        /\ pc' = "idle" /\ cur' = NoPath /\ data' = <<>> /\ from' = NoPath
        /\ result' = "error"
        /\ UNCHANGED <<disk, saved, harmed>>
    BY <1>17 DEF LoadFSTable, TableUnread, Finish
  <2>2. /\ Known(fsPartitionList', unread') /\ fsPartitionList' \in Seq(Parts)
        /\ Placed(fsFileList') /\ IsFileMap(fsFileList')
        /\ Texts(expected') /\ DOMAIN expected' = DOMAIN fsFileList'
    BY <2>1, NoFiles DEF Known, Placed, Texts
  <2> QED BY <1>0, <2>1, <2>2 DEF Structure, TypeOK, Texts
<1>18. CASE CallSaveFSTable
  <2>1. /\ mounted
        /\ UNCHANGED <<mounted, unread, fsPartitionList, fsFileList, disk, saved,
                       expected, stale, harmed>>
        /\ pc' = "table" /\ cur' = NoPath /\ data' = <<>> /\ from' = NoPath
        /\ result' = "none"
    BY <1>18 DEF CallSaveFSTable, Idle, GoSave, Continue, memory, history
  <2>2. ListsStep
    BY <1>0, <2>1, MountedFacts DEF ListsStep
  <2> QED BY <2>2, ListsStepStructure
<1>19. ASSUME NEW ok \in DiskOutcomes, LoadFSTable(ok)
       PROVE  Structure'
  BY <1>14, <1>17, <1>19, MrafsAssumption
<1> QED BY <1>1, <1>2, <1>3, <1>4, <1>5, <1>6, <1>7, <1>8, <1>9, <1>10, <1>11,
           <1>12, <1>13, <1>15, <1>16, <1>18, <1>19 DEF Next, Step

-----------------------------------------------------------------------------
(* Ownership is kept by every action.                                       *)

(* What Ownership asks of a mounted volume that was not harmed.             *)
Owned ==
    /\ Kept(saved.list, saved.files, saved.stale)
    /\ Kept(fsPartitionList, fsFileList, stale)
    /\ \A p \in DOMAIN fsFileList \ (stale \cup Writing) :
          fsFileList[p].size # 0 => Contents(fsFileList[p], disk) = expected[p]
    /\ Writing \cap stale = {}

LEMMA OwnedOwnership ==
    mounted => (Ownership <=> (~harmed => Owned))
BY DEF Ownership, Owned, Stored

(* An empty entry is added.                                                 *)
LEMMA AddedOwned ==
    ASSUME Structure, mounted, Owned, pc # "data", pc' # "data",
           NEW path \in Paths, AddEmptyFile(path)
    PROVE  Owned'
<1>1. /\ path \notin DOMAIN fsFileList
      /\ fsFileList' = With(fsFileList, path, NoFile)
      /\ expected' = With(expected, path, <<>>)
      /\ UNCHANGED <<mounted, unread, fsPartitionList, disk, saved, stale, harmed>>
  BY DEF AddEmptyFile, FileExists
<1>2. Kept(fsPartitionList', fsFileList', stale')
  BY <1>1, EmptyFileKept DEF Owned
<1>3. ASSUME NEW p \in DOMAIN fsFileList' \ stale, fsFileList'[p].size # 0
      PROVE  Contents(fsFileList'[p], disk) = expected'[p]
  <2>1. p \in DOMAIN fsFileList /\ p # path
    BY <1>1, <1>3 DEF With, NoFile
  <2>2. fsFileList'[p] = fsFileList[p] /\ expected'[p] = expected[p]
    BY <1>1, <2>1, MountedFacts DEF With
  <2> QED BY <1>3, <2>1, <2>2 DEF Owned, Writing
<1>4. Writing' = {}
  BY DEF Writing
<1> QED BY <1>1, <1>2, <1>3, <1>4 DEF Owned

(* WriteFile, whoever calls it.                                             *)
LEMMA WriteFileOwned ==
    ASSUME Structure, mounted, Owned, pc # "data",
           NEW path \in DOMAIN fsFileList, NEW bytes \in Seq(Tokens), NEW source,
           WriteFile(path, bytes, source), ~harmed'
    PROVE  Owned'
<1>0. Writing = {}
  BY DEF Writing
<1>1. /\ Known(fsPartitionList, unread) /\ Placed(fsFileList)
      /\ Kept(saved.list, saved.files, saved.stale)
      /\ Kept(fsPartitionList, fsFileList, stale)
      /\ \A p \in DOMAIN fsFileList \ stale :
            fsFileList[p].size # 0 => Contents(fsFileList[p], disk) = expected[p]
      /\ DOMAIN expected = DOMAIN fsFileList
  BY <1>0, MountedFacts DEF Owned
<1>2. CASE WriteInPlace(path, bytes, source)
  <2>1. UNCHANGED <<mounted, unread, fsPartitionList, fsFileList, disk, saved, expected, stale>>
    BY <1>2 DEF WriteInPlace, memory
  <2>2. pc' = "idle" \/ (pc' = "data" /\ cur' = path /\ path \notin stale)
    BY <1>2 DEF WriteInPlace, Finish, Continue, HarmIfStale
  <2>3. Writing' \cap stale' = {}
    BY <2>1, <2>2 DEF Writing
  <2> QED BY <1>1, <2>1, <2>3 DEF Owned
<1>3. CASE WriteLost(path, bytes)
  <2>1. /\ UNCHANGED <<mounted, unread, fsPartitionList, fsFileList, disk, saved,
                       expected, stale, harmed>>
        /\ pc' = "idle"
    BY <1>3 DEF WriteLost, Finish, memory, history
  <2>2. Writing' = {}
    BY <2>1 DEF Writing
  <2> QED BY <1>1, <2>1, <2>2 DEF Owned
<1>4. CASE WriteNoSpace(path, bytes, source)
  <2>1. /\ UNCHANGED <<mounted, unread, fsFileList, disk, saved, expected>>
        /\ ExtentFound(path) /\ fsPartitionList' = Released(path)
        /\ stale' = IF Released(path) = fsPartitionList THEN stale
                    ELSE stale \cup {path}
        /\ path \notin stale /\ pc' = "idle"
    BY <1>4 DEF WriteNoSpace, Finish, HarmIfStale
  <2>2. Writing' = {}
    BY <2>1 DEF Writing
  <2>3. Kept(fsPartitionList', fsFileList', stale')
    <3>1. CASE Released(path) = fsPartitionList
      BY <1>1, <2>1, <3>1
    <3>2. CASE Released(path) # fsPartitionList
      <4>1. Kept(Released(path), Without(fsFileList, path), stale)
        BY <1>1, <2>1, ReleasedKept
      <4>2. Kept(Released(path), fsFileList, stale \cup {path})
        BY <4>1, ForgottenKept
      <4> QED BY <2>1, <3>2, <4>2
    <3> QED BY <3>1, <3>2
  <2>4. stale \subseteq stale'
    BY <2>1
  <2> QED BY <1>1, <2>1, <2>2, <2>3, <2>4 DEF Owned
<1>5. CASE WriteMoved(path, bytes, source)
  <2> DEFINE rel == Released(path)
             i == GetIndexOfFreeFilePartition(rel, Len(bytes))
             file == [loc |-> rel[i].loc, size |-> Len(bytes)]
  <2>1. /\ UNCHANGED <<mounted, unread, disk, saved, expected>>
        /\ ExtentFound(path) /\ i # 0
        /\ fsPartitionList' = CreateFilePartition(rel, Len(bytes))
        /\ fsFileList' = With(fsFileList, path, file)
        /\ path \notin stale /\ stale' = stale
        /\ pc' = "data" /\ cur' = path
    BY <1>5 DEF WriteMoved, Continue, HarmIfStale
  <2>2. Known(rel, unread) /\ Kept(rel, Without(fsFileList, path), stale)
    BY <1>1, <2>1, ReleasedProperties, ReleasedKept
  <2>3. Kept(fsPartitionList', fsFileList', stale')
    <3> HIDE DEF rel
    <3>1. Len(bytes) \in Nat
      OBVIOUS
    <3> QED BY <2>1, <2>2, <3>1, CreatedKept
  <2>4. Writing' = {path}
    BY <2>1 DEF Writing
  <2> HIDE DEF rel, i, file
  <2>5. ASSUME NEW p \in DOMAIN fsFileList' \ (stale' \cup Writing'),
               fsFileList'[p].size # 0
        PROVE  Contents(fsFileList'[p], disk') = expected'[p]
    <3>1. p \in DOMAIN fsFileList \ stale /\ p # path
      BY <2>1, <2>4 DEF With
    <3>2. fsFileList'[p] = fsFileList[p]
      BY <2>1, <3>1 DEF With
    <3> QED BY <1>1, <2>1, <2>5, <3>1, <3>2
  <2>6. Writing' \cap stale' = {}
    BY <2>1, <2>4
  <2> QED BY <1>1, <2>1, <2>3, <2>5, <2>6 DEF Owned
<1> QED BY <1>2, <1>3, <1>4, <1>5 DEF WriteFile

(* What is known to be on the disk after a crash or a reload.               *)
LEMMA RecoveredStored ==
    ASSUME Structure, mounted, Owned,
           NEW p \in DOMAIN saved.files \ saved.stale, saved.files[p].size # 0
    PROVE  Contents(saved.files[p], disk) = Recovered(p)
<1>1. CASE /\ FileExists(p) /\ fsFileList[p] = saved.files[p]
           /\ p \notin stale /\ ~(pc = "data" /\ p = cur)
  <2>1. p \in DOMAIN fsFileList \ (stale \cup Writing)
    BY <1>1 DEF FileExists, Writing
  <2>2. Contents(fsFileList[p], disk) = expected[p]
    BY <1>1, <2>1 DEF Owned
  <2>3. Recovered(p) = expected[p]
    BY <1>1 DEF Recovered
  <2> QED BY <1>1, <2>2, <2>3
<1>2. CASE ~(/\ FileExists(p) /\ fsFileList[p] = saved.files[p]
             /\ p \notin stale /\ ~(pc = "data" /\ p = cur))
  BY <1>2 DEF Recovered
<1> QED BY <1>1, <1>2

(* Every step keeps what belongs to whom, unless it uses an entry that a    *)
(* failed write left behind.                                                *)
LEMMA OwnershipKept == Structure /\ Ownership /\ [Next]_vars => Ownership'
<1> SUFFICES ASSUME Structure, Ownership, [Next]_vars, ~harmed' PROVE Ownership'
  BY DEF Ownership
<1>0. /\ NoPath \notin Paths /\ Sizes \subseteq Nat /\ <<>> \in Seq(Tokens)
      /\ mounted' => (Owned' => Ownership')
      /\ ~harmed /\ mounted => Owned
  <2>1. mounted' => (Ownership' <=> (~harmed' => Owned'))
    BY OwnedOwnership, PTL
  <2> QED BY <2>1, MrafsAssumption, OwnedOwnership
<1>1. ASSUME NEW path \in Paths, CreateFile(path)
      PROVE  Ownership'
  <2>1. /\ mounted /\ mounted' /\ AddEmptyFile(path) /\ ~harmed
        /\ pc = "idle" /\ pc' = "table"
    BY <1>1 DEF CreateFile, Idle, GoSave, Continue, AddEmptyFile
  <2> QED BY <1>0, <2>1, AddedOwned
<1>2. ASSUME NEW path \in Paths, NEW size \in Sizes, CreateFileNoSpace(path, size)
      PROVE  Ownership'
  <2>1. /\ mounted /\ mounted' /\ AddEmptyFile(path) /\ ~harmed
        /\ pc = "idle" /\ pc' = "idle"
    BY <1>2 DEF CreateFileNoSpace, Idle, Finish, AddEmptyFile
  <2> QED BY <1>0, <2>1, AddedOwned
<1>3. ASSUME NEW path \in Paths, NEW size \in Sizes, CreateFileSized(path, size)
      PROVE  Ownership'
  <2> DEFINE i == GetIndexOfFreeFilePartition(fsPartitionList, size)
             file == [loc |-> fsPartitionList[i].loc, size |-> size]
  <2>1. /\ mounted /\ mounted' /\ ~harmed /\ pc = "idle" /\ pc' = "table"
        /\ path \notin DOMAIN fsFileList /\ i # 0 /\ size \in Nat
        /\ fsPartitionList' = CreateFilePartition(fsPartitionList, size)
        /\ fsFileList' = With(fsFileList, path, file)
        /\ expected' = With(expected, path, Contents(file, disk))
        /\ UNCHANGED <<disk, saved, stale>>
    BY <1>0, <1>3 DEF CreateFileSized, Idle, GoSave, Continue, FileExists
  <2>2. Owned /\ Known(fsPartitionList, unread) /\ DOMAIN expected = DOMAIN fsFileList
    BY <1>0, <2>1, MountedFacts
  <2>3. Kept(fsPartitionList', fsFileList', stale')
    <3>1. Kept(fsPartitionList, Without(fsFileList, path), stale)
      BY <2>1, <2>2, EmptyFileKept DEF Owned
    <3> QED BY <2>1, <2>2, <3>1, CreatedKept
  <2>4. Writing = {} /\ Writing' = {}
    BY <2>1 DEF Writing
  <2> HIDE DEF i, file
  <2>5. ASSUME NEW p \in DOMAIN fsFileList' \ stale, fsFileList'[p].size # 0
        PROVE  Contents(fsFileList'[p], disk) = expected'[p]
    <3>1. CASE p = path
      <4>1. fsFileList'[p] = file /\ expected'[p] = Contents(file, disk)
        BY <2>1, <3>1 DEF With
      <4> QED BY <4>1
    <3>2. CASE p # path
      <4>1. p \in DOMAIN fsFileList \ stale
        BY <2>1, <2>5, <3>2 DEF With
      <4>2. fsFileList'[p] = fsFileList[p] /\ expected'[p] = expected[p]
        BY <2>1, <2>2, <3>2, <4>1 DEF With
      <4> QED BY <2>2, <2>4, <2>5, <4>1, <4>2 DEF Owned
    <3> QED BY <3>1, <3>2
  <2>6. Owned'
    BY <2>1, <2>2, <2>3, <2>4, <2>5 DEF Owned
  <2> QED BY <1>0, <2>1, <2>6
<1>4. ASSUME NEW path \in Paths, DeleteFile(path)
      PROVE  Ownership'
  <2>1. /\ mounted /\ mounted' /\ ~harmed /\ pc = "idle" /\ pc' = "table"
        /\ path \in DOMAIN fsFileList /\ ExtentFound(path) /\ path \notin stale
        /\ fsPartitionList' = Released(path)
        /\ fsFileList' = Without(fsFileList, path)
        /\ expected' = Without(expected, path) /\ stale' = stale
        /\ UNCHANGED <<disk, saved>>
    BY <1>4 DEF DeleteFile, Idle, GoSave, Continue, FileExists, HarmIfStale
  <2>2. /\ Owned /\ Known(fsPartitionList, unread) /\ Placed(fsFileList)
        /\ DOMAIN expected = DOMAIN fsFileList
    BY <1>0, <2>1, MountedFacts
  <2>3. Kept(fsPartitionList', fsFileList', stale')
    BY <2>1, <2>2, ReleasedKept DEF Owned
  <2>4. Writing = {} /\ Writing' = {}
    BY <2>1 DEF Writing
  <2>5. ASSUME NEW p \in DOMAIN fsFileList' \ stale, fsFileList'[p].size # 0
        PROVE  Contents(fsFileList'[p], disk) = expected'[p]
    <3>1. p \in DOMAIN fsFileList \ stale /\ p # path
      BY <2>1, <2>5 DEF Without
    <3>2. fsFileList'[p] = fsFileList[p] /\ expected'[p] = expected[p]
      BY <2>1, <2>2, <3>1 DEF Without
    <3> QED BY <2>2, <2>4, <2>5, <3>1, <3>2 DEF Owned
  <2>6. Owned'
    BY <2>1, <2>2, <2>3, <2>4, <2>5 DEF Owned
  <2> QED BY <1>0, <2>1, <2>6
<1>5. ASSUME NEW path \in Paths, DeleteFileLost(path)
      PROVE  Ownership'
  <2>1. /\ mounted /\ mounted' /\ ~harmed /\ pc = "idle" /\ pc' = "idle"
        /\ UNCHANGED <<fsPartitionList, fsFileList, disk, saved, expected, stale>>
    BY <1>5 DEF DeleteFileLost, Idle, Finish, memory, history
  <2>2. Owned /\ Writing = {} /\ Writing' = {}
    BY <1>0, <2>1 DEF Writing
  <2>3. Owned'
    BY <2>1, <2>2 DEF Owned
  <2> QED BY <1>0, <2>1, <2>3
<1>6. ASSUME NEW old \in Paths, NEW new \in Paths, RenameFile(old, new)
      PROVE  Ownership'
  <2>1. /\ mounted /\ mounted' /\ ~harmed /\ pc = "idle" /\ pc' = "table"
        /\ old \in DOMAIN fsFileList /\ new \notin DOMAIN fsFileList
        /\ fsFileList' = With(Without(fsFileList, old), new, fsFileList[old])
        /\ expected' = With(Without(expected, old), new, expected[old])
        /\ stale' = IF old \in stale THEN (stale \ {old}) \cup {new} ELSE stale
        /\ UNCHANGED <<fsPartitionList, disk, saved>>
    BY <1>6 DEF RenameFile, Idle, GoSave, Continue, FileExists
  <2>2. Owned /\ DOMAIN expected = DOMAIN fsFileList
    BY <1>0, <2>1, MountedFacts
  <2>3. Kept(fsPartitionList', fsFileList', stale')
    BY <2>1, <2>2, RenamedKept DEF Owned
  <2>4. Writing = {} /\ Writing' = {}
    BY <2>1 DEF Writing
  <2>5. ASSUME NEW p \in DOMAIN fsFileList' \ stale', fsFileList'[p].size # 0
        PROVE  Contents(fsFileList'[p], disk) = expected'[p]
    <3>1. CASE p = new
      <4>1. old \notin stale
        BY <2>1, <2>5, <3>1
      <4>2. fsFileList'[p] = fsFileList[old] /\ expected'[p] = expected[old]
        BY <2>1, <3>1 DEF With
      <4> QED BY <2>1, <2>2, <2>4, <2>5, <4>1, <4>2 DEF Owned
    <3>2. CASE p # new
      <4>1. p \in DOMAIN fsFileList \ stale /\ p # old
        BY <2>1, <2>5, <3>2 DEF With, Without
      <4>2. fsFileList'[p] = fsFileList[p] /\ expected'[p] = expected[p]
        BY <2>1, <2>2, <3>2, <4>1 DEF With, Without
      <4> QED BY <2>2, <2>4, <2>5, <4>1, <4>2 DEF Owned
    <3> QED BY <3>1, <3>2
  <2>6. Owned'
    BY <2>1, <2>2, <2>3, <2>4, <2>5 DEF Owned
  <2> QED BY <1>0, <2>1, <2>6
<1>7. ASSUME NEW old \in Paths, NEW new \in Paths, CopyFile(old, new)
      PROVE  Ownership'
  <2>1. /\ mounted /\ mounted' /\ AddEmptyFile(new) /\ ~harmed
        /\ pc = "idle" /\ pc' = "create"
    BY <1>7 DEF CopyFile, Idle, Continue, AddEmptyFile
  <2> QED BY <1>0, <2>1, AddedOwned
<1>8. ASSUME NEW path \in DOMAIN fsFileList, NEW bytes \in Seq(Tokens), NEW source,
             mounted, pc # "data", WriteFile(path, bytes, source)
      PROVE  Ownership'
  <2>1. ~harmed /\ mounted'
    <3>1. CASE WriteInPlace(path, bytes, source)
      BY <1>8, <3>1 DEF WriteInPlace, HarmIfStale
    <3>2. CASE WriteLost(path, bytes)
      BY <1>8, <3>2 DEF WriteLost, history
    <3>3. CASE WriteNoSpace(path, bytes, source)
      BY <1>8, <3>3 DEF WriteNoSpace, HarmIfStale
    <3>4. CASE WriteMoved(path, bytes, source)
      BY <1>8, <3>4 DEF WriteMoved, HarmIfStale
    <3> QED BY <1>8, <3>1, <3>2, <3>3, <3>4 DEF WriteFile
  <2> QED BY <1>0, <1>8, <2>1, WriteFileOwned
<1>9. ASSUME NEW path \in Paths, NEW size \in Sizes, NEW token \in Tokens,
             CallWriteFile(path, Fill(token, size))
      PROVE  Ownership'
  <2>1. Fill(token, size) \in Seq(Tokens)
    BY <1>0 DEF Fill
  <2>2. /\ mounted /\ pc = "idle" /\ path \in DOMAIN fsFileList
        /\ WriteFile(path, Fill(token, size), NoPath)
    BY <1>9 DEF CallWriteFile, Idle, FileExists
  <2> QED BY <1>8, <2>1, <2>2
<1>10. ASSUME NEW path \in Paths, NEW size \in Sizes, NEW token \in Tokens,
              NEW address \in {0, 1}, WriteFileBuffer(path, address, Fill(token, size))
       PROVE  Ownership'
  <2> DEFINE bytes == Fill(token, size)
             file == fsFileList[path]
             start == file.loc + address
  <2>1. bytes \in Seq(Tokens) /\ Len(bytes) \in Nat
    BY <1>0 DEF Fill
  <2> HIDE DEF bytes
  <2>2. /\ mounted /\ mounted' /\ ~harmed /\ pc = "idle" /\ pc' = "idle"
        /\ path \in DOMAIN fsFileList /\ path \notin stale
        /\ address + Len(bytes) <= file.size
        /\ disk' = Overwrite(bytes, start)
        /\ expected' = With(expected, path, Contents(file, disk'))
        /\ UNCHANGED <<fsPartitionList, fsFileList, saved, stale>>
    BY <1>10 DEF WriteFileBuffer, Idle, FileExists, HarmIfStale, Finish, memory, bytes
  <2>3. /\ Owned /\ Known(fsPartitionList, unread) /\ Placed(fsFileList)
        /\ disk \in [DataArea -> Tokens] /\ DOMAIN expected = DOMAIN fsFileList
        /\ file.loc \in Nat /\ file.size \in Nat
    BY <1>0, <2>2, MountedFacts
  <2>4. Writing = {} /\ Writing' = {}
    BY <2>2 DEF Writing
  <2>5. /\ start \in Nat /\ start >= file.loc
        /\ start + Len(bytes) <= file.loc + file.size
    BY <2>1, <2>2, <2>3
  <2> HIDE DEF start
  <2>6. ASSUME NEW p \in DOMAIN fsFileList \ stale, fsFileList[p].size # 0
        PROVE  Contents(fsFileList[p], disk') = expected'[p]
    <3>1. CASE p = path
      BY <2>2, <3>1 DEF With
    <3>2. CASE p # path
      <4>1. Contents(fsFileList[p], disk') = Contents(fsFileList[p], disk)
        BY <2>1, <2>2, <2>3, <2>5, <2>6, <3>2, OthersUnwritten DEF Owned
      <4>2. expected'[p] = expected[p]
        BY <2>2, <2>3, <3>2 DEF With
      <4> QED BY <2>3, <2>4, <2>6, <4>1, <4>2 DEF Owned
    <3> QED BY <3>1, <3>2
  <2>7. Owned'
    BY <2>2, <2>3, <2>4, <2>6 DEF Owned
  <2> QED BY <1>0, <2>2, <2>7
<1>11. ASSUME NEW ok \in DiskOutcomes, WriteData(ok)
       PROVE  Ownership'
  <2> DEFINE file == fsFileList[cur]
  <2>1. /\ mounted /\ mounted' /\ ~harmed /\ pc = "data" /\ pc' # "data"
        /\ cur \in DOMAIN fsFileList /\ data \in Seq(Tokens) /\ Len(data) = file.size
        /\ UNCHANGED <<fsPartitionList, fsFileList, saved, stale>>
        /\ \/ disk' = Overwrite(data, file.loc) /\ expected' = With(expected, cur, data)
           \/ disk' = disk /\ expected' = With(expected, cur, Contents(file, disk))
    BY <1>11 DEF WriteData, Structure, TypeOK, Continue, Finish, memory
  <2>2. /\ Owned /\ Known(fsPartitionList, unread) /\ Placed(fsFileList)
        /\ disk \in [DataArea -> Tokens] /\ DOMAIN expected = DOMAIN fsFileList
        /\ file.loc \in Nat /\ file.size \in Nat /\ file \in Files /\ Fits(file)
    BY <1>0, <2>1, MountedFacts
  <2>3. Writing = {cur} /\ Writing' = {} /\ cur \notin stale
    BY <2>1, <2>2 DEF Writing, Owned
  <2>4. ASSUME NEW p \in DOMAIN fsFileList \ stale, fsFileList[p].size # 0
        PROVE  Contents(fsFileList[p], disk') = expected'[p]
    <3>1. CASE p = cur
      <4>1. CASE disk' = Overwrite(data, file.loc) /\ expected' = With(expected, cur, data)
        <5>1. Contents(file, disk') = data
          BY <2>1, <2>2, <4>1, OwnBytes
        <5> QED BY <3>1, <4>1, <5>1 DEF With
      <4>2. CASE disk' = disk /\ expected' = With(expected, cur, Contents(file, disk))
        BY <3>1, <4>2 DEF With
      <4> QED BY <2>1, <4>1, <4>2
    <3>2. CASE p # cur
      <4>1. Contents(fsFileList[p], disk') = Contents(fsFileList[p], disk)
        <5>1. CASE disk' = Overwrite(data, file.loc)
          <6>1. cur \in DOMAIN fsFileList \ stale
            BY <2>1, <2>3
          <6>2. file.loc >= file.loc /\ file.loc + Len(data) <= file.loc + file.size
            BY <2>1, <2>2
          <6> QED BY <2>1, <2>2, <2>4, <3>2, <5>1, <6>1, <6>2, OthersUnwritten DEF Owned
        <5> QED BY <2>1, <5>1
      <4>2. expected'[p] = expected[p]
        BY <2>1, <2>2, <3>2 DEF With
      <4> QED BY <2>2, <2>3, <2>4, <3>2, <4>1, <4>2 DEF Owned
    <3> QED BY <3>1, <3>2
  <2>5. Owned'
    BY <2>1, <2>2, <2>3, <2>4 DEF Owned
  <2> QED BY <1>0, <2>1, <2>5
<1>12. ASSUME NEW ok \in DiskOutcomes, CopyData(ok)
       PROVE  Ownership'
  <2> DEFINE file == fsFileList[from]
  <2>1. mounted /\ pc = "copy" /\ {cur, from} \subseteq DOMAIN fsFileList
    BY <1>12 DEF CopyData, Structure
  <2>2. CASE WriteFile(cur, Contents(file, disk), from)
    <3>1. Contents(file, disk) \in Seq(Tokens) /\ cur \in DOMAIN fsFileList
      BY <2>1, MountedFacts
    <3> QED BY <1>8, <2>1, <2>2, <3>1
  <2>3. CASE /\ UNCHANGED <<mounted, unread, fsPartitionList, fsFileList, disk, saved,
                            expected, stale, harmed>>
             /\ pc' = "idle"
    <3>1. Owned /\ Writing = {} /\ Writing' = {}
      BY <1>0, <2>1, <2>3 DEF Writing
    <3>2. Owned'
      BY <2>3, <3>1 DEF Owned
    <3> QED BY <1>0, <2>1, <2>3, <3>2
  <2> QED BY <1>12, <2>2, <2>3 DEF CopyData, Finish, memory, history
<1>13. ASSUME NEW ok \in DiskOutcomes, SaveFSTable(ok)
       PROVE  Ownership'
  <2>1. /\ mounted /\ mounted' /\ ~harmed /\ pc # "data" /\ pc' # "data"
        /\ UNCHANGED <<fsPartitionList, fsFileList, disk, expected, stale>>
        /\ \/ saved' = saved
           \/ /\ saved'.list = fsPartitionList /\ saved'.files = fsFileList
              /\ saved'.stale = stale
    BY <1>13 DEF SaveFSTable, Structure, Finish, Continue, memory, history
  <2>2. Owned /\ Writing = {} /\ Writing' = {}
    BY <1>0, <2>1 DEF Writing
  <2>3. Kept(saved'.list, saved'.files, saved'.stale)
    BY <2>1, <2>2 DEF Owned
  <2>4. Owned'
    BY <2>1, <2>2, <2>3 DEF Owned
  <2> QED BY <1>0, <2>1, <2>4
<1>14. CASE Crash
  <2>1. /\ mounted /\ ~mounted' /\ ~harmed /\ pc' = "idle"
        /\ expected' = [path \in DOMAIN saved.files |-> Recovered(path)]
        /\ UNCHANGED <<disk, saved>>
    BY <1>14 DEF Crash, Finish
  <2>2. Owned
    BY <1>0, <2>1
  <2>3. ASSUME NEW p \in DOMAIN saved'.files \ saved'.stale, saved'.files[p].size # 0
        PROVE  Contents(saved'.files[p], disk') = expected'[p]
    BY <2>1, <2>2, <2>3, RecoveredStored
  <2>4. Writing' = {}
    BY <2>1 DEF Writing
  <2>5. Kept(saved'.list, saved'.files, saved'.stale)
    BY <2>1, <2>2 DEF Owned
  <2> QED BY <2>1, <2>3, <2>4, <2>5 DEF Ownership, Stored
<1>15. ASSUME LoadFSTable(TRUE)
       PROVE  Ownership'
  <2>1. /\ pc = "idle" /\ pc' = "idle" /\ mounted' /\ ~harmed
        /\ fsPartitionList' = saved.list /\ fsFileList' = saved.files
        /\ expected' = IF mounted
                       THEN [path \in DOMAIN saved.files |-> Recovered(path)]
                       ELSE expected
        /\ stale' = saved.stale
        /\ UNCHANGED <<disk, saved>>
    BY <1>15 DEF LoadFSTable, TableLoaded, Finish
  <2>2. Kept(saved.list, saved.files, saved.stale)
    BY <2>1 DEF Ownership
  <2>3. ASSUME NEW p \in DOMAIN saved.files \ saved.stale, saved.files[p].size # 0
        PROVE  Contents(saved.files[p], disk) = expected'[p]
    <3>1. CASE mounted
      BY <1>0, <2>1, <2>3, <3>1, RecoveredStored
    <3>2. CASE ~mounted
      BY <2>1, <2>3, <3>2 DEF Ownership, Stored
    <3> QED BY <3>1, <3>2
  <2>4. Writing' = {}
    BY <2>1 DEF Writing
  <2>5. Owned'
    BY <2>1, <2>2, <2>3, <2>4 DEF Owned
  <2> QED BY <1>0, <2>1, <2>5
<1>16. CASE InitAndSaveFSTable
  <2>1. /\ mounted /\ mounted' /\ ~harmed /\ pc' = "table"
        /\ fsPartitionList' = EmptyList /\ fsFileList' = <<>> /\ stale' = {}
        /\ UNCHANGED <<disk, saved>>
    BY <1>16 DEF InitAndSaveFSTable, Idle, GoSave, Continue
  <2>2. Kept(fsPartitionList', fsFileList', stale')
    BY <2>1, NeatEmptyList, NoFiles DEF Kept
  <2>3. Kept(saved.list, saved.files, saved.stale)
    BY <2>1 DEF Ownership
  <2>4. Writing' = {} /\ DOMAIN fsFileList' = {}
    BY <2>1, NoFiles DEF Writing
  <2>5. Owned'
    BY <2>1, <2>2, <2>3, <2>4 DEF Owned
  <2> QED BY <1>0, <2>1, <2>5
<1>17. CASE UNCHANGED vars
  <2>1. UNCHANGED <<mounted, unread, fsPartitionList, fsFileList, disk, saved, pc, cur,
                    expected, stale, harmed>>
    BY <1>17 DEF vars, memory, call, history
  <2>2. Writing' = Writing
    BY <2>1 DEF Writing
  <2> QED BY <2>1, <2>2 DEF Ownership, Stored
<1>18. ASSUME LoadFSTable(FALSE)
       PROVE  Ownership'
  <2>1. /\ pc' = "idle" /\ mounted' /\ ~harmed
        /\ fsPartitionList' = <<>> /\ fsFileList' = <<>> /\ stale' = {}
        /\ UNCHANGED <<disk, saved>>
    BY <1>18 DEF LoadFSTable, TableUnread, Finish
  <2>2. Kept(fsPartitionList', fsFileList', stale')
    BY <2>1, EmptyListFacts, NoFiles DEF Kept
  <2>3. Kept(saved.list, saved.files, saved.stale)
    BY <2>1 DEF Ownership
  <2>4. Writing' = {} /\ DOMAIN fsFileList' = {}
    BY <2>1, NoFiles DEF Writing
  <2>5. Owned'
    BY <2>1, <2>2, <2>3, <2>4 DEF Owned
  <2> QED BY <1>0, <2>1, <2>5
<1>19. ASSUME NEW ok \in DiskOutcomes, LoadFSTable(ok)
       PROVE  Ownership'
  BY <1>15, <1>18, <1>19, MrafsAssumption
<1>20. CASE CallSaveFSTable
  <2>1. /\ mounted /\ mounted' /\ ~harmed /\ pc = "idle" /\ pc' = "table"
        /\ UNCHANGED <<fsPartitionList, fsFileList, disk, saved, expected, stale>>
    BY <1>20 DEF CallSaveFSTable, Idle, GoSave, Continue, memory, history
  <2>2. Owned /\ Writing = {} /\ Writing' = {}
    BY <1>0, <2>1 DEF Writing
  <2>3. Owned'
    BY <2>1, <2>2 DEF Owned
  <2> QED BY <1>0, <2>1, <2>3
<1> QED BY <1>1, <1>2, <1>3, <1>4, <1>5, <1>6, <1>7, <1>9, <1>10, <1>11, <1>12,
           <1>13, <1>14, <1>16, <1>17, <1>19, <1>20 DEF Next, Step

-----------------------------------------------------------------------------
(* The theorems.                                                            *)

(* Only a save that succeeded is reported as such.                          *)
LEMMA ReportedKept == ReportedIsDurable /\ [Next]_vars => ReportedIsDurable'
<1> SUFFICES ASSUME ReportedIsDurable, [Next]_vars, mounted', result' = "ok"
             PROVE  saved'.list = fsPartitionList' /\ saved'.files = fsFileList'
  BY DEF ReportedIsDurable
<1>1. ASSUME NEW path, NEW bytes, NEW source, WriteFile(path, bytes, source)
      PROVE  FALSE
  <2>1. CASE WriteInPlace(path, bytes, source)
    BY <2>1 DEF WriteInPlace, Finish, Continue
  <2>2. CASE WriteLost(path, bytes)
    BY <2>2 DEF WriteLost, Finish
  <2>3. CASE WriteNoSpace(path, bytes, source)
    BY <2>3 DEF WriteNoSpace, Finish
  <2>4. CASE WriteMoved(path, bytes, source)
    BY <2>4 DEF WriteMoved, Continue
  <2> QED BY <1>1, <2>1, <2>2, <2>3, <2>4 DEF WriteFile
<1>2. ASSUME NEW path, NEW size, NEW bytes, NEW address,
             \/ CreateFile(path) \/ DeleteFile(path) \/ DeleteFileLost(path)
             \/ CreateFileSized(path, size) \/ CreateFileNoSpace(path, size)
             \/ CallWriteFile(path, bytes) \/ WriteFileBuffer(path, address, bytes)
      PROVE  FALSE
  BY <1>1, <1>2 DEF CreateFile, DeleteFile, DeleteFileLost, CreateFileSized,
                    CreateFileNoSpace, CallWriteFile, WriteFileBuffer,
                    GoSave, Continue, Finish
<1>3. ASSUME NEW old, NEW new, RenameFile(old, new) \/ CopyFile(old, new)
      PROVE  FALSE
  BY <1>3 DEF RenameFile, CopyFile, GoSave, Continue
<1>4. ASSUME NEW ok, WriteData(ok) \/ CopyData(ok)
      PROVE  FALSE
  BY <1>1, <1>4 DEF WriteData, CopyData, Continue, Finish
<1>5. ASSUME NEW ok, SaveFSTable(ok)
      PROVE  saved'.list = fsPartitionList' /\ saved'.files = fsFileList'
  <2>1. UNCHANGED <<fsPartitionList, fsFileList>>
    BY <1>5 DEF SaveFSTable, memory
  <2>2. saved' = [list |-> fsPartitionList, files |-> fsFileList, stale |-> stale,
                  unread |-> unread]
    BY <1>5 DEF SaveFSTable, Finish
  <2> QED BY <2>1, <2>2
<1>6. ASSUME NEW ok,
             Crash \/ LoadFSTable(ok) \/ InitAndSaveFSTable \/ CallSaveFSTable
      PROVE  FALSE
  BY <1>6 DEF Crash, LoadFSTable, TableLoaded, TableUnread, InitAndSaveFSTable,
     CallSaveFSTable, GoSave, Continue, Finish
<1>7. CASE UNCHANGED vars
  BY <1>7 DEF vars, memory, ReportedIsDurable
<1> QED BY <1>2, <1>3, <1>4, <1>5, <1>6, <1>7 DEF Next, Step

(* Whatever calls are made, whatever fails and whenever the power goes,     *)
(* the structure of the lists, what belongs to whom and what was reported   *)
(* are kept: the inductive invariant that the other theorems follow from.   *)
THEOREM AlwaysInv == Spec => []Inv
<1>1. Init => Inv
  <2> SUFFICES ASSUME Init PROVE Ownership /\ ReportedIsDurable
    BY StructureInit DEF Inv
  <2>1. /\ mounted /\ saved.list = EmptyList /\ saved.files = <<>>
        /\ saved.stale = {} /\ fsPartitionList = EmptyList /\ fsFileList = <<>>
        /\ stale = {} /\ pc = "idle" /\ result = "none"
    BY DEF Init
  <2>2. Kept(EmptyList, <<>>, {}) /\ DOMAIN <<>> = {} /\ Writing = {}
    BY <2>1, NeatEmptyList, NoFiles DEF Kept, Writing
  <2> QED BY <2>1, <2>2 DEF Ownership, Stored, ReportedIsDurable
<1>2. Inv /\ [Next]_vars => Inv'
  BY StructureKept, OwnershipKept, ReportedKept DEF Inv
<1> QED BY <1>1, <1>2, PTL DEF Spec

(* For every partition, table size and number of files, and whatever the    *)
(* disk accesses return, the extents cover the partition without gap or     *)
(* overlap and no two free ones are neighbours; after a load that failed    *)
(* there are none.                                                          *)
THEOREM AlwaysExtentsTile == Spec => []ExtentsTile
<1>1. Inv => ExtentsTile
  <2> SUFFICES ASSUME Structure PROVE ExtentsTile
    BY DEF Inv
  <2>1. CASE mounted /\ ~unread
    <3>1. Formed(fsPartitionList) /\ Apart(fsPartitionList, {})
      BY <2>1 DEF Structure, Known, Neat
    <3>2. TypeOK
      BY DEF Structure
    <3>3. Tiles(fsPartitionList, partitionSize) /\ fsPartitionList[1] = Table
      BY <3>1 DEF Formed
    <3>4. \A i \in 1 .. (Len(fsPartitionList) - 1) :
             ~(fsPartitionList[i].free /\ fsPartitionList[i + 1].free)
      BY <3>1 DEF Apart
    <3>5. fsPartitionList[1] = FSPartitionInfo(0, maxFSTableSize, FALSE)
      BY <3>3 DEF Table
    <3> QED BY ONLY <3>2, <3>3, <3>4, <3>5 DEF ExtentsTile
  <2>2. CASE ~(mounted /\ ~unread)
    <3>1. fsPartitionList = <<>> /\ Len(fsPartitionList) = 0
      BY <2>2 DEF Structure, Known
    <3>2. TypeOK /\ ~(mounted /\ ~unread)
      BY <2>2 DEF Structure
    <3>3. 1 .. (Len(fsPartitionList) - 1) = {}
      BY <3>1
    <3> QED BY ONLY <3>2, <3>3 DEF ExtentsTile
  <2> QED BY <2>1, <2>2
<1> QED BY <1>1, AlwaysInv, PTL

(* As long as no entry left by a failed write is used again, each file with *)
(* data has an extent of its own, of its size, and no two files share a     *)
(* byte of the disk.                                                        *)
THEOREM AlwaysFilesOwnExtents == Spec => []FilesOwnExtents
<1>1. Inv => FilesOwnExtents
  <2> SUFFICES ASSUME Structure, Ownership, mounted, ~harmed
               PROVE  /\ \A p \in DOMAIN fsFileList :
                            Sound(p) => \E i \in 2 .. Len(fsPartitionList) : Owns(p, i)
                      /\ \A p, q \in DOMAIN fsFileList :
                            Sound(p) /\ Sound(q) /\ p # q =>
                                Extent(fsFileList[p]) \cap Extent(fsFileList[q]) = {}
    BY DEF Inv, FilesOwnExtents
  <2>1. /\ Known(fsPartitionList, unread) /\ Placed(fsFileList)
        /\ Kept(fsPartitionList, fsFileList, stale)
    BY MountedFacts DEF Ownership
  <2>2. ASSUME NEW p \in DOMAIN fsFileList, Sound(p)
        PROVE  \E i \in 2 .. Len(fsPartitionList) : Owns(p, i)
    <3>1. AsExtent(fsFileList[p]) \in Held(fsPartitionList)
      BY <2>1, <2>2 DEF Kept, Sound
    <3>2. PICK i \in 2 .. Len(fsPartitionList) :
             ~fsPartitionList[i].free /\ AsExtent(fsFileList[p]) = fsPartitionList[i]
      BY <3>1 DEF Held
    <3>3. /\ AsExtent(fsFileList[p]).loc = fsFileList[p].loc
          /\ AsExtent(fsFileList[p]).size = fsFileList[p].size
      BY DEF AsExtent, FSPartitionInfo
    <3>4. Owns(p, i)
      BY <3>2, <3>3 DEF Owns
    <3> QED BY <3>4
  <2>3. ASSUME NEW p \in DOMAIN fsFileList, NEW q \in DOMAIN fsFileList,
               Sound(p), Sound(q), p # q
        PROVE  Extent(fsFileList[p]) \cap Extent(fsFileList[q]) = {}
    BY <2>1, <2>3, FilesApart DEF Sound
  <2> QED BY <2>2, <2>3
<1> QED BY <1>1, AlwaysInv, PTL

(* Under the same proviso a file reads back as what was last put into it,   *)
(* also after failed calls, reloads and a crash.                            *)
THEOREM AlwaysDataIntegrity == Spec => []DataIntegrity
<1>1. Inv => DataIntegrity
  BY DEF Inv, DataIntegrity, Ownership, Stored, Sound, Writing
<1> QED BY <1>1, AlwaysInv, PTL

(* After a call that reported success the table on the disk has the lists   *)
(* in memory.                                                               *)
THEOREM AlwaysReportedIsDurable == Spec => []ReportedIsDurable
<1>1. Inv => ReportedIsDurable
  BY DEF Inv
<1> QED BY <1>1, AlwaysInv, PTL

(* Where no extent is empty, each one that is not free is the table's or a  *)
(* file's.                                                                  *)
THEOREM AlwaysNoLeak == Spec => []NoLeak
<1>1. Inv => NoLeak
  <2> SUFFICES ASSUME Structure, Ownership, mounted, ~harmed,
                      \A i \in DOMAIN fsPartitionList : fsPartitionList[i].size # 0,
                      NEW i \in 2 .. Len(fsPartitionList), ~fsPartitionList[i].free
               PROVE  \E p \in DOMAIN fsFileList : Owns(p, i)
    BY DEF Inv, NoLeak
  <2>1. /\ Kept(fsPartitionList, fsFileList, stale)
        /\ DOMAIN fsPartitionList = 1 .. Len(fsPartitionList)
    BY MountedFacts DEF Ownership
  <2>2. NoneEmpty(fsPartitionList) /\ fsPartitionList[i] \in Held(fsPartitionList)
    BY <2>1 DEF NoneEmpty, Held
  <2>3. PICK p \in DOMAIN fsFileList : fsPartitionList[i] = AsExtent(fsFileList[p])
    BY <2>1, <2>2 DEF Kept
  <2>4. Owns(p, i)
    BY <2>3 DEF Owns, AsExtent, FSPartitionInfo
  <2> QED BY <2>4
<1> QED BY <1>1, AlwaysInv, PTL
=============================================================================
