------------------------------ MODULE DiskProofs ------------------------------
(***************************************************************************)
(* What lies on a disk.  The partitions of Mraps tile the drive, for any    *)
(* drive, any sizes and any number of partitions, and a command leaves the  *)
(* other partitions in use alone.  The bytes of a SATA drive of any size,   *)
(* with sectors and pages of any size: a call keeps the promises of         *)
(* ByteDisk, and fails only for one of the causes that DiskBytes names.     *)
(***************************************************************************)
EXTENDS Mraps, DiskBytes, SequenceLemmas

-----------------------------------------------------------------------------
(* Partitions.                                                              *)

Formed(list) ==
    list \in Seq(PartitionInfos) /\ list # <<>> /\ WellFormed(list)

(* No two undefined partitions side by side, but for those at j and j + 1   *)
(* with j in K.                                                             *)
Apart(list, K) ==
    \A j \in 1 .. (Len(list) - 1) :
        list[j].type = "Undefined" /\ list[j + 1].type = "Undefined" => j \in K

NoneEmpty(list) == \A j \in 1 .. Len(list) : list[j].size # 0

(* Every partition of list that is in use, but for those at i, is in new.   *)
Keeps(list, new, I) ==
    \A j \in (1 .. Len(list)) \ I :
        list[j].type # "Undefined" =>
            \E k \in 1 .. Len(new) : new[k] = list[j]

LEMMA FormedParts ==
    ASSUME NEW list, Formed(list)
    PROVE  /\ list \in Seq(PartitionInfos) /\ Len(list) \in Nat /\ Len(list) >= 3
           /\ Tiles(list, driveSize) /\ DOMAIN list = 1 .. Len(list)
           /\ \A j \in 1 .. Len(list) :
                 /\ list[j] \in PartitionInfos
                 /\ list[j].type \in Types /\ list[j].size \in Nat
                 /\ list[j].loc \in Nat
                 /\ list[j].type = "Undefined" => j >= 3
           /\ list[1] = InitialList[1] /\ list[2] = InitialList[2]
           /\ \A j \in 3 .. Len(list) : Editable(list[j])
           /\ \A j \in 1 .. Len(list) : Editable(list[j]) => j >= 3
           /\ ExtentsIn(PartitionInfos)
<1>1. /\ InitialList[1].type = "Boot" /\ InitialList[2].type = "PartitionData"
  BY DEF InitialList, PartitionInfo
<1>2. /\ list \in Seq(PartitionInfos) /\ Len(list) \in Nat /\ Len(list) >= 3
      /\ Tiles(list, driveSize) /\ DOMAIN list = 1 .. Len(list)
      /\ list[1] = InitialList[1] /\ list[2] = InitialList[2]
      /\ \A j \in 3 .. Len(list) : Editable(list[j])
  BY LenProperties DEF Formed, WellFormed
<1>3. \A j \in 1 .. Len(list) : list[j] \in PartitionInfos
  BY <1>2, ElementOfSeq
<1>4. \A e \in PartitionInfos : e.type \in Types /\ e.size \in Nat /\ e.loc \in Nat
  BY DEF PartitionInfos
<1>5. \A j \in 1 .. Len(list) : j = 1 \/ j = 2 \/ j >= 3
  BY <1>2
<1>6. \A j \in 1 .. Len(list) : Editable(list[j]) => j >= 3
  BY <1>1, <1>2, <1>5 DEF Editable
<1>7. \A j \in 1 .. Len(list) : list[j].type = "Undefined" => j >= 3
  BY <1>6 DEF Editable
<1> QED BY <1>2, <1>3, <1>4, <1>6, <1>7 DEF ExtentsIn

LEMMA PartitionChanged ==
    ASSUME NEW e \in PartitionInfos
    PROVE  /\ \A type \in Types :
                 /\ [e EXCEPT !.type = type] = PartitionInfo(type, e.size, e.loc)
                 /\ [e EXCEPT !.type = type] \in PartitionInfos
           /\ \A size \in Nat :
                 /\ [e EXCEPT !.size = size] = PartitionInfo(e.type, size, e.loc)
                 /\ [e EXCEPT !.size = size] \in PartitionInfos
           /\ \A size, loc \in Nat :
                 /\ [e EXCEPT !.size = size, !.loc = loc]
                       = PartitionInfo(e.type, size, loc)
                 /\ PartitionInfo(e.type, size, loc) \in PartitionInfos
<1>1. ASSUME NEW type \in Types
      PROVE  /\ [e EXCEPT !.type = type] = PartitionInfo(type, e.size, e.loc)
             /\ [e EXCEPT !.type = type] \in PartitionInfos
  BY DEF PartitionInfos, PartitionInfo
<1>2. ASSUME NEW size \in Nat
      PROVE  /\ [e EXCEPT !.size = size] = PartitionInfo(e.type, size, e.loc)
             /\ [e EXCEPT !.size = size] \in PartitionInfos
  BY DEF PartitionInfos, PartitionInfo
<1>3. ASSUME NEW size \in Nat, NEW loc \in Nat
      PROVE  /\ [e EXCEPT !.size = size, !.loc = loc]
                   = PartitionInfo(e.type, size, loc)
             /\ PartitionInfo(e.type, size, loc) \in PartitionInfos
  <2>1. PartitionInfo(e.type, size, loc) \in PartitionInfos
    BY DEF PartitionInfos, PartitionInfo
  <2> DEFINE f == [e EXCEPT !.size = size]
  <2>2. f = PartitionInfo(e.type, size, e.loc)
    BY <1>2
  <2>3. [e EXCEPT !.size = size, !.loc = loc] = [f EXCEPT !.loc = loc]
    BY Zenon
  <2> HIDE DEF f
  <2>4. [f EXCEPT !.loc = loc] = PartitionInfo(e.type, size, loc)
    BY <2>2 DEF PartitionInfo
  <2> QED BY <2>1, <2>3, <2>4
<1> QED BY <1>1, <1>2, <1>3

(* A partition gets another type.                                           *)
LEMMA Retyped ==
    ASSUME NEW list, Formed(list), NEW i \in 3 .. Len(list),
           NEW type \in {"Undefined", "Normal"}
    PROVE  LET t == [list EXCEPT ![i].type = type]
           IN  /\ Formed(t) /\ Len(t) = Len(list)
               /\ \A j \in 1 .. Len(list) :
                     t[j] = IF j = i THEN PartitionInfo(type, list[i].size, list[i].loc)
                            ELSE list[j]
<1> DEFINE t == [list EXCEPT ![i].type = type]
           p == PartitionInfo(type, list[i].size, list[i].loc)
<1>1. /\ list \in Seq(PartitionInfos) /\ Len(list) \in Nat /\ Len(list) >= 3
      /\ Tiles(list, driveSize) /\ DOMAIN list = 1 .. Len(list)
      /\ list[i] \in PartitionInfos
      /\ \A j \in 1 .. Len(list) : list[j] \in PartitionInfos
      /\ list[1] = InitialList[1] /\ list[2] = InitialList[2]
      /\ \A j \in 3 .. Len(list) : Editable(list[j])
      /\ ExtentsIn(PartitionInfos) /\ i \in 1 .. Len(list)
  BY FormedParts
<1>2. [list[i] EXCEPT !.type = type] = p /\ p \in PartitionInfos
  <2>1. type \in Types
    BY DEF Types
  <2> QED BY <1>1, <2>1, PartitionChanged
<1>3. t = [list EXCEPT ![i] = p]
  BY <1>2
<1> HIDE DEF p, t
<1>4. /\ t \in Seq(PartitionInfos) /\ Len(t) = Len(list)
      /\ \A j \in 1 .. Len(list) : t[j] = IF j = i THEN p ELSE list[j]
  BY <1>1, <1>2, <1>3, ExceptSeq
<1>5. p.loc = list[i].loc /\ p.size = list[i].size /\ Editable(p)
  BY DEF p, PartitionInfo, Editable
<1>6. Tiles(t, driveSize)
  BY <1>1, <1>4, <1>5, TilesKept
<1>7. /\ t # <<>> /\ t[1] = list[1] /\ t[2] = list[2]
      /\ \A j \in 3 .. Len(t) : Editable(t[j])
  BY <1>1, <1>4, <1>5
<1>8. Formed(t)
  BY <1>1, <1>4, <1>6, <1>7 DEF Formed, WellFormed
<1> QED BY <1>4, <1>8 DEF p, t

LEMMA TakeNextProperties ==
    ASSUME NEW list, Formed(list), NEW i \in 3 .. (Len(list) - 1)
    PROVE  LET t == TakeNext(list, i)
           IN  /\ Formed(t) /\ Len(t) = Len(list) - 1
               /\ \A j \in 1 .. (Len(list) - 1) :
                     t[j] = IF j < i THEN list[j]
                            ELSE IF j = i
                            THEN PartitionInfo(list[i].type,
                                               list[i].size + list[i + 1].size,
                                               list[i].loc)
                            ELSE list[j + 1]
<1> DEFINE t == TakeNext(list, i)
           p == PartitionInfo(list[i].type, list[i].size + list[i + 1].size,
                              list[i].loc)
           u == [list EXCEPT ![i].size = @ + list[i + 1].size]
<1>1. /\ list \in Seq(PartitionInfos) /\ Len(list) \in Nat /\ Len(list) >= 3
      /\ Tiles(list, driveSize) /\ DOMAIN list = 1 .. Len(list)
      /\ list[i] \in PartitionInfos /\ list[i + 1] \in PartitionInfos
      /\ list[1] = InitialList[1] /\ list[2] = InitialList[2]
      /\ \A j \in 3 .. Len(list) : Editable(list[j])
      /\ ExtentsIn(PartitionInfos) /\ i \in 1 .. Len(list)
      /\ i + 1 \in 1 .. Len(list)
  BY FormedParts
<1>2. [list[i] EXCEPT !.size = @ + list[i + 1].size] = p /\ p \in PartitionInfos
  <2>1. list[i].size + list[i + 1].size \in Nat
    BY <1>1 DEF ExtentsIn
  <2> QED BY <1>1, <2>1, PartitionChanged
<1>3. u = [list EXCEPT ![i] = p]
  BY <1>2
<1>4. p.loc = list[i].loc /\ p.size = list[i].size + list[i + 1].size
      /\ p.type = list[i].type
  BY DEF PartitionInfo
<1>5. t = RemoveAt(u, i + 1)
  BY DEF TakeNext
<1> HIDE DEF p, t, u
<1>6. /\ u \in Seq(PartitionInfos) /\ Len(u) = Len(list)
      /\ \A j \in 1 .. Len(list) : u[j] = IF j = i THEN p ELSE list[j]
  BY <1>1, <1>2, <1>3, ExceptSeq
<1>7. /\ t \in Seq(PartitionInfos) /\ Len(t) = Len(list) - 1
      /\ \A j \in 1 .. (Len(list) - 1) :
            t[j] = IF j < i + 1 THEN u[j] ELSE u[j + 1]
  <2>1. i + 1 \in 1 .. Len(u)
    BY <1>1, <1>6
  <2>2. /\ t \in Seq(PartitionInfos) /\ Len(t) = Len(u) - 1
        /\ \A j \in 1 .. (Len(u) - 1) :
              t[j] = IF j < i + 1 THEN u[j] ELSE u[j + 1]
    BY <1>5, <1>6, <2>1, RemoveAtProperties
  <2> QED BY <1>6, <2>2
<1>8. \A j \in 1 .. (Len(list) - 1) :
         t[j] = IF j < i THEN list[j] ELSE IF j = i THEN p ELSE list[j + 1]
  <2> SUFFICES ASSUME NEW j \in 1 .. (Len(list) - 1)
               PROVE  t[j] = IF j < i THEN list[j] ELSE IF j = i THEN p
                             ELSE list[j + 1]
    OBVIOUS
  <2>1. CASE j < i
    BY <1>1, <1>6, <1>7, <2>1
  <2>2. CASE j = i
    BY <1>1, <1>6, <1>7, <2>2
  <2>3. CASE j > i
    <3>1. ~(j < i + 1) /\ j + 1 \in 1 .. Len(list) /\ j + 1 # i /\ ~(j < i) /\ j # i
      BY <1>1, <2>3
    <3> QED BY <1>6, <1>7, <3>1
  <2> QED BY <2>1, <2>2, <2>3
<1>9. Tiles(t, driveSize)
  <2>1. \A j \in 1 .. (Len(list) - 1) :
           /\ t[j].loc = IF j <= i THEN list[j].loc ELSE list[j + 1].loc
           /\ t[j].size = IF j < i THEN list[j].size
                          ELSE IF j = i THEN list[i].size + list[i + 1].size
                          ELSE list[j + 1].size
    BY <1>1, <1>4, <1>8
  <2>2. i \in 1 .. (Len(list) - 1)
    BY <1>1
  <2> QED BY <1>1, <1>7, <2>1, <2>2, TilesMerged
<1>10. /\ t # <<>> /\ t[1] = list[1] /\ t[2] = list[2] /\ Len(t) >= 3
       /\ \A j \in 3 .. Len(t) : Editable(t[j])
  BY <1>1, <1>4, <1>7, <1>8 DEF Editable
<1>11. Formed(t)
  BY <1>1, <1>7, <1>9, <1>10 DEF Formed, WellFormed
<1> QED BY <1>7, <1>8, <1>11 DEF p, t

(* Shrunk before the rest is deleted: the partition is cut in two.          *)
Cut(list, i, newSize) ==
    InsertAt([list EXCEPT ![i].size = newSize], i + 1,
             PartitionInfo("Undefined", list[i].size - newSize,
                           list[i].loc + newSize))

LEMMA CutProperties ==
    ASSUME NEW list, Formed(list), NEW i \in 3 .. Len(list),
           NEW newSize \in 0 .. list[i].size
    PROVE  LET t == Cut(list, i, newSize)
           IN  /\ Formed(t) /\ Len(t) = Len(list) + 1
               /\ \A j \in 1 .. (Len(list) + 1) :
                     t[j] = IF j < i THEN list[j]
                            ELSE IF j = i
                            THEN PartitionInfo(list[i].type, newSize, list[i].loc)
                            ELSE IF j = i + 1
                            THEN PartitionInfo("Undefined", list[i].size - newSize,
                                               list[i].loc + newSize)
                            ELSE list[j - 1]
<1> DEFINE t == Cut(list, i, newSize)
           p == PartitionInfo(list[i].type, newSize, list[i].loc)
           q == PartitionInfo("Undefined", list[i].size - newSize,
                              list[i].loc + newSize)
           u == [list EXCEPT ![i].size = newSize]
<1>1. /\ list \in Seq(PartitionInfos) /\ Len(list) \in Nat /\ Len(list) >= 3
      /\ Tiles(list, driveSize) /\ DOMAIN list = 1 .. Len(list)
      /\ list[i] \in PartitionInfos
      /\ list[1] = InitialList[1] /\ list[2] = InitialList[2]
      /\ \A j \in 3 .. Len(list) : Editable(list[j])
      /\ ExtentsIn(PartitionInfos) /\ i \in 1 .. Len(list)
      /\ list[i].size \in Nat /\ list[i].loc \in Nat
  BY FormedParts
<1>2. newSize \in Nat /\ list[i].size - newSize \in Nat /\ list[i].loc + newSize \in Nat
  BY <1>1
<1>3. [list[i] EXCEPT !.size = newSize] = p /\ p \in PartitionInfos
  BY <1>1, <1>2, PartitionChanged
<1>4. q \in PartitionInfos
  BY <1>2 DEF PartitionInfos, PartitionInfo, Types
<1>5. u = [list EXCEPT ![i] = p]
  BY <1>3
<1>6. /\ p.loc = list[i].loc /\ p.size = newSize /\ p.type = list[i].type
      /\ q.loc = list[i].loc + newSize /\ q.size = list[i].size - newSize
      /\ q.type = "Undefined"
  BY DEF PartitionInfo
<1>7. t = InsertAt(u, i + 1, q)
  BY DEF Cut
<1> HIDE DEF p, q, t, u
<1>8. /\ u \in Seq(PartitionInfos) /\ Len(u) = Len(list)
      /\ \A j \in 1 .. Len(list) : u[j] = IF j = i THEN p ELSE list[j]
  BY <1>1, <1>3, <1>5, ExceptSeq
<1>9. /\ t \in Seq(PartitionInfos) /\ Len(t) = Len(list) + 1
      /\ \A j \in 1 .. (Len(list) + 1) :
            t[j] = IF j < i + 1 THEN u[j] ELSE IF j = i + 1 THEN q ELSE u[j - 1]
  <2>1. i + 1 \in 1 .. (Len(u) + 1)
    BY <1>1, <1>8
  <2> DEFINE k == i + 1
  <2>2. /\ t \in Seq(PartitionInfos) /\ Len(t) = Len(u) + 1
        /\ \A j \in 1 .. (Len(u) + 1) :
              t[j] = IF j < k THEN u[j] ELSE IF j = k THEN q ELSE u[j - 1]
    <3>1. u \in Seq(PartitionInfos) /\ q \in PartitionInfos
      BY <1>4, <1>8
    <3>2. k \in 1 .. (Len(u) + 1)
      BY <2>1
    <3>3. t = InsertAt(u, k, q)
      BY <1>7
    <3> HIDE DEF k
    <3>4. /\ InsertAt(u, k, q) \in Seq(PartitionInfos)
          /\ Len(InsertAt(u, k, q)) = Len(u) + 1
          /\ \A j \in 1 .. (Len(u) + 1) :
                InsertAt(u, k, q)[j] = IF j < k THEN u[j]
                                       ELSE IF j = k THEN q ELSE u[j - 1]
      BY <3>1, <3>2, InsertAtProperties
    <3> QED BY ONLY <3>3, <3>4
  <2> QED BY <1>8, <2>2
<1>10. \A j \in 1 .. (Len(list) + 1) :
          t[j] = IF j < i THEN list[j] ELSE IF j = i THEN p
                 ELSE IF j = i + 1 THEN q ELSE list[j - 1]
  <2> SUFFICES ASSUME NEW j \in 1 .. (Len(list) + 1)
               PROVE  t[j] = IF j < i THEN list[j] ELSE IF j = i THEN p
                             ELSE IF j = i + 1 THEN q ELSE list[j - 1]
    OBVIOUS
  <2>1. CASE j < i
    <3>1. j < i + 1 /\ j \in 1 .. Len(list) /\ j # i
      BY <1>1, <2>1
    <3> QED BY <1>8, <1>9, <2>1, <3>1
  <2>2. CASE j = i
    BY <1>1, <1>8, <1>9, <2>2
  <2>3. CASE j = i + 1
    <3>1. ~(j < i) /\ j # i /\ ~(j < i + 1)
      BY <1>1, <2>3
    <3> QED BY <1>9, <2>3, <3>1
  <2>4. CASE j > i + 1
    <3>1. /\ ~(j < i + 1) /\ j # i + 1 /\ j - 1 \in 1 .. Len(list) /\ j - 1 # i
          /\ ~(j < i) /\ j # i
      BY <1>1, <2>4
    <3> QED BY <1>8, <1>9, <3>1
  <2> QED BY <1>1, <2>1, <2>2, <2>3, <2>4
<1>11. Tiles(t, driveSize)
  <2>1. \A j \in 1 .. (Len(list) + 1) :
           /\ t[j].loc = IF j <= i THEN list[j].loc
                         ELSE IF j = i + 1 THEN list[i].loc + newSize
                         ELSE list[j - 1].loc
           /\ t[j].size = IF j < i THEN list[j].size ELSE IF j = i THEN newSize
                          ELSE IF j = i + 1 THEN list[i].size - newSize
                          ELSE list[j - 1].size
    BY <1>1, <1>6, <1>10
  <2> QED BY <1>1, <1>9, <2>1, TilesCut
<1>12. t # <<>> /\ t[1] = list[1] /\ t[2] = list[2] /\ Len(t) >= 3
  BY <1>1, <1>9, <1>10
<1>13. \A j \in 3 .. Len(t) : Editable(t[j])
  <2> SUFFICES ASSUME NEW j \in 3 .. Len(t) PROVE Editable(t[j])
    OBVIOUS
  <2>1. Editable(p) /\ Editable(q)
    BY <1>1, <1>6 DEF Editable
  <2>2. CASE j < i
    BY <1>1, <1>9, <1>10, <2>2
  <2>3. CASE j = i \/ j = i + 1
    BY <1>1, <1>9, <1>10, <2>1, <2>3
  <2>4. CASE j > i + 1
    <3>1. ~(j < i) /\ j # i /\ j # i + 1 /\ j - 1 \in 3 .. Len(list)
          /\ j \in 1 .. (Len(list) + 1)
      BY <1>1, <1>9, <2>4
    <3> QED BY <1>1, <1>10, <3>1
  <2> QED BY <1>1, <2>2, <2>3, <2>4
<1>14. Formed(t)
  BY <1>1, <1>9, <1>11, <1>12, <1>13 DEF Formed, WellFormed
<1> QED BY <1>9, <1>10, <1>14 DEF p, q, t

(* Two undefined neighbours become one.                                     *)
LEMMA CombineProperties ==
    ASSUME NEW list, Formed(list), NEW i \in 3 .. (Len(list) - 1),
           list[i].type = "Undefined", list[i + 1].type = "Undefined"
    PROVE  LET t == Combine(list, i)
           IN  /\ Formed(t) /\ Len(t) >= i
               /\ Keeps(list, t, {})
               /\ \A j \in 1 .. i : t[j].type = list[j].type
               /\ \A j \in 1 .. (i - 1) : t[j].size = list[j].size
               /\ t[i].size >= list[i].size
               /\ list[i + 1].size # 0 =>
                     \A K \in SUBSET {i - 1} :
                         Apart(list, K \cup {i}) => Apart(t, K)
<1> DEFINE t == Combine(list, i)
<1>1. /\ Len(list) \in Nat /\ Len(list) >= 3 /\ i \in 1 .. Len(list)
      /\ i + 1 \in 1 .. Len(list) /\ i \in 1 .. (Len(list) - 1)
      /\ \A j \in 1 .. Len(list) : list[j].size \in Nat
  BY FormedParts
<1>2. CASE list[i + 1].size = 0
  <2>1. t = list
    BY <1>2 DEF Combine
  <2>2. Keeps(list, list, {})
    BY DEF Keeps
  <2> QED BY <1>1, <1>2, <2>1, <2>2
<1>3. CASE list[i + 1].size # 0
  <2>1. t = TakeNext(list, i)
    BY <1>3 DEF Combine
  <2> DEFINE p == PartitionInfo(list[i].type, list[i].size + list[i + 1].size,
                                list[i].loc)
  <2>2. /\ p.type = "Undefined" /\ p.size = list[i].size + list[i + 1].size
    BY DEF PartitionInfo
  <2> HIDE DEF t, p
  <2>3. /\ Formed(t) /\ Len(t) = Len(list) - 1
        /\ \A j \in 1 .. (Len(list) - 1) :
              t[j] = IF j < i THEN list[j] ELSE IF j = i THEN p ELSE list[j + 1]
    BY <2>1, TakeNextProperties DEF p
  <2>4. /\ \A j \in 1 .. (i - 1) : t[j] = list[j]
        /\ t[i] = p
        /\ \A j \in (i + 1) .. (Len(list) - 1) : t[j] = list[j + 1]
    BY <1>1, <2>3
  <2>5. Keeps(list, t, {})
    <3> SUFFICES ASSUME NEW j \in 1 .. Len(list), list[j].type # "Undefined"
                 PROVE  \E k \in 1 .. Len(t) : t[k] = list[j]
      BY DEF Keeps
    <3>1. CASE j < i
      <4>1. j \in 1 .. (i - 1) /\ j \in 1 .. Len(t)
        BY <1>1, <2>3, <3>1
      <4> QED BY <2>4, <4>1
    <3>2. CASE j > i + 1
      <4>1. j - 1 \in (i + 1) .. (Len(list) - 1) /\ (j - 1) + 1 = j
        BY <1>1, <3>2
      <4>2. t[j - 1] = list[j]
        BY <2>4, <4>1
      <4>3. j - 1 \in 1 .. Len(t)
        BY <1>1, <2>3, <4>1
      <4> QED BY <4>2, <4>3
    <3>3. j = i \/ j = i + 1 \/ j < i \/ j > i + 1
      BY <1>1
    <3> QED BY <3>1, <3>2, <3>3
  <2>6. \A j \in 1 .. i : t[j].type = list[j].type
    BY <1>1, <2>2, <2>4
  <2>7. ASSUME NEW K \in SUBSET {i - 1}, Apart(list, K \cup {i})
        PROVE  Apart(t, K)
    <3> SUFFICES ASSUME NEW j \in 1 .. (Len(t) - 1),
                        t[j].type = "Undefined", t[j + 1].type = "Undefined"
                 PROVE  j \in K
      BY DEF Apart
    <3>1. \A m \in 1 .. (Len(list) - 1) :
             list[m].type = "Undefined" /\ list[m + 1].type = "Undefined"
                => m \in K \cup {i}
      BY <2>7 DEF Apart
    <3>2. CASE j < i
      <4>1. j \in 1 .. i /\ j + 1 \in 1 .. i /\ j \in 1 .. (Len(list) - 1) /\ j # i
        BY <1>1, <2>3, <3>2
      <4> QED BY <2>6, <3>1, <4>1
    <3>3. CASE j = i
      <4>1. /\ i + 1 \in (i + 1) .. (Len(list) - 1)
            /\ i + 1 \in 1 .. (Len(list) - 1) /\ i + 1 # i /\ i + 1 # i - 1
        BY <1>1, <2>3, <3>3
      <4>2. t[i + 1] = list[(i + 1) + 1]
        BY <2>4, <4>1
      <4> QED BY <3>1, <3>3, <4>1, <4>2
    <3>4. CASE j > i
      <4>1. /\ j \in (i + 1) .. (Len(list) - 1) /\ j + 1 \in (i + 1) .. (Len(list) - 1)
            /\ j + 1 \in 1 .. (Len(list) - 1) /\ j + 1 # i /\ j + 1 # i - 1
        BY <1>1, <2>3, <3>4
      <4>2. t[j] = list[j + 1] /\ t[j + 1] = list[(j + 1) + 1]
        BY <2>4, <4>1
      <4> QED BY <3>1, <4>1, <4>2
    <3>5. j < i \/ j = i \/ j > i
      BY <1>1, <2>3
    <3> QED BY <3>2, <3>3, <3>4, <3>5
  <2>8. /\ Len(t) >= i /\ t[i].size >= list[i].size
        /\ \A j \in 1 .. (i - 1) : t[j].size = list[j].size
    BY <1>1, <2>2, <2>3, <2>4
  <2> QED BY <2>3, <2>5, <2>6, <2>7, <2>8 DEF t
<1> QED BY <1>2, <1>3

LEMMA KeepsTrans ==
    ASSUME NEW a, NEW b, NEW c, NEW I, Keeps(a, b, I), Keeps(b, c, {})
    PROVE  Keeps(a, c, I)
  BY DEF Keeps

LEMMA DeletedProperties ==
    ASSUME NEW list, Formed(list), NEW i \in 3 .. Len(list)
    PROVE  LET t == Deleted(list, i)
           IN  /\ Formed(t) /\ Keeps(list, t, {i})
               /\ /\ Apart(list, {i - 1, i}) /\ list[i].size # 0
                  /\ \A j \in {i + 1} \cap 1 .. Len(list) : list[j].size # 0
                  => Apart(t, {})
<1> DEFINE m == [list EXCEPT ![i].type = "Undefined"]
           n == IF IsUndefinedAt(m, i + 1) THEN Combine(m, i) ELSE m
           t == Deleted(list, i)
<1>1. t = IF IsUndefinedAt(n, i - 1) THEN Combine(n, i - 1) ELSE n
  BY DEF Deleted
<1>2. /\ Len(list) \in Nat /\ Len(list) >= 3 /\ i \in 1 .. Len(list)
      /\ \A j \in 1 .. Len(list) : list[j].size \in Nat
  BY FormedParts
<1> DEFINE p == PartitionInfo("Undefined", list[i].size, list[i].loc)
<1>3. /\ Formed(m) /\ Len(m) = Len(list)
      /\ \A j \in 1 .. Len(list) : m[j] = IF j = i THEN p ELSE list[j]
  BY Retyped
<1>4. p.type = "Undefined" /\ p.size = list[i].size
  BY DEF PartitionInfo
<1> DEFINE Sizes0 == /\ list[i].size # 0
                     /\ \A j \in {i + 1} \cap 1 .. Len(list) : list[j].size # 0
<1> HIDE DEF m, t, p
<1>5. Keeps(list, m, {i})
  BY <1>3 DEF Keeps
<1>6. Apart(list, {i - 1, i}) => Apart(m, {i - 1, i})
  <2> SUFFICES ASSUME Apart(list, {i - 1, i}), NEW j \in 1 .. (Len(m) - 1),
                      m[j].type = "Undefined", m[j + 1].type = "Undefined"
               PROVE  j \in {i - 1, i}
    BY DEF Apart
  <2>1. CASE j # i /\ j # i - 1
    <3>1. /\ j \in 1 .. (Len(list) - 1) /\ j \in 1 .. Len(list)
          /\ j + 1 \in 1 .. Len(list) /\ j + 1 # i
      BY <1>2, <1>3, <2>1
    <3>2. m[j] = list[j] /\ m[j + 1] = list[j + 1]
      BY <1>3, <2>1, <3>1
    <3> QED BY <3>1, <3>2 DEF Apart
  <2> QED BY <2>1
<1>7. /\ Formed(n) /\ Keeps(m, n, {}) /\ Len(n) >= i /\ n[i].type = "Undefined"
      /\ n[i].size >= list[i].size
      /\ Apart(m, {i - 1, i}) /\ Sizes0 => Apart(n, {i - 1})
  <2>1. m[i] = p
    BY <1>2, <1>3
  <2>2. CASE IsUndefinedAt(m, i + 1)
    <3>1. n = Combine(m, i)
      BY <2>2
    <3> HIDE DEF n
    <3>2. /\ i \in 3 .. (Len(m) - 1) /\ m[i].type = "Undefined"
          /\ m[i + 1].type = "Undefined" /\ i + 1 \in 1 .. Len(list) /\ i + 1 # i
      BY <1>2, <1>3, <1>4, <2>1, <2>2 DEF IsUndefinedAt
    <3>3. m[i + 1] = list[i + 1]
      BY <1>3, <3>2
    <3>4. /\ Formed(n) /\ Keeps(m, n, {}) /\ Len(n) >= i
          /\ \A j \in 1 .. i : n[j].type = m[j].type
          /\ n[i].size >= m[i].size
          /\ m[i + 1].size # 0 =>
                \A K \in SUBSET {i - 1} : Apart(m, K \cup {i}) => Apart(n, K)
      BY <1>3, <3>1, <3>2, CombineProperties
    <3>5. Apart(m, {i - 1, i}) /\ Sizes0 => Apart(n, {i - 1})
      <4>1. {i - 1, i} = {i - 1} \cup {i}
        OBVIOUS
      <4> QED BY <3>2, <3>3, <3>4, <4>1
    <3> QED BY <1>2, <1>4, <2>1, <3>4, <3>5
  <2>3. CASE ~IsUndefinedAt(m, i + 1)
    <3>1. n = m
      BY <2>3
    <3> HIDE DEF n
    <3>2. Keeps(m, m, {})
      BY DEF Keeps
    <3>3. Apart(m, {i - 1, i}) => Apart(m, {i - 1})
      <4>1. \A j \in 1 .. (Len(m) - 1) : j = i => i + 1 \in 1 .. Len(m)
        BY <1>2, <1>3
      <4> QED BY <2>3, <4>1 DEF Apart, IsUndefinedAt
    <3> QED BY <1>2, <1>3, <1>4, <2>1, <3>1, <3>2, <3>3
  <2> QED BY <2>2, <2>3
<1> HIDE DEF n
<1>8. /\ Formed(t) /\ Keeps(n, t, {})
      /\ Apart(n, {i - 1}) /\ Sizes0 => Apart(t, {})
  <2>1. Len(n) \in Nat /\ \A j \in 1 .. Len(n) : n[j].size \in Nat
                           /\ (n[j].type = "Undefined" => j >= 3)
    BY <1>7, FormedParts
  <2>2. CASE IsUndefinedAt(n, i - 1)
    <3>1. t = Combine(n, i - 1)
      BY <1>1, <2>2
    <3>2. /\ i - 1 \in 3 .. (Len(n) - 1) /\ n[i - 1].type = "Undefined"
          /\ (i - 1) + 1 = i
      BY <1>2, <1>7, <2>1, <2>2 DEF IsUndefinedAt
    <3>3. /\ Formed(t) /\ Keeps(n, t, {})
          /\ n[(i - 1) + 1].size # 0 =>
                \A K \in SUBSET {(i - 1) - 1} :
                   Apart(n, K \cup {i - 1}) => Apart(t, K)
      BY <1>7, <3>1, <3>2, CombineProperties
    <3>4. Sizes0 => n[(i - 1) + 1].size # 0
      BY <1>2, <1>7, <2>1, <3>2
    <3>5. {i - 1} = {} \cup {i - 1} /\ {} \in SUBSET {(i - 1) - 1}
      OBVIOUS
    <3> HIDE DEF Sizes0
    <3> QED BY <3>3, <3>4, <3>5
  <2>3. CASE ~IsUndefinedAt(n, i - 1)
    <3>1. t = n
      BY <1>1, <2>3
    <3>2. Keeps(n, n, {})
      BY DEF Keeps
    <3>3. Apart(n, {i - 1}) => Apart(n, {})
      <4>1. \A j \in 1 .. (Len(n) - 1) : j \in 1 .. Len(n)
        BY <2>1
      <4> QED BY <2>3, <4>1 DEF Apart, IsUndefinedAt
    <3> QED BY <1>7, <3>1, <3>2, <3>3
  <2> QED BY <2>2, <2>3
<1>9. Keeps(list, t, {i})
  BY <1>5, <1>7, <1>8, KeepsTrans
<1> QED BY <1>6, <1>7, <1>8, <1>9 DEF t

LEMMA ShrunkProperties ==
    ASSUME NEW list, Formed(list), NEW i \in 3 .. Len(list),
           NEW newSize \in Nat, newSize < list[i].size
    PROVE  LET t == Shrunk(list, i, newSize)
           IN  /\ Formed(t) /\ Keeps(list, t, {i})
               /\ Apart(list, {}) /\ NoneEmpty(list) => Apart(t, {})
<1> DEFINE c == Cut(list, i, newSize)
           t == Shrunk(list, i, newSize)
           p == PartitionInfo(list[i].type, newSize, list[i].loc)
           q == PartitionInfo("Undefined", list[i].size - newSize,
                              list[i].loc + newSize)
<1>1. t = Deleted(c, i + 1)
  BY DEF Shrunk, Cut
<1>2. /\ Len(list) \in Nat /\ Len(list) >= 3 /\ i \in 1 .. Len(list)
      /\ list[i].size \in Nat /\ newSize \in 0 .. list[i].size
  BY FormedParts
<1>3. /\ Formed(c) /\ Len(c) = Len(list) + 1
      /\ \A j \in 1 .. (Len(list) + 1) :
            c[j] = IF j < i THEN list[j] ELSE IF j = i THEN p
                   ELSE IF j = i + 1 THEN q ELSE list[j - 1]
  BY <1>2, CutProperties
<1>4. p.type = list[i].type /\ q.type = "Undefined" /\ q.size # 0
  BY <1>2 DEF PartitionInfo
<1> HIDE DEF c, t, p, q
<1>5. /\ \A j \in 1 .. (i - 1) : c[j] = list[j]
      /\ c[i] = p /\ c[i + 1] = q
      /\ \A j \in (i + 1) .. Len(list) : c[j + 1] = list[j]
  <2>1. \A j \in 1 .. (i - 1) : j \in 1 .. (Len(list) + 1) /\ j < i
    BY <1>2
  <2>2. /\ i \in 1 .. (Len(list) + 1) /\ ~(i < i)
        /\ i + 1 \in 1 .. (Len(list) + 1) /\ ~(i + 1 < i) /\ i + 1 # i
    BY <1>2
  <2>3. \A j \in (i + 1) .. Len(list) :
           /\ j + 1 \in 1 .. (Len(list) + 1) /\ ~(j + 1 < i) /\ j + 1 # i
           /\ j + 1 # i + 1 /\ (j + 1) - 1 = j
    BY <1>2
  <2> QED BY <1>3, <2>1, <2>2, <2>3
<1>6. i + 1 \in 3 .. Len(c) /\ (i + 1) - 1 = i
  BY <1>2, <1>3
<1>7. /\ Formed(t) /\ Keeps(c, t, {i + 1})
      /\ /\ Apart(c, {i, i + 1}) /\ c[i + 1].size # 0
         /\ \A j \in {(i + 1) + 1} \cap 1 .. Len(c) : c[j].size # 0
         => Apart(t, {})
  BY <1>1, <1>3, <1>6, DeletedProperties
<1>8. Keeps(c, t, {})
  BY <1>4, <1>5, <1>7 DEF Keeps
<1>9. Keeps(list, c, {i})
  <2> SUFFICES ASSUME NEW j \in (1 .. Len(list)) \ {i}
               PROVE  \E k \in 1 .. Len(c) : c[k] = list[j]
    BY DEF Keeps
  <2>1. CASE j < i
    <3>1. j \in 1 .. (i - 1) /\ j \in 1 .. Len(c)
      BY <1>2, <1>3, <2>1
    <3> QED BY <1>5, <3>1
  <2>2. CASE j > i
    <3>1. j \in (i + 1) .. Len(list) /\ j + 1 \in 1 .. Len(c)
      BY <1>2, <1>3, <2>2
    <3> QED BY <1>5, <3>1
  <2> QED BY <1>2, <2>1, <2>2
<1>10. Keeps(list, t, {i})
  BY <1>8, <1>9, KeepsTrans
<1>11. ASSUME Apart(list, {}), NoneEmpty(list)
       PROVE  Apart(t, {})
  <2>1. \A m \in 1 .. (Len(list) - 1) :
           ~(list[m].type = "Undefined" /\ list[m + 1].type = "Undefined")
    BY <1>11 DEF Apart
  <2>2. Apart(c, {i, i + 1})
    <3> SUFFICES ASSUME NEW j \in 1 .. (Len(c) - 1), j # i, j # i + 1
                 PROVE  ~(c[j].type = "Undefined" /\ c[j + 1].type = "Undefined")
      BY DEF Apart
    <3>1. CASE j < i
      <4>1. /\ j \in 1 .. (Len(list) - 1) /\ j \in 1 .. (i - 1)
            /\ j + 1 \in 1 .. (i - 1) \/ j + 1 = i
        BY <1>2, <1>3, <3>1
      <4>2. c[j] = list[j] /\ c[j + 1].type = list[j + 1].type
        BY <1>4, <1>5, <4>1
      <4> QED BY <2>1, <4>1, <4>2
    <3>2. CASE j > i + 1
      <4> DEFINE m == j - 1
      <4>1. /\ m \in 1 .. (Len(list) - 1) /\ m \in (i + 1) .. Len(list)
            /\ m + 1 \in (i + 1) .. Len(list) /\ j = m + 1
        BY <1>2, <1>3, <3>2
      <4> HIDE DEF m
      <4>2. c[m + 1] = list[m] /\ c[(m + 1) + 1] = list[m + 1]
        BY <1>5, <4>1
      <4> QED BY <2>1, <4>1, <4>2
    <3> QED BY <1>2, <1>3, <3>1, <3>2
  <2>3. \A j \in {(i + 1) + 1} \cap 1 .. Len(c) : c[j].size # 0
    <3> SUFFICES ASSUME (i + 1) + 1 \in 1 .. Len(c)
                 PROVE  c[(i + 1) + 1].size # 0
      OBVIOUS
    <3>1. i + 1 \in (i + 1) .. Len(list) /\ i + 1 \in 1 .. Len(list)
      BY <1>2, <1>3
    <3> QED BY <1>5, <1>11, <3>1 DEF NoneEmpty
  <2> QED BY <1>4, <1>5, <1>7, <2>2, <2>3
<1> QED BY <1>7, <1>10, <1>11 DEF t

LEMMA GrownProperties ==
    ASSUME NEW list, Formed(list), NEW i \in 3 .. Len(list),
           NEW newSize \in Nat, newSize > list[i].size,
           IsUndefinedAt(list, i + 1),
           newSize - list[i].size <= list[i + 1].size
    PROVE  LET t == Grown(list, i, newSize)
           IN  /\ Formed(t) /\ Keeps(list, t, {i})
               /\ Apart(list, {}) => Apart(t, {})
<1> DEFINE more == newSize - list[i].size
           t == Grown(list, i, newSize)
<1>1. /\ Len(list) \in Nat /\ Len(list) >= 3 /\ i \in 1 .. Len(list)
      /\ i + 1 \in 1 .. Len(list) /\ i \in 1 .. (Len(list) - 1)
      /\ i \in 3 .. (Len(list) - 1)
      /\ list[i + 1].type = "Undefined"
      /\ \A j \in 1 .. Len(list) : list[j].size \in Nat /\ list[j].loc \in Nat
  BY FormedParts DEF IsUndefinedAt
<1>2. CASE more = list[i + 1].size
  <2> DEFINE p == PartitionInfo(list[i].type, list[i].size + list[i + 1].size,
                                list[i].loc)
  <2>1. t = TakeNext(list, i)
    BY <1>2 DEF Grown
  <2>2. p.type = list[i].type
    BY DEF PartitionInfo
  <2> HIDE DEF t, p
  <2>3. /\ Formed(t) /\ Len(t) = Len(list) - 1
        /\ \A j \in 1 .. (Len(list) - 1) :
              t[j] = IF j < i THEN list[j] ELSE IF j = i THEN p ELSE list[j + 1]
    BY <1>1, <2>1, TakeNextProperties DEF p
  <2>4. /\ \A j \in 1 .. (i - 1) : t[j] = list[j]
        /\ t[i] = p
        /\ \A j \in (i + 1) .. (Len(list) - 1) : t[j] = list[j + 1]
    <3>1. \A j \in 1 .. (i - 1) : j \in 1 .. (Len(list) - 1) /\ j < i
      BY <1>1
    <3>2. i \in 1 .. (Len(list) - 1) /\ ~(i < i)
      BY <1>1
    <3>3. \A j \in (i + 1) .. (Len(list) - 1) :
             j \in 1 .. (Len(list) - 1) /\ ~(j < i) /\ j # i
      BY <1>1
    <3> QED BY <2>3, <3>1, <3>2, <3>3
  <2>5. Keeps(list, t, {i})
    <3> SUFFICES ASSUME NEW j \in 1 .. Len(list), j # i, list[j].type # "Undefined"
                 PROVE  \E k \in 1 .. Len(t) : t[k] = list[j]
      BY DEF Keeps
    <3>1. CASE j < i
      <4>1. j \in 1 .. (i - 1) /\ j \in 1 .. Len(t)
        BY <1>1, <2>3, <3>1
      <4> QED BY <2>4, <4>1
    <3>2. CASE j > i + 1
      <4>1. j - 1 \in (i + 1) .. (Len(list) - 1) /\ (j - 1) + 1 = j
            /\ j - 1 \in 1 .. Len(t)
        BY <1>1, <2>3, <3>2
      <4>2. t[j - 1] = list[j]
        BY <2>4, <4>1
      <4> QED BY <4>1, <4>2
    <3>3. j = i + 1 \/ j < i \/ j > i + 1
      BY <1>1
    <3> QED BY <1>1, <3>1, <3>2, <3>3
  <2>6. ASSUME Apart(list, {})
        PROVE  Apart(t, {})
    <3>1. \A m \in 1 .. (Len(list) - 1) :
             ~(list[m].type = "Undefined" /\ list[m + 1].type = "Undefined")
      BY <2>6 DEF Apart
    <3>2. p.type # "Undefined"
      BY <1>1, <2>2, <3>1
    <3> SUFFICES ASSUME NEW j \in 1 .. (Len(t) - 1)
                 PROVE  ~(t[j].type = "Undefined" /\ t[j + 1].type = "Undefined")
      BY DEF Apart
    <3>3. CASE j = i \/ j + 1 = i
      BY <2>4, <3>2, <3>3
    <3>4. CASE j + 1 < i
      <4>1. j \in 1 .. (i - 1) /\ j + 1 \in 1 .. (i - 1) /\ j \in 1 .. (Len(list) - 1)
        BY <1>1, <2>3, <3>4
      <4> QED BY <2>4, <3>1, <4>1
    <3>5. CASE j > i
      <4>1. /\ j \in (i + 1) .. (Len(list) - 1) /\ j + 1 \in (i + 1) .. (Len(list) - 1)
            /\ j + 1 \in 1 .. (Len(list) - 1)
        BY <1>1, <2>3, <3>5
      <4>2. t[j] = list[j + 1] /\ t[j + 1] = list[(j + 1) + 1]
        BY <2>4, <4>1
      <4> QED BY <3>1, <4>1, <4>2
    <3>6. j = i \/ j + 1 = i \/ j + 1 < i \/ j > i
      BY <1>1, <2>3
    <3> QED BY <3>3, <3>4, <3>5, <3>6
  <2> QED BY <2>3, <2>5, <2>6 DEF t
<1>3. CASE more # list[i + 1].size
  <2> DEFINE p == PartitionInfo(list[i].type, newSize, list[i].loc)
             q == PartitionInfo("Undefined", list[i + 1].size - more,
                                list[i + 1].loc + more)
             u == [list EXCEPT ![i] = p]
  <2>1. /\ list \in Seq(PartitionInfos) /\ DOMAIN list = 1 .. Len(list)
        /\ list[i] \in PartitionInfos /\ list[i + 1] \in PartitionInfos
        /\ ExtentsIn(PartitionInfos) /\ Tiles(list, driveSize)
        /\ list[1] = InitialList[1] /\ list[2] = InitialList[2]
        /\ \A j \in 3 .. Len(list) : Editable(list[j])
    BY <1>1, FormedParts
  <2>2. /\ more \in 0 .. list[i + 1].size /\ more \in Nat
        /\ list[i + 1].size - more \in Nat /\ list[i + 1].loc + more \in Nat
        /\ newSize = list[i].size + more
    <3>1. /\ list[i].size \in Nat /\ list[i + 1].size \in Nat
          /\ list[i + 1].loc \in Nat
      BY <1>1
    <3>2. \A a, b, c, n \in Nat :
             n > a /\ n - a <= b =>
                /\ n - a \in 0 .. b /\ n - a \in Nat /\ b - (n - a) \in Nat
                /\ c + (n - a) \in Nat /\ n = a + (n - a)
      OBVIOUS
    <3> QED BY <3>1, <3>2, Zenon
  <2>3. p \in PartitionInfos /\ q \in PartitionInfos
        /\ [list[i] EXCEPT !.size = newSize] = p
        /\ [list[i + 1] EXCEPT !.size = @ - more, !.loc = @ + more] = q
    <3> HIDE DEF more
    <3>1. p \in PartitionInfos /\ [list[i] EXCEPT !.size = newSize] = p
      BY <2>1, PartitionChanged
    <3>2. q = PartitionInfo(list[i + 1].type, list[i + 1].size - more,
                            list[i + 1].loc + more)
      BY <1>1
    <3>3. /\ q \in PartitionInfos
          /\ [list[i + 1] EXCEPT !.size = list[i + 1].size - more,
                                 !.loc = list[i + 1].loc + more] = q
      <4>1. \A size, loc \in Nat :
               /\ [list[i + 1] EXCEPT !.size = size, !.loc = loc]
                     = PartitionInfo(list[i + 1].type, size, loc)
               /\ PartitionInfo(list[i + 1].type, size, loc) \in PartitionInfos
        BY <2>1, PartitionChanged
      <4> HIDE DEF q
      <4> QED BY <2>2, <3>2, <4>1, Zenon
    <3> QED BY <3>1, <3>3
  <2>4. t = [list EXCEPT ![i] = p, ![i + 1] = q]
    BY <1>1, <1>3, <2>1, <2>3 DEF Grown
  <2>5. /\ p.type = list[i].type /\ p.size = list[i].size + more
        /\ p.loc = list[i].loc /\ q.type = list[i + 1].type
        /\ q.size = list[i + 1].size - more /\ q.loc = list[i + 1].loc + more
    BY <1>1, <2>2 DEF PartitionInfo
  <2> HIDE DEF more, t, p, q
  <2>6. /\ u \in Seq(PartitionInfos) /\ Len(u) = Len(list)
        /\ \A j \in 1 .. Len(list) : u[j] = IF j = i THEN p ELSE list[j]
    BY <1>1, <2>1, <2>3, ExceptSeq
  <2>7. t = [u EXCEPT ![i + 1] = q]
    BY <2>4
  <2> HIDE DEF u
  <2>8. /\ t \in Seq(PartitionInfos) /\ Len(t) = Len(list)
        /\ \A j \in 1 .. Len(list) : t[j] = IF j = i + 1 THEN q ELSE u[j]
    BY <1>1, <2>3, <2>6, <2>7, ExceptSeq
  <2>9. /\ \A j \in 1 .. Len(list) : t[j] = IF j = i THEN p ELSE
                                            IF j = i + 1 THEN q ELSE list[j]
    BY <1>1, <2>6, <2>8
  <2>10. \A j \in 1 .. Len(list) :
            /\ t[j].loc = IF j = i + 1 THEN list[j].loc + more ELSE list[j].loc
            /\ t[j].size = IF j = i THEN list[j].size + more
                           ELSE IF j = i + 1 THEN list[j].size - more
                           ELSE list[j].size
            /\ t[j].type = list[j].type
    BY <1>1, <2>5, <2>9
  <2>11. Tiles(t, driveSize)
    BY <1>1, <2>1, <2>2, <2>8, <2>10, TilesMoved
  <2>12. /\ t # <<>> /\ t[1] = list[1] /\ t[2] = list[2] /\ Len(t) >= 3
         /\ \A j \in 3 .. Len(t) : Editable(t[j])
    <3>1. t[1] = list[1] /\ t[2] = list[2]
      <4>1. /\ 1 \in 1 .. Len(list) /\ 1 # i /\ 1 # i + 1
            /\ 2 \in 1 .. Len(list) /\ 2 # i /\ 2 # i + 1
        BY <1>1
      <4> QED BY <2>9, <4>1
    <3>2. \A j \in 3 .. Len(t) : Editable(t[j])
      BY <2>1, <2>8, <2>10 DEF Editable
    <3> QED BY <1>1, <2>8, <3>1, <3>2
  <2>13. Formed(t)
    BY <2>1, <2>8, <2>11, <2>12 DEF Formed, WellFormed
  <2>14. Keeps(list, t, {i})
    BY <1>1, <2>8, <2>9 DEF Keeps
  <2>15. Apart(list, {}) => Apart(t, {})
    <3>1. \A j \in 1 .. (Len(list) - 1) : j \in 1 .. Len(list) /\ j + 1 \in 1 .. Len(list)
      BY <1>1
    <3> QED BY <2>8, <2>10, <3>1 DEF Apart
  <2> QED BY <2>13, <2>14, <2>15 DEF t
<1> QED BY <1>2, <1>3

-----------------------------------------------------------------------------
(* The inductive invariant.  The table on the disk was the list once, and   *)
(* becomes it again.                                                        *)
Neat(list) == Apart(list, {}) /\ NoneEmpty(list)

(* What no step disturbs: a list is neat until a partition has had the size *)
(* zero, the saved one too, for it may be loaded again.                     *)
Inv ==
    /\ TypeOK
    /\ WellFormed(partitionList) /\ WellFormed(saved)
    /\ emptied \/ (Neat(partitionList) /\ Neat(saved))

LEMMA ChangeProperties ==
    ASSUME Inv, NEW i \in DOMAIN partitionList,
           \/ DeletePartition(i)
           \/ \E size \in Sizes : \/ CreatePartition(i, size)
                                  \/ ShrinkPartition(i, size)
                                  \/ GrowPartition(i, size)
    PROVE  /\ Formed(partitionList')
           /\ Keeps(partitionList, partitionList', {i})
           /\ Apart(partitionList, {}) /\ NoneEmpty(partitionList)
                 => Apart(partitionList', {})
           /\ UNCHANGED <<present, signature, saved, pc>>
<1> DEFINE list == partitionList
<1>1. Formed(list)
  BY EmptySeq DEF Inv, TypeOK, Formed
<1>2. /\ i \in 1 .. Len(list) /\ Len(list) \in Nat /\ list[i].size \in Nat
      /\ Editable(list[i]) => i \in 3 .. Len(list)
      /\ list[i].type = "Undefined" => i \in 3 .. Len(list)
  BY <1>1, FormedParts
<1>3. CASE DeletePartition(i)
  <2>1. /\ i \in 3 .. Len(list) /\ list' = Deleted(list, i)
        /\ UNCHANGED <<present, signature, saved, pc>>
    BY <1>2, <1>3 DEF DeletePartition, ChangeList, disk
  <2>2. /\ Formed(list') /\ Keeps(list, list', {i})
        /\ /\ Apart(list, {i - 1, i}) /\ list[i].size # 0
           /\ \A j \in {i + 1} \cap 1 .. Len(list) : list[j].size # 0
           => Apart(list', {})
    BY <1>1, <2>1, DeletedProperties
  <2>3. Apart(list, {}) /\ NoneEmpty(list) =>
           /\ Apart(list, {i - 1, i}) /\ list[i].size # 0
           /\ \A j \in {i + 1} \cap 1 .. Len(list) : list[j].size # 0
    BY <1>2 DEF Apart, NoneEmpty
  <2> QED BY <2>1, <2>2, <2>3
<1>4. ASSUME NEW size \in Sizes, CreatePartition(i, size)
      PROVE  /\ Formed(list') /\ Keeps(list, list', {i})
             /\ Apart(list, {}) /\ NoneEmpty(list) => Apart(list', {})
             /\ UNCHANGED <<present, signature, saved, pc>>
  <2> DEFINE m == [list EXCEPT ![i].type = "Normal"]
             p == PartitionInfo("Normal", list[i].size, list[i].loc)
  <2>1. /\ i \in 3 .. Len(list) /\ size \in Nat /\ size <= list[i].size
        /\ list' = IF size = list[i].size THEN m ELSE Shrunk(m, i, size)
        /\ UNCHANGED <<present, signature, saved, pc>>
    BY <1>2, <1>4, MrapsAssumption DEF CreatePartition, ChangeList, disk
  <2>2. /\ Formed(m) /\ Len(m) = Len(list)
        /\ \A j \in 1 .. Len(list) : m[j] = IF j = i THEN p ELSE list[j]
    BY <1>1, <2>1, Retyped
  <2>3. p.type = "Normal" /\ p.size = list[i].size
    BY DEF PartitionInfo
  <2> HIDE DEF m, p
  <2>4. m[i] = p /\ \A j \in (1 .. Len(list)) \ {i} : m[j] = list[j]
    BY <1>2, <2>2
  <2>5. Apart(list, {}) => Apart(m, {})
    <3>1. \A j \in 1 .. (Len(list) - 1) : j \in 1 .. Len(list) /\ j + 1 \in 1 .. Len(list)
      BY <1>2
    <3> QED BY <2>2, <2>3, <2>4, <3>1 DEF Apart
  <2>6. NoneEmpty(list) => NoneEmpty(m)
    BY <2>2, <2>3, <2>4 DEF NoneEmpty
  <2>7. CASE size = list[i].size
    BY <2>1, <2>2, <2>4, <2>5, <2>7 DEF Keeps
  <2>8. CASE size # list[i].size
    <3>1. size < m[i].size /\ i \in 3 .. Len(m) /\ list' = Shrunk(m, i, size)
      BY <1>2, <2>1, <2>2, <2>3, <2>4, <2>8
    <3>2. /\ Formed(list') /\ Keeps(m, list', {i})
          /\ Apart(m, {}) /\ NoneEmpty(m) => Apart(list', {})
      BY <2>1, <2>2, <3>1, ShrunkProperties
    <3>3. Keeps(list, list', {i})
      BY <2>2, <2>4, <3>2 DEF Keeps
    <3> QED BY <2>1, <2>5, <2>6, <3>2, <3>3
  <2> QED BY <2>7, <2>8
<1>5. ASSUME NEW size \in Sizes, ShrinkPartition(i, size)
      PROVE  /\ Formed(list') /\ Keeps(list, list', {i})
             /\ Apart(list, {}) /\ NoneEmpty(list) => Apart(list', {})
             /\ UNCHANGED <<present, signature, saved, pc>>
  <2>1. /\ i \in 3 .. Len(list) /\ size \in Nat /\ size < list[i].size
        /\ list' = Shrunk(list, i, size)
        /\ UNCHANGED <<present, signature, saved, pc>>
    BY <1>2, <1>5, MrapsAssumption DEF ShrinkPartition, ChangeList, disk
  <2> QED BY <1>1, <2>1, ShrunkProperties
<1>6. ASSUME NEW size \in Sizes, GrowPartition(i, size)
      PROVE  /\ Formed(list') /\ Keeps(list, list', {i})
             /\ Apart(list, {}) => Apart(list', {})
             /\ UNCHANGED <<present, signature, saved, pc>>
  <2>1. /\ i \in 3 .. Len(list) /\ size \in Nat /\ size > list[i].size
        /\ IsUndefinedAt(list, i + 1) /\ size - list[i].size <= list[i + 1].size
        /\ list' = Grown(list, i, size)
        /\ UNCHANGED <<present, signature, saved, pc>>
    BY <1>2, <1>6, MrapsAssumption DEF GrowPartition, ChangeList, disk
  <2> QED BY <1>1, <2>1, GrownProperties
<1> QED BY <1>3, <1>4, <1>5, <1>6

LEMMA InitialListOK ==
    ASSUME driveSize >= 20 * SectorSize
    PROVE  Formed(InitialList) /\ Apart(InitialList, {})
<1> DEFINE a == PartitionInfo("Boot", SectorSize, 0)
           b == PartitionInfo("PartitionData", 19 * SectorSize, SectorSize)
           c == PartitionInfo("Undefined", driveSize - 20 * SectorSize,
                              20 * SectorSize)
<1>1. /\ SectorSize \in Nat /\ driveSize \in Nat /\ 19 * SectorSize \in Nat
      /\ 20 * SectorSize \in Nat /\ driveSize - 20 * SectorSize \in Nat
  BY MrapsAssumption
<1>2. a \in PartitionInfos /\ b \in PartitionInfos /\ c \in PartitionInfos
  BY <1>1 DEF PartitionInfo, PartitionInfos, Types
<1>3. /\ a.type = "Boot" /\ a.size = SectorSize /\ a.loc = 0
      /\ b.type = "PartitionData" /\ b.size = 19 * SectorSize /\ b.loc = SectorSize
      /\ c.type = "Undefined" /\ c.size = driveSize - 20 * SectorSize
      /\ c.loc = 20 * SectorSize
  BY DEF PartitionInfo
<1>4. InitialList = <<a, b, c>>
  BY DEF InitialList
<1> HIDE DEF a, b, c
<1>5. /\ InitialList \in Seq(PartitionInfos) /\ Len(InitialList) = 3
      /\ InitialList[1] = a /\ InitialList[2] = b /\ InitialList[3] = c
      /\ InitialList # <<>>
  BY <1>2, <1>4
<1>6. Tiles(InitialList, driveSize)
  <2>1. \A j \in 1 .. (3 - 1) : j = 1 \/ j = 2
    OBVIOUS
  <2> QED BY <1>1, <1>3, <1>5, <2>1 DEF Tiles
<1>7. \A j \in 3 .. 3 : InitialList[j] = c
  BY <1>5
<1>8. Formed(InitialList)
  BY <1>3, <1>5, <1>6, <1>7 DEF Formed, WellFormed, Editable
<1>9. Apart(InitialList, {})
  <2>1. \A j \in 1 .. (3 - 1) : j = 1 \/ j = 2
    OBVIOUS
  <2> QED BY <1>3, <1>5, <2>1 DEF Apart
<1> QED BY <1>8, <1>9

LEMMA EmptyOK ==
    /\ <<>> \in Seq(PartitionInfos) /\ WellFormed(<<>>)
    /\ Apart(<<>>, {}) /\ NoneEmpty(<<>>)
<1>1. <<>> \in Seq(PartitionInfos) /\ Len(<<>>) = 0
  OBVIOUS
<1> QED BY <1>1 DEF WellFormed, Apart, NoneEmpty

LEMMA InitInv == Init => Inv
  BY EmptyOK DEF Init, Inv, TypeOK, Neat

(* A step keeps both lists well formed.                                     *)
LEMMA NextFormed ==
    ASSUME Inv, Step
    PROVE  /\ present' \in BOOLEAN /\ signature' \in BOOLEAN
           /\ pc' \in {"idle", "signature", "table"}
           /\ partitionList' \in Seq(PartitionInfos) /\ WellFormed(partitionList')
           /\ saved' \in Seq(PartitionInfos) /\ WellFormed(saved')
<1>1. /\ present \in BOOLEAN /\ signature \in BOOLEAN
      /\ pc \in {"idle", "signature", "table"}
      /\ partitionList \in Seq(PartitionInfos) /\ WellFormed(partitionList)
      /\ saved \in Seq(PartitionInfos) /\ WellFormed(saved)
  BY DEF Inv, TypeOK
<1>2. CASE ChangePartitions
  <2>1. PICK i \in DOMAIN partitionList :
           \/ DeletePartition(i)
           \/ \E size \in Sizes : \/ CreatePartition(i, size)
                                  \/ ShrinkPartition(i, size)
                                  \/ GrowPartition(i, size)
    BY <1>2 DEF ChangePartitions
  <2>2. /\ Formed(partitionList')
        /\ UNCHANGED <<present, signature, saved, pc>>
    BY <2>1, ChangeProperties
  <2> QED BY <1>1, <2>2 DEF Formed
<1>3. CASE InitAndSavePartitionTable
  <2>1. /\ partitionList' = InitialList /\ pc' \in {"idle", "signature"}
        /\ UNCHANGED <<present, signature, saved>>
        /\ driveSize >= 20 * SectorSize
    BY <1>3 DEF InitAndSavePartitionTable, disk
  <2>2. Formed(InitialList)
    BY <2>1, InitialListOK
  <2> QED BY <1>1, <2>1, <2>2 DEF Formed
<1>4. CASE SavePartitionTable
  BY <1>1, <1>4 DEF SavePartitionTable, disk
<1>5. ASSUME NEW ok \in DiskOutcomes, WriteSignature(ok) \/ WriteTable(ok)
      PROVE  /\ UNCHANGED <<present, partitionList>>
             /\ signature' \in BOOLEAN /\ saved' \in {saved, partitionList}
             /\ pc' \in {"idle", "table"}
  BY <1>1, <1>5, MrapsAssumption DEF WriteSignature, WriteTable
<1>6. CASE \E ok \in DiskOutcomes : WriteSignature(ok) \/ WriteTable(ok)
  BY <1>1, <1>5, <1>6
<1>7. CASE Crash \/ \E ok \in DiskOutcomes : Attach(ok) \/ LoadPartitionTable(ok)
  <2>1. /\ UNCHANGED <<signature, saved>> /\ present' \in BOOLEAN
        /\ pc' \in {"idle", "signature", "table"}
        /\ partitionList' \in {saved, <<>>}
    BY <1>1, <1>7 DEF Crash, Attach, LoadPartitionTable, Loaded, disk
  <2> QED BY <1>1, <2>1, EmptyOK
<1> QED BY <1>2, <1>3, <1>4, <1>6, <1>7 DEF Step

(* While no partition has had the size zero, a step keeps them neat.        *)
LEMMA NextNeat ==
    ASSUME Inv, Step, Neat(partitionList), Neat(saved),
           \A i \in DOMAIN partitionList' : partitionList'[i].size # 0
    PROVE  Neat(partitionList') /\ Neat(saved')
<1>1. DOMAIN partitionList' = 1 .. Len(partitionList')
  BY NextFormed, LenProperties
<1>2. NoneEmpty(partitionList')
  BY <1>1 DEF NoneEmpty
<1>3. CASE ChangePartitions
  <2>1. PICK i \in DOMAIN partitionList :
           \/ DeletePartition(i)
           \/ \E size \in Sizes : \/ CreatePartition(i, size)
                                  \/ ShrinkPartition(i, size)
                                  \/ GrowPartition(i, size)
    BY <1>3 DEF ChangePartitions
  <2>2. Apart(partitionList', {}) /\ saved' = saved
    BY <2>1, ChangeProperties DEF Neat
  <2> QED BY <1>2, <2>2 DEF Neat
<1>4. CASE InitAndSavePartitionTable
  <2>1. /\ partitionList' = InitialList /\ saved' = saved
        /\ driveSize >= 20 * SectorSize
    BY <1>4 DEF InitAndSavePartitionTable, disk
  <2>2. Apart(InitialList, {})
    BY <2>1, InitialListOK
  <2> QED BY <1>2, <2>1, <2>2 DEF Neat
<1>5. CASE SavePartitionTable
  BY <1>5 DEF SavePartitionTable, disk
<1>6. CASE \E ok \in DiskOutcomes : WriteSignature(ok) \/ WriteTable(ok)
  BY <1>6 DEF WriteSignature, WriteTable
<1>7. CASE Crash \/ \E ok \in DiskOutcomes : Attach(ok) \/ LoadPartitionTable(ok)
  <2>1. saved' = saved /\ partitionList' \in {saved, <<>>}
    BY <1>7 DEF Crash, Attach, LoadPartitionTable, Loaded, disk
  <2> QED BY <2>1, EmptyOK DEF Neat
<1> QED BY <1>3, <1>4, <1>5, <1>6, <1>7 DEF Step

LEMMA NextInv == Inv /\ [Next]_vars => Inv'
<1> SUFFICES ASSUME Inv, [Next]_vars PROVE Inv'
  OBVIOUS
<1>1. CASE UNCHANGED vars
  BY <1>1 DEF Inv, TypeOK, vars
<1>2. CASE Next
  <2>1. Step /\ emptied' \in BOOLEAN
    BY <1>2 DEF Next
  <2>2. ASSUME ~emptied' PROVE Neat(partitionList') /\ Neat(saved')
    <3>1. ~emptied /\ \A i \in DOMAIN partitionList' : partitionList'[i].size # 0
      BY <1>2, <2>2 DEF Next
    <3>2. Neat(partitionList) /\ Neat(saved)
      BY <3>1 DEF Inv
    <3> QED BY <2>1, <3>1, <3>2, NextNeat
  <2>3. TypeOK' /\ WellFormed(partitionList)' /\ WellFormed(saved)'
    BY <2>1, NextFormed DEF TypeOK
  <2>4. emptied' \/ (Neat(partitionList') /\ Neat(saved'))
    BY <2>2
  <2> QED BY <2>3, <2>4, Zenon DEF Inv
<1> QED BY <1>1, <1>2

(* Whatever is changed, refused or cut off by a loss of power, the list in  *)
(* memory and the one on the disk stay formed: the inductive invariant.     *)
THEOREM AlwaysInv == Spec => []Inv
<1> QED BY InitInv, NextInv, PTL DEF Spec

(* Whatever sequence of creations, resizings and deletions, saved or lost   *)
(* in a crash (mrapsPartitionInterface.cpp), the partitions of the list and *)
(* of the table on the disk cover the drive without gap or overlap, the     *)
(* first two are in their places, and undefined neighbours are combined     *)
(* unless there was an empty partition.                                     *)
THEOREM AlwaysPartitionsTile == Spec => []PartitionsTile
<1>1. ASSUME Inv PROVE PartitionsTile
  <2>1. DOMAIN partitionList = 1 .. Len(partitionList) /\ Len(partitionList) \in Nat
    BY <1>1, LenProperties DEF Inv, TypeOK
  <2>2. Apart(partitionList, {}) => UndefinedCombined
    BY <2>1 DEF Apart, UndefinedCombined, IsUndefinedAt
  <2> QED BY <1>1, <2>2, Zenon DEF Inv, Neat, PartitionsTile
<1> QED BY <1>1, AlwaysInv, PTL

(* A command that changes one partition leaves every other partition in use *)
(* where and as large as it is.                                             *)
THEOREM AlwaysOthersUntouched == Spec => OthersUntouched
<1> DEFINE Untouched ==
              ChangePartitions =>
                 \E i \in DOMAIN partitionList :
                    \A j \in DOMAIN partitionList \ {i} :
                       partitionList[j].type # "Undefined" =>
                          \E k \in DOMAIN partitionList' :
                             partitionList'[k] = partitionList[j]
<1>1. ASSUME Inv, [Next]_vars PROVE [Untouched]_vars
  <2> SUFFICES ASSUME ChangePartitions
               PROVE  \E i \in DOMAIN partitionList :
                         \A j \in DOMAIN partitionList \ {i} :
                            partitionList[j].type # "Undefined" =>
                               \E k \in DOMAIN partitionList' :
                                  partitionList'[k] = partitionList[j]
    OBVIOUS
  <2>1. PICK i \in DOMAIN partitionList :
           \/ DeletePartition(i)
           \/ \E size \in Sizes : \/ CreatePartition(i, size)
                                  \/ ShrinkPartition(i, size)
                                  \/ GrowPartition(i, size)
    BY DEF ChangePartitions
  <2>2. Formed(partitionList') /\ Keeps(partitionList, partitionList', {i})
    BY <1>1, <2>1, ChangeProperties
  <2>3. /\ DOMAIN partitionList' = 1 .. Len(partitionList')
        /\ DOMAIN partitionList = 1 .. Len(partitionList)
    BY <1>1, <2>2, FormedParts, LenProperties DEF Inv, TypeOK
  <2> QED BY <2>2, <2>3 DEF Keeps
<1>2. Inv /\ [Next]_vars => [Untouched]_vars
  BY <1>1
<1> HIDE DEF Untouched
<1>3. Spec => [][Untouched]_vars
  BY <1>2, AlwaysInv, PTL DEF Spec
<1> QED BY <1>3 DEF OthersUntouched, Untouched

-----------------------------------------------------------------------------
(* Bytes of a drive.                                                        *)

-----------------------------------------------------------------------------
(* Division with a remainder, and what is multiplied by a sector.           *)

LEMMA Quotient ==
    ASSUME NEW x \in Nat, NEW d \in Nat \ {0}
    PROVE  /\ x \div d \in Nat /\ x % d \in 0 .. (d - 1)
           /\ x = (x \div d) * d + (x % d)
<1> DEFINE q == x \div d
           r == x - q * d
<1>1. q \in Nat /\ q * d <= x /\ x < q * d + d
  OBVIOUS
<1>2. q * d \in Nat
  BY <1>1
<1>3. r \in 0 .. (d - 1) /\ x = q * d + r
  BY <1>1, <1>2
<1> HIDE DEF q, r
<1>4. x % d = r
  BY <1>1, <1>3
<1> QED BY <1>1, <1>3, <1>4 DEF q

LEMMA QuotientIs ==
    ASSUME NEW q \in Nat, NEW d \in Nat \ {0}, NEW r \in 0 .. (d - 1)
    PROVE  (q * d + r) \div d = q /\ (q * d + r) % d = r
  OBVIOUS

LEMMA TimesOrder ==
    ASSUME NEW a \in Int, NEW b \in Int
    PROVE  /\ a * SectorLen \in Int
           /\ (a + b) * SectorLen = a * SectorLen + b * SectorLen
           /\ (a - b) * SectorLen = a * SectorLen - b * SectorLen
           /\ a <= b => a * SectorLen <= b * SectorLen
           /\ a < b <=> a * SectorLen < b * SectorLen
           /\ a = b <=> a * SectorLen = b * SectorLen
           /\ a < b => a * SectorLen + SectorLen <= b * SectorLen
           /\ a >= 0 => a * SectorLen >= 0
<1>1. SectorLen \in Nat /\ SectorLen > 0
  BY DiskAssumption
<1> QED BY <1>1

LEMMA ConstantTypes ==
    /\ SectorLen \in Nat /\ SectorLen > 0 /\ ChunkLen \in Nat /\ ChunkLen > 0
    /\ SectorCount \in Nat /\ SectorCount > 0
    /\ FullCount \in Nat /\ FullCount > 0 /\ MaxWrites \in Nat
    /\ Size \in Nat /\ Size = SectorCount * SectorLen
<1>1. /\ SectorLen \in Nat /\ SectorLen > 0 /\ ChunkLen \in Nat /\ ChunkLen > 0
      /\ SectorCount \in Nat /\ SectorCount > 0
      /\ FullCount \in Nat /\ FullCount > 0 /\ MaxWrites \in Nat
  BY DiskAssumption
<1>2. SectorCount * SectorLen \in Nat
  BY <1>1
<1> QED BY <1>1, <1>2 DEF Size

(* What the code takes for a range of the drive is one.                     *)
LEMMA InBoundsSize ==
    ASSUME NEW from \in Nat, NEW count \in Nat, InBounds(from, count)
    PROVE  from + count <= Size
<1> DEFINE q == Size \div Span
           m == Size % Span
<1>1. Size \in Nat /\ Span \in Nat \ {0}
  BY ConstantTypes, DiskAssumption
<1>2. q \in Nat /\ m \in 0 .. (Span - 1) /\ Size = q * Span + m
  BY <1>1, Quotient
<1>3. from + count <= m
  BY DEF InBounds
<1> HIDE DEF q, m
<1>4. q * Span \in Nat
  BY <1>1, <1>2
<1> QED BY <1>1, <1>2, <1>3, <1>4

(* The sectors of a range: its first, and the one its end lies in.          *)
LEMMA Sectors ==
    ASSUME NEW from \in Nat, NEW count \in Nat
    PROVE  LET F == from \div SectorLen
               E == (from + count) \div SectorLen
               n == SectorsOf(from, count)
           IN  /\ F \in Nat /\ E \in Nat /\ n \in Nat /\ F <= E
               /\ F + n \in Nat
               /\ from % SectorLen \in 0 .. (SectorLen - 1)
               /\ from = F * SectorLen + (from % SectorLen)
               /\ (from + count) % SectorLen \in 0 .. (SectorLen - 1)
               /\ from + count = E * SectorLen + ((from + count) % SectorLen)
               /\ count = 0 \/ n > 0
               /\ F + n = IF (from + count) % SectorLen = 0 THEN E ELSE E + 1
               /\ (F + n) * SectorLen >= from + count
               /\ (F + n - 1) * SectorLen < from + count \/ n = 0
<1> DEFINE S == SectorLen
           F == from \div S
           E == (from + count) \div S
           r == (from + count) % S
           n == SectorsOf(from, count)
<1>1. S \in Nat \ {0}
  BY ConstantTypes
<1>2. /\ F \in Nat /\ from % S \in 0 .. (S - 1) /\ from = F * S + (from % S)
  BY <1>1, Quotient
<1>3. /\ E \in Nat /\ r \in 0 .. (S - 1) /\ from + count = E * S + r
  <2>1. from + count \in Nat
    OBVIOUS
  <2> QED BY <1>1, <2>1, Quotient
<1>4. n = (from + count + S - 1) \div S - F
  BY DEF SectorsOf
<1> HIDE DEF F, E, r, n
<1>5. (from + count + S - 1) \div S = IF r = 0 THEN E ELSE E + 1
  <2>1. CASE r = 0
    <3>1. from + count + S - 1 = E * S + (S - 1) /\ S - 1 \in 0 .. (S - 1)
      BY <1>1, <1>3, <2>1
    <3>2. (E * S + (S - 1)) \div S = E
      BY <1>1, <1>3, <3>1, QuotientIs
    <3> QED BY <2>1, <3>1, <3>2
  <2>2. CASE r # 0
    <3>1. (E + 1) * S = E * S + S
      BY <1>1, <1>3
    <3>2. /\ from + count + S - 1 = (E + 1) * S + (r - 1)
          /\ r - 1 \in 0 .. (S - 1) /\ E + 1 \in Nat
      BY <1>1, <1>3, <2>2, <3>1
    <3>3. ((E + 1) * S + (r - 1)) \div S = E + 1
      BY <1>1, <3>2, QuotientIs
    <3> QED BY <2>2, <3>2, <3>3
  <2> QED BY <2>1, <2>2
<1>6. F <= E
  <2> SUFFICES ASSUME E < F PROVE FALSE
    BY <1>2, <1>3
  <2>1. E * S + S <= F * S
    BY <1>2, <1>3, TimesOrder
  <2> QED BY <1>1, <1>2, <1>3, <2>1
<1>7. F + n = IF r = 0 THEN E ELSE E + 1
  BY <1>2, <1>3, <1>4, <1>5
<1>8. n \in Nat /\ F + n \in Nat
  BY <1>2, <1>3, <1>4, <1>5, <1>6
<1>9. count = 0 \/ n > 0
  <2> SUFFICES ASSUME n = 0 PROVE count = 0
    BY <1>8
  <2>1. E = F /\ r = 0
    BY <1>2, <1>3, <1>6, <1>7
  <2> QED BY <1>1, <1>2, <1>3, <2>1
<1>10. (F + n) * S >= from + count
  <2>1. (E + 1) * S = E * S + S
    BY <1>1, <1>3
  <2> QED BY <1>1, <1>3, <1>7, <2>1
<1>11. (F + n - 1) * S < from + count \/ n = 0
  <2>1. (E - 1) * S = E * S - S
    BY <1>1, <1>3
  <2>2. CASE r = 0
    <3>1. F + n - 1 = E - 1
      BY <1>2, <1>3, <1>7, <1>8, <2>2
    <3> QED BY <1>1, <1>3, <2>1, <2>2, <3>1
  <2>3. CASE r # 0
    <3>1. F + n - 1 = E
      BY <1>2, <1>3, <1>7, <1>8, <2>3
    <3> QED BY <1>1, <1>3, <2>3, <3>1
  <2> QED BY <2>2, <2>3
<1> QED BY <1>2, <1>3, <1>6, <1>7, <1>8, <1>9, <1>10, <1>11 DEF F, E, r, n

-----------------------------------------------------------------------------
(* The first sector of the call, and the sector that its end lies in.       *)
firstSector == call.from \div SectorLen
endSector == (call.from + call.count) \div SectorLen

(* The bytes from lo up to hi, hi left out, are those of this call.         *)
Stored(lo, hi) == \A b \in lo .. (hi - 1) : drive[b] = <<writes, b>>

(* A transfer began with the sector first, and went on by whole pages.      *)
WholePages(first) == sector >= first /\ (sector - first) % ChunkLen = 0

(* The sectors from the first up to the next are in the buffer.             *)
Fetched ==
    LET n == SectorsOf(call.from, call.count)
    IN  /\ sector + left = firstSector + n
        /\ at = sector * SectorLen - firstSector * SectorLen
        /\ DOMAIN buf = 0 .. (n * SectorLen - 1)
        /\ \A i \in 0 .. (at - 1) : buf[i] = drive[firstSector * SectorLen + i]

InRead ==
    /\ call.op = "ReadBytes" /\ InBounds(call.from, call.count)
    /\ WholePages(firstSector)
    /\ Fetched

InFirst ==
    /\ call.op = "WriteBytes" /\ InBounds(call.from, call.count)
    /\ sector = firstSector /\ left = 1
    /\ step = "firstBack" => buf = FirstMerged

(* The first sector has been written back.                                  *)
InLast ==
    /\ call.op = "WriteBytes" /\ InBounds(call.from, call.count)
    /\ ~OneSector /\ sector = endSector /\ left = 1
    /\ Stored(call.from, firstSector * SectorLen + SectorLen)
    /\ step = "lastBack" => buf = LastMerged

(* The last sector too, and those in between up to the next; or all from    *)
(* the first, when whole sectors are written.                               *)
InMiddle ==
    /\ sector + left = endSector
    /\ at = sector * SectorLen - call.from
    /\ Stored(call.from, sector * SectorLen)
    /\ \/ /\ call.op = "WriteBytes" /\ ~OneSector /\ MiddleCount # 0
          /\ InBounds(call.from, call.count) /\ call.from + call.count < Size
          /\ WholePages(firstSector + 1)
          /\ Stored(endSector * SectorLen, call.from + call.count)
       \/ /\ call.op = "Write"
          /\ offset = 0 /\ lastCount = 0
          /\ WholePages(firstSector)

Progress ==
    /\ ~Ended => (call.count # 0 \/ call.op = "Write") /\ fault = FALSE
    /\ step = "read" => InRead
    /\ step \in {"first", "firstBack"} => InFirst
    /\ step \in {"last", "lastBack"} => InLast
    /\ step = "middle" => InMiddle

(* The whole range has been read, or written.                               *)
Complete ==
    IF call.op = "ReadBytes"
    THEN \A i \in 0 .. (call.count - 1) :
            i + offset \in DOMAIN buf /\ buf[i + offset] = drive[call.from + i]
    ELSE Stored(call.from, call.from + call.count)

(* FailsOnlyForCause, but for its last clause.                              *)
Cause ==
    \/ fault
    \/ call.op = "Write" /\ call.from + call.count > Size
    \/ call.op # "Write" /\ ~InBounds(call.from, call.count)
    \/ /\ Transferred # 0 \/ call.op = "Write"
       /\ Transferred % ChunkLen = 0
       /\ Behind + FullCount > SectorCount
    \/ call.op = "WriteBytes" /\ ~OneSector /\ call.from + call.count = Size

Explained ==
    step \in {"ok", "failed"} /\ (call.count # 0 \/ call.op = "Write") =>
        (step = "failed" <=> Cause)

(* What no step disturbs.                                                   *)
DriveInv == DriveTypeOK /\ Explained /\ Progress

-----------------------------------------------------------------------------
(* What the sectors of the call are, for the steps below.                   *)
LEMMA CallFacts ==
    ASSUME DriveTypeOK
    PROVE  /\ call.from \in 0 .. Size /\ call.count \in Nat
           /\ firstSector \in Nat /\ endSector \in Nat
           /\ firstSector <= endSector
           /\ offset \in 0 .. (SectorLen - 1) /\ lastCount \in 0 .. (SectorLen - 1)
           /\ firstSector * SectorLen \in Nat /\ endSector * SectorLen \in Nat
           /\ call.from = firstSector * SectorLen + offset
           /\ call.from + call.count = endSector * SectorLen + lastCount
<1>1. call.from \in 0 .. Size /\ call.count \in Nat
  BY DEF DriveTypeOK
<1>2. call.from \in Nat
  BY <1>1, ConstantTypes
<1>3. /\ firstSector \in Nat /\ endSector \in Nat
      /\ firstSector <= endSector
      /\ offset \in 0 .. (SectorLen - 1) /\ lastCount \in 0 .. (SectorLen - 1)
      /\ call.from = firstSector * SectorLen + offset
      /\ call.from + call.count = endSector * SectorLen + lastCount
  BY <1>1, <1>2, Sectors DEF firstSector, endSector, offset, lastCount
<1>4. firstSector * SectorLen \in Nat /\ endSector * SectorLen \in Nat
  BY <1>3, ConstantTypes
<1> QED BY <1>1, <1>3, <1>4

LEMMA CallSectors ==
    ASSUME DriveTypeOK
    PROVE  LET n == SectorsOf(call.from, call.count)
           IN  /\ n \in Nat /\ n * SectorLen \in Nat
               /\ call.count # 0 => n > 0
               /\ firstSector + n = IF lastCount = 0 THEN endSector
                                    ELSE endSector + 1
               /\ offset + call.count <= n * SectorLen
               /\ InBounds(call.from, call.count) =>
                     firstSector + n <= SectorCount
<1> DEFINE n == SectorsOf(call.from, call.count)
<1>1. /\ call.from \in Nat /\ call.count \in Nat /\ firstSector \in Nat
      /\ endSector \in Nat /\ lastCount \in 0 .. (SectorLen - 1)
      /\ call.from = firstSector * SectorLen + offset
      /\ offset \in Int /\ firstSector * SectorLen \in Nat
  BY CallFacts, ConstantTypes
<1>2. /\ n \in Nat /\ (call.count # 0 => n > 0)
      /\ firstSector + n = IF lastCount = 0 THEN endSector ELSE endSector + 1
      /\ (firstSector + n) * SectorLen >= call.from + call.count
      /\ (firstSector + n - 1) * SectorLen < call.from + call.count \/ n = 0
  BY <1>1, Sectors DEF firstSector, endSector, lastCount
<1> HIDE DEF n
<1>3. n * SectorLen \in Nat
      /\ (firstSector + n) * SectorLen = firstSector * SectorLen + n * SectorLen
  BY <1>1, <1>2, ConstantTypes, TimesOrder
<1>4. offset + call.count <= n * SectorLen
  BY <1>1, <1>2, <1>3
<1>5. ASSUME InBounds(call.from, call.count) PROVE firstSector + n <= SectorCount
  <2>1. call.from + call.count <= SectorCount * SectorLen
    BY <1>1, <1>5, ConstantTypes, InBoundsSize
  <2>2. CASE n = 0
    <3>1. firstSector * SectorLen <= SectorCount * SectorLen
      BY <1>1, <2>1, ConstantTypes, CallFacts
    <3> QED BY <1>1, <2>2, <3>1, ConstantTypes, TimesOrder
  <2>3. CASE n # 0
    <3>1. (firstSector + n - 1) * SectorLen < SectorCount * SectorLen
      <4>1. (firstSector + n - 1) * SectorLen \in Int
            /\ SectorCount * SectorLen \in Int
        BY <1>1, <1>2, ConstantTypes
      <4> QED BY <1>1, <1>2, <2>1, <2>3, <4>1
    <3>2. firstSector + n - 1 < SectorCount
      BY <1>1, <1>2, <3>1, ConstantTypes, TimesOrder
    <3> QED BY <1>1, <1>2, <3>2, ConstantTypes
  <2> QED BY <2>2, <2>3
<1> QED BY <1>2, <1>3, <1>4, <1>5 DEF n

LEMMA CallInOneSector ==
    ASSUME DriveTypeOK, OneSector
    PROVE  offset + call.count <= SectorLen
<1>1. 1 * SectorLen = SectorLen
  BY ConstantTypes
<1> QED BY <1>1, CallSectors DEF OneSector

LEMMA CallInMoreSectors ==
    ASSUME DriveTypeOK, ~OneSector, call.count # 0
    PROVE  /\ endSector >= firstSector + 1
           /\ firstSector * SectorLen + SectorLen < call.from + call.count
           /\ (firstSector + 1) * SectorLen
                 = firstSector * SectorLen + SectorLen
           /\ endSector * SectorLen >= firstSector * SectorLen + SectorLen
           /\ MiddleCount = endSector - (firstSector + 1)
           /\ (call.from + SectorLen - offset) \div SectorLen = firstSector + 1
<1> DEFINE n == SectorsOf(call.from, call.count)
<1>1. /\ call.from \in Nat /\ call.count \in Nat /\ firstSector \in Nat
      /\ endSector \in Nat /\ lastCount \in 0 .. (SectorLen - 1)
      /\ offset \in 0 .. (SectorLen - 1)
      /\ call.from = firstSector * SectorLen + offset
      /\ call.from + call.count = endSector * SectorLen + lastCount
      /\ firstSector * SectorLen \in Nat /\ endSector * SectorLen \in Nat
      /\ SectorLen \in Nat /\ SectorLen > 0
  BY CallFacts, ConstantTypes
<1>2. /\ n \in Nat /\ n > 1
      /\ firstSector + n = IF lastCount = 0 THEN endSector ELSE endSector + 1
  BY CallSectors DEF OneSector
<1> HIDE DEF n
<1>3. endSector >= firstSector + 1 /\ (lastCount = 0 => endSector >= firstSector + 2)
  BY <1>1, <1>2
<1>4. (firstSector + 1) * SectorLen = firstSector * SectorLen + SectorLen
  BY <1>1
<1>5. endSector * SectorLen >= firstSector * SectorLen + SectorLen
  BY <1>1, <1>3, <1>4, TimesOrder
<1>6. firstSector * SectorLen + SectorLen < call.from + call.count
  <2>1. CASE lastCount # 0
    BY <1>1, <1>5, <2>1
  <2>2. CASE lastCount = 0
    <3>1. firstSector + 1 < endSector
      BY <1>1, <1>3, <2>2
    <3>2. (firstSector + 1) * SectorLen < endSector * SectorLen
      BY <1>1, <3>1, TimesOrder
    <3> QED BY <1>1, <1>4, <2>2, <3>2
  <2> QED BY <2>1, <2>2
<1>7. MiddleCount = endSector - (firstSector + 1)
  <2> DEFINE m == endSector - (firstSector + 1)
  <2>1. m \in Nat /\ 0 \in 0 .. (SectorLen - 1)
    BY <1>1, <1>3
  <2>2. m * SectorLen = endSector * SectorLen - (firstSector + 1) * SectorLen
    BY <1>1, TimesOrder
  <2> HIDE DEF m
  <2>3. call.count - (SectorLen - offset) - lastCount = m * SectorLen + 0
    BY <1>1, <1>4, <2>1, <2>2
  <2>4. (m * SectorLen + 0) \div SectorLen = m
    BY <1>1, <2>1, QuotientIs
  <2>5. MiddleCount = m
    BY <2>3, <2>4 DEF MiddleCount
  <2> QED BY <2>5 DEF m
<1>8. (call.from + SectorLen - offset) \div SectorLen = firstSector + 1
  <2>1. firstSector + 1 \in Nat /\ 0 \in 0 .. (SectorLen - 1)
    BY <1>1
  <2>2. call.from + SectorLen - offset = (firstSector + 1) * SectorLen + 0
    BY <1>1, <1>4, <2>1
  <2>3. ((firstSector + 1) * SectorLen + 0) \div SectorLen = firstSector + 1
    BY <1>1, <2>1, QuotientIs
  <2> QED BY <2>2, <2>3
<1> QED BY <1>3, <1>4, <1>5, <1>6, <1>7, <1>8

(* A sector of the drive holds bytes of the drive.                          *)
LEMMA SectorInDrive ==
    ASSUME NEW q \in Nat, NEW n \in Nat, q + n <= SectorCount
    PROVE  /\ q * SectorLen \in Nat /\ n * SectorLen \in Nat
           /\ q * SectorLen + n * SectorLen <= Size
           /\ \A b \in 0 .. (n * SectorLen - 1) : q * SectorLen + b \in Bytes
<1>1. q * SectorLen \in Nat /\ n * SectorLen \in Nat /\ Size \in Nat
  BY ConstantTypes
<1>2. (q + n) * SectorLen <= SectorCount * SectorLen
  BY ConstantTypes, TimesOrder
<1>3. q * SectorLen + n * SectorLen <= Size
  BY <1>2, ConstantTypes, TimesOrder
<1> QED BY <1>1, <1>3 DEF Bytes

-----------------------------------------------------------------------------
(* The three parts of the invariant.                                        *)
LEMMA InvParts == DriveInv <=> DriveTypeOK /\ Explained /\ Progress
  BY Zenon DEF DriveInv

LEMMA InvPartsPrimed == DriveTypeOK' /\ Explained' /\ Progress' => DriveInv'
  BY InvParts, PTL

(* What depends on the call alone.                                          *)
LEMMA CallKept ==
    ASSUME call' = call
    PROVE  /\ firstSector' = firstSector /\ endSector' = endSector
           /\ offset' = offset /\ lastCount' = lastCount
           /\ OneSector' <=> OneSector
           /\ MiddleCount' = MiddleCount /\ Transferred' = Transferred
           /\ Behind' = Behind
  BY DEF firstSector, endSector, offset, lastCount, OneSector, MiddleCount, Transferred,
         Behind

LEMMA PagesNext ==
    ASSUME DriveTypeOK, NEW first \in Nat, WholePages(first),
           sector' = sector + ChunkLen
    PROVE  WholePages(first)'
<1> DEFINE x == sector - first
           q == x \div ChunkLen
<1>1. /\ sector \in Nat /\ x \in Nat /\ x % ChunkLen = 0
      /\ ChunkLen \in Nat \ {0} /\ sector >= first
  BY ConstantTypes DEF DriveTypeOK, WholePages
<1>2. q \in Nat /\ x = q * ChunkLen + 0
  BY <1>1, Quotient
<1> HIDE DEF q
<1>3. (q + 1) * ChunkLen = q * ChunkLen + ChunkLen
  BY <1>1, <1>2
<1>4. q + 1 \in Nat /\ 0 \in 0 .. (ChunkLen - 1)
  BY <1>1, <1>2
<1>5. ((q + 1) * ChunkLen + 0) % ChunkLen = 0
  BY <1>1, <1>4, QuotientIs
<1>6. sector' - first = (q + 1) * ChunkLen + 0
  BY <1>1, <1>2, <1>3
<1>7. (sector' - first) % ChunkLen = 0
  BY <1>5, <1>6
<1> QED BY <1>1, <1>7 DEF WholePages

(* A transfer asks for nothing in the end just when it had whole pages.     *)
LEMMA PagesRemainder ==
    ASSUME DriveTypeOK, NEW first \in Nat, WholePages(first), left < ChunkLen
    PROVE  (sector + left - first) % ChunkLen = left
<1> DEFINE x == sector - first
           q == x \div ChunkLen
<1>1. /\ sector \in Nat /\ x \in Nat /\ x % ChunkLen = 0
      /\ ChunkLen \in Nat \ {0} /\ left \in 0 .. (ChunkLen - 1)
  BY ConstantTypes DEF DriveTypeOK, WholePages
<1>2. q \in Nat /\ x = q * ChunkLen + 0
  BY <1>1, Quotient
<1> HIDE DEF q
<1>3. (q * ChunkLen + left) % ChunkLen = left
  BY <1>1, <1>2, QuotientIs
<1>4. sector + left - first = q * ChunkLen + left
  BY <1>1, <1>2
<1> QED BY <1>3, <1>4

(* The drive has the sectors of a command that it accepts.                  *)
LEMMA CommandFacts ==
    ASSUME DriveTypeOK
    PROVE  /\ Command \in Nat /\ Command <= left
           /\ left >= ChunkLen => Command = ChunkLen
           /\ left < ChunkLen => Command = left
           /\ Accepted => sector + Command <= SectorCount
           /\ left > 0 => (Accepted <=> sector + Command <= SectorCount)
           /\ left = 0 => (Accepted <=> sector + FullCount <= SectorCount)
           /\ Command > 0 <=> left > 0
<1>1. left \in Nat /\ sector \in Nat
  BY DEF DriveTypeOK
<1>2. /\ Command \in Nat /\ Command <= left
      /\ left >= ChunkLen => Command = ChunkLen
      /\ left < ChunkLen => Command = left
      /\ Command > 0 <=> left > 0
  BY <1>1, ConstantTypes DEF Command
<1>3. /\ Accepted => sector + Command <= SectorCount
      /\ left > 0 => (Accepted <=> sector + Command <= SectorCount)
      /\ left = 0 => (Accepted <=> sector + FullCount <= SectorCount)
  BY <1>1, <1>2, ConstantTypes DEF Accepted, Asked
<1> QED BY <1>2, <1>3

-----------------------------------------------------------------------------
(* A call begins.                                                           *)

LEMMA ReadBytesStep ==
    ASSUME DriveInv, NEW from \in Bytes, NEW count \in 0 .. (Size - from + 1),
           ReadBytes(from, count)
    PROVE  DriveInv'
<1> DEFINE n == SectorsOf(from, count)
           F == from \div SectorLen
<1>1. /\ DriveTypeOK /\ from \in Nat /\ from <= Size /\ count \in Nat
      /\ SectorLen \in Nat /\ ChunkLen \in Nat \ {0}
  BY InvParts, ConstantTypes DEF Bytes
<1>2. /\ call' = [op |-> "ReadBytes", from |-> from, count |-> count]
      /\ step' = IF count = 0 THEN "ok"
               ELSE IF InBounds(from, count) THEN "read" ELSE "failed"
      /\ sector' = F /\ left' = n /\ at' = 0
      /\ buf' = [i \in 0 .. (n * SectorLen - 1) |-> Zero]
      /\ fault' = FALSE /\ UNCHANGED <<drive, writes, overrun>>
  BY DEF ReadBytes, StartTransfer
<1>3. n \in Nat /\ F \in Nat /\ F * SectorLen \in Nat
  <2>1. n \in Nat /\ F \in Nat
    BY <1>1, Sectors
  <2> HIDE DEF F
  <2> QED BY <1>1, <2>1
<1>4. /\ call'.op = "ReadBytes" /\ call'.from = from /\ call'.count = count
      /\ firstSector' = F /\ SectorsOf(call.from, call.count)' = n
      /\ InBounds(call.from, call.count)' <=> InBounds(from, count)
  BY <1>2 DEF firstSector
<1> HIDE DEF n, F
<1>5. DriveTypeOK'
  <2>1. \A i \in DOMAIN buf' : buf'[i] \in Values
    BY <1>2 DEF Values
  <2>2. step' \in {"ok", "read", "failed"}
    BY <1>2
  <2>3. call' \in [op : {"ReadBytes", "WriteBytes", "Write"},
                   from : 0 .. Size, count : Nat]
    BY <1>1, <1>2
  <2> QED BY <1>1, <1>2, <1>3, <2>1, <2>2, <2>3 DEF DriveTypeOK
<1>6. Explained'
  <2>1. step' = "ok" => count = 0
    BY <1>2
  <2>2. step' = "failed" => ~InBounds(call.from, call.count)'
    BY <1>2, <1>4
  <2>3. step' = "failed" => Cause'
    BY <1>4, <2>2 DEF Cause
  <2> QED BY <1>4, <2>1, <2>3 DEF Explained
<1>7. ASSUME step' = "read" PROVE InRead'
  <2>1. InBounds(from, count)
    BY <1>2, <1>7
  <2>2. WholePages(firstSector)'
    BY <1>1, <1>2, <1>3, <1>4 DEF WholePages
  <2>3. at' = sector' * SectorLen - firstSector' * SectorLen
    BY <1>2, <1>3, <1>4
  <2> QED BY <1>2, <1>3, <1>4, <2>1, <2>2, <2>3 DEF InRead, Fetched
<1>8. Progress'
  BY <1>2, <1>4, <1>7 DEF Progress, Ended
<1> QED BY <1>5, <1>6, <1>8, InvPartsPrimed

LEMMA WriteBytesStep ==
    ASSUME DriveInv, NEW from \in Bytes, NEW count \in 0 .. (Size - from + 1),
           WriteBytes(from, count)
    PROVE  DriveInv'
<1> DEFINE F == from \div SectorLen
<1>1. /\ DriveTypeOK /\ from \in Nat /\ from <= Size /\ count \in Nat
      /\ SectorLen \in Nat \ {0}
  BY InvParts, ConstantTypes DEF Bytes
<1>2. /\ call' = [op |-> "WriteBytes", from |-> from, count |-> count]
      /\ writes < MaxWrites /\ writes' = writes + 1
      /\ step' = IF count = 0 THEN "ok"
               ELSE IF InBounds(from, count) THEN "first" ELSE "failed"
      /\ sector' = F /\ left' = 1 /\ at' = 0
      /\ buf' = [i \in SectorBytes |-> Zero]
      /\ fault' = FALSE /\ drive' = drive /\ overrun' = overrun
  BY DEF WriteBytes, StartTransfer
<1>3. F \in Nat
  BY <1>1, Sectors
<1>4. /\ call'.op = "WriteBytes" /\ call'.from = from /\ call'.count = count
      /\ firstSector' = F
      /\ InBounds(call.from, call.count)' <=> InBounds(from, count)
  BY <1>2 DEF firstSector
<1> HIDE DEF F
<1>5. DriveTypeOK'
  <2>1. \A i \in DOMAIN buf' : buf'[i] \in Values
    BY <1>2 DEF Values
  <2>2. step' \in {"ok", "first", "failed"}
    BY <1>2
  <2>3. call' \in [op : {"ReadBytes", "WriteBytes", "Write"},
                   from : 0 .. Size, count : Nat]
    BY <1>1, <1>2
  <2>4. /\ drive' \in [Bytes -> Values] /\ writes' \in 0 .. MaxWrites
        /\ fault' \in BOOLEAN /\ overrun' \in BOOLEAN
    <3>1. /\ drive \in [Bytes -> Values] /\ writes \in 0 .. MaxWrites
          /\ overrun \in BOOLEAN
      BY <1>1 DEF DriveTypeOK
    <3>2. fault' \in BOOLEAN
      BY <1>2
    <3>3. writes' \in 0 .. MaxWrites
      BY <1>2, <3>1, ConstantTypes
    <3> QED BY <1>2, <3>1, <3>2, <3>3
  <2> QED BY <1>2, <1>3, <2>1, <2>2, <2>3, <2>4 DEF DriveTypeOK
<1>6. Explained'
  <2>1. step' = "ok" => count = 0
    BY <1>2
  <2>2. step' = "failed" => ~InBounds(call.from, call.count)'
    BY <1>2, <1>4
  <2>3. step' = "failed" => Cause'
    BY <1>4, <2>2 DEF Cause
  <2> QED BY <1>4, <2>1, <2>3 DEF Explained
<1>7. Progress'
  BY <1>2, <1>4 DEF Progress, Ended, InFirst
<1> QED BY <1>5, <1>6, <1>7, InvPartsPrimed

LEMMA WriteSectorsStep ==
    ASSUME DriveInv, NEW first \in 0 .. (SectorCount - 1),
           NEW n \in 0 .. (SectorCount - first + 1), WriteSectors(first, n)
    PROVE  DriveInv'
<1>1. /\ DriveTypeOK /\ first \in Nat /\ first < SectorCount /\ n \in Nat
      /\ SectorLen \in Nat \ {0} /\ ChunkLen \in Nat \ {0}
  BY InvParts, ConstantTypes
<1>2. /\ call' = [op |-> "Write", from |-> first * SectorLen, count |-> n * SectorLen]
      /\ writes < MaxWrites /\ writes' = writes + 1
      /\ step' = "middle"
      /\ sector' = first /\ left' = n /\ at' = 0
      /\ buf' = <<>> /\ fault' = FALSE /\ drive' = drive /\ overrun' = overrun
  BY DEF WriteSectors, StartTransfer
<1>3. first * SectorLen \in Nat /\ n * SectorLen \in Nat
  BY <1>1
<1>4. first * SectorLen <= Size
  BY <1>1, ConstantTypes, TimesOrder
<1>5. /\ call'.op = "Write" /\ call'.from = first * SectorLen
      /\ call'.count = n * SectorLen
  BY <1>2
<1>6. firstSector' = first /\ offset' = 0
  <2>1. 0 \in 0 .. (SectorLen - 1) /\ first * SectorLen + 0 = first * SectorLen
    BY <1>1, <1>3
  <2>2. /\ (first * SectorLen + 0) \div SectorLen = first
        /\ (first * SectorLen + 0) % SectorLen = 0
    BY <1>1, <2>1, QuotientIs
  <2> QED BY <1>5, <2>1, <2>2 DEF firstSector, offset
<1>7. endSector' = first + n /\ lastCount' = 0
  <2>1. /\ 0 \in 0 .. (SectorLen - 1) /\ first + n \in Nat
        /\ (first + n) * SectorLen = first * SectorLen + n * SectorLen
    BY <1>1, TimesOrder
  <2>2. first * SectorLen + n * SectorLen = (first + n) * SectorLen + 0
    BY <1>3, <2>1
  <2>3. /\ ((first + n) * SectorLen + 0) \div SectorLen = first + n
        /\ ((first + n) * SectorLen + 0) % SectorLen = 0
    BY <1>1, <2>1, QuotientIs
  <2> QED BY <1>5, <2>2, <2>3 DEF endSector, lastCount
<1>8. DriveTypeOK'
  <2>1. \A i \in DOMAIN buf' : buf'[i] \in Values
    BY <1>2
  <2>2. step' = "middle"
    BY <1>2
  <2>3. call' \in [op : {"ReadBytes", "WriteBytes", "Write"},
                   from : 0 .. Size, count : Nat]
    BY <1>2, <1>3, <1>4, ConstantTypes
  <2>4. /\ drive' \in [Bytes -> Values] /\ writes' \in 0 .. MaxWrites
        /\ fault' \in BOOLEAN /\ overrun' \in BOOLEAN
    <3>1. /\ drive \in [Bytes -> Values] /\ writes \in 0 .. MaxWrites
          /\ overrun \in BOOLEAN
      BY <1>1 DEF DriveTypeOK
    <3>2. fault' \in BOOLEAN
      BY <1>2
    <3>3. writes' \in 0 .. MaxWrites
      BY <1>2, <3>1, ConstantTypes
    <3> QED BY <1>2, <3>1, <3>2, <3>3
  <2> QED BY <1>1, <1>2, <2>1, <2>2, <2>3, <2>4 DEF DriveTypeOK
<1>9. Explained'
  BY <1>2, <1>3, <1>5 DEF Explained
<1>10. ASSUME step' = "middle" PROVE InMiddle'
  <2>1. WholePages(firstSector)'
    BY <1>1, <1>2, <1>6 DEF WholePages
  <2>2. Stored(call.from, sector * SectorLen)'
    BY <1>2, <1>3, <1>5 DEF Stored
  <2>3. sector' + left' = endSector' /\ at' = sector' * SectorLen - call'.from
    BY <1>2, <1>3, <1>5, <1>7
  <2> QED BY <1>5, <1>6, <1>7, <2>1, <2>2, <2>3 DEF InMiddle
<1>11. Progress'
  BY <1>2, <1>3, <1>5, <1>10 DEF Progress, Ended
<1> QED BY <1>8, <1>9, <1>11, InvPartsPrimed

-----------------------------------------------------------------------------
(* One command of a transfer.                                               *)

(* Where the bytes of the next command lie.                                 *)
LEMMA CommandBytes ==
    ASSUME DriveTypeOK, Accepted
    PROVE  /\ sector * SectorLen \in Nat /\ Command * SectorLen \in Nat
           /\ (sector + Command) * SectorLen
                 = sector * SectorLen + Command * SectorLen
           /\ \A b \in 0 .. (Command * SectorLen - 1) :
                 sector * SectorLen + b \in Bytes
<1>1. sector \in Nat /\ Command \in Nat /\ sector + Command <= SectorCount
  BY CommandFacts DEF DriveTypeOK
<1>2. (sector + Command) * SectorLen
         = sector * SectorLen + Command * SectorLen
  BY <1>1, TimesOrder
<1> HIDE DEF Command
<1> QED BY <1>1, <1>2, SectorInDrive

LEMMA ReadChunkStep ==
    ASSUME DriveInv, ReadChunk
    PROVE  DriveInv' /\ (step' = "ok" => Complete')
<1> DEFINE n == SectorsOf(call.from, call.count)
           c == Command
<1>1. /\ DriveTypeOK /\ Progress /\ step = "read" /\ Accepted
      /\ drive \in [Bytes -> Values] /\ sector \in Nat /\ left \in Nat /\ at \in Nat
      /\ \A i \in DOMAIN buf : buf[i] \in Values
      /\ SectorLen \in Nat \ {0} /\ ChunkLen \in Nat \ {0}
  BY InvParts, ConstantTypes DEF ReadChunk, DriveTypeOK
<1>2. /\ buf' = [i \in DOMAIN buf |->
                   IF i - at \in 0 .. (c * SectorLen - 1)
                   THEN drive[sector * SectorLen + i - at] ELSE buf[i]]
      /\ sector' = sector + c /\ left' = left - c
      /\ at' = at + c * SectorLen
      /\ step' = IF left >= ChunkLen THEN "read" ELSE "ok"
      /\ UNCHANGED <<drive, call, writes, fault>> /\ overrun' \in BOOLEAN
  BY DEF ReadChunk, NextCommand
<1>3. InRead /\ fault = FALSE
  BY <1>1 DEF Progress, Ended
<1>4. /\ call.op = "ReadBytes" /\ InBounds(call.from, call.count)
      /\ WholePages(firstSector) /\ sector >= firstSector
      /\ sector + left = firstSector + n
      /\ at = sector * SectorLen - firstSector * SectorLen
      /\ DOMAIN buf = 0 .. (n * SectorLen - 1)
      /\ \A i \in 0 .. (at - 1) : buf[i] = drive[firstSector * SectorLen + i]
  BY <1>3 DEF InRead, Fetched, WholePages
<1>5. /\ n \in Nat /\ n * SectorLen \in Nat /\ firstSector \in Nat
      /\ firstSector * SectorLen \in Nat
  BY <1>1, CallFacts, CallSectors
<1>6. /\ c \in Nat /\ c <= left
      /\ left >= ChunkLen => c = ChunkLen
      /\ left < ChunkLen => c = left
  BY <1>1, CommandFacts
<1>7. /\ sector * SectorLen \in Nat /\ c * SectorLen \in Nat
      /\ (sector + c) * SectorLen = sector * SectorLen + c * SectorLen
      /\ \A b \in 0 .. (c * SectorLen - 1) : sector * SectorLen + b \in Bytes
  BY <1>1, CommandBytes
<1>8. n' = n /\ firstSector' = firstSector
  BY <1>2, CallKept
<1> HIDE DEF n, c
<1>9. DriveTypeOK'
  <2>1. ASSUME NEW i \in DOMAIN buf' PROVE buf'[i] \in Values
    <3>1. i \in DOMAIN buf /\ i \in Int
      BY <1>2, <1>4
    <3>2. CASE i - at \in 0 .. (c * SectorLen - 1)
      <4>1. sector * SectorLen + (i - at) \in Bytes
        BY <1>7, <3>2
      <4>2. sector * SectorLen + (i - at) = sector * SectorLen + i - at
        BY <1>1, <1>7, <3>1
      <4> QED BY <1>1, <1>2, <3>1, <3>2, <4>1, <4>2
    <3> QED BY <1>1, <1>2, <3>1, <3>2
  <2>2. sector' \in Nat /\ left' \in Nat /\ at' \in Nat
    BY <1>1, <1>2, <1>6, <1>7
  <2> QED BY <1>1, <1>2, <2>1, <2>2 DEF DriveTypeOK
<1>10. Fetched'
  <2>3. sector' + left' = firstSector + n
    BY <1>1, <1>2, <1>4, <1>5, <1>6
  <2>4. at' = sector' * SectorLen - firstSector * SectorLen
    BY <1>2, <1>4, <1>5, <1>7
  <2>5. DOMAIN buf' = 0 .. (n * SectorLen - 1)
    BY <1>2, <1>4
  <2>6. at' <= n * SectorLen
    <3>1. sector' <= firstSector + n
      BY <1>1, <1>2, <1>4, <1>5, <1>6
    <3>2. sector' * SectorLen <= firstSector * SectorLen + n * SectorLen
      BY <1>1, <1>2, <1>5, <1>6, <3>1, TimesOrder
    <3>3. sector' * SectorLen = sector * SectorLen + c * SectorLen
      BY <1>2, <1>7
    <3> QED BY <1>1, <1>5, <1>7, <2>4, <3>2, <3>3
  <2>7. ASSUME NEW i \in 0 .. (at' - 1)
        PROVE  buf'[i] = drive'[firstSector * SectorLen + i]
    <3>1. i \in DOMAIN buf /\ i \in Nat /\ i < at + c * SectorLen
      BY <1>1, <1>2, <1>4, <1>5, <1>7, <2>6
    <3>2. CASE i < at
      <4>1. ~(i - at \in 0 .. (c * SectorLen - 1))
        BY <1>1, <1>7, <3>1, <3>2
      <4>2. i \in 0 .. (at - 1)
        BY <1>1, <3>1, <3>2
      <4> QED BY <1>2, <1>4, <3>1, <4>1, <4>2
    <3>3. CASE i >= at
      <4>1. i - at \in 0 .. (c * SectorLen - 1)
        BY <1>1, <1>7, <3>1, <3>3
      <4>2. sector * SectorLen + i - at = firstSector * SectorLen + i
        BY <1>1, <1>4, <1>5, <1>7, <3>1
      <4> QED BY <1>2, <3>1, <4>1, <4>2
    <3> QED BY <1>1, <3>1, <3>2, <3>3
  <2> QED BY <1>2, <1>8, <2>3, <2>4, <2>5, <2>7 DEF Fetched, n
<1>11. ASSUME left >= ChunkLen PROVE InRead'
  <2>1. sector' = sector + ChunkLen
    BY <1>2, <1>6, <1>11
  <2>2. WholePages(firstSector)'
    <3>1. WholePages(firstSector)' <=>
             sector' >= firstSector /\ (sector' - firstSector) % ChunkLen = 0
      BY <1>8 DEF WholePages
    <3>2. sector' >= firstSector
      BY <1>1, <1>4, <1>5, <2>1
    <3>3. (sector' - firstSector) % ChunkLen = 0
      BY <1>1, <1>4, <1>5, <2>1, PagesNext DEF WholePages
    <3> QED BY <3>1, <3>2, <3>3
  <2> QED BY <1>2, <1>4, <1>10, <2>2 DEF InRead, InBounds, Size
<1>12. ASSUME left < ChunkLen PROVE Complete'
  <2>1. at' = n * SectorLen
    <3>1. sector' = firstSector + n
      BY <1>1, <1>2, <1>4, <1>5, <1>6, <1>12
    <3>2. sector' * SectorLen = firstSector * SectorLen + n * SectorLen
      BY <1>1, <1>5, <3>1, TimesOrder
    <3>3. at' = sector' * SectorLen - firstSector * SectorLen
      BY <1>8, <1>10 DEF Fetched
    <3> QED BY <1>5, <3>2, <3>3
  <2>2. /\ offset \in 0 .. (SectorLen - 1) /\ call.count \in Nat
        /\ call.from = firstSector * SectorLen + offset
        /\ offset + call.count <= n * SectorLen
    BY <1>1, CallFacts, CallSectors DEF n
  <2>3. ASSUME NEW i \in 0 .. (call.count - 1)
        PROVE  i + offset \in DOMAIN buf' /\ buf'[i + offset] = drive'[call.from + i]
    <3>1. i + offset \in 0 .. (n * SectorLen - 1)
      BY <1>1, <1>5, <2>2
    <3>2. firstSector * SectorLen + (i + offset) = call.from + i
      BY <1>1, <1>5, <2>2
    <3>3. /\ DOMAIN buf' = 0 .. (n * SectorLen - 1)
          /\ \A j \in 0 .. (n * SectorLen - 1) :
                buf'[j] = drive'[firstSector * SectorLen + j]
      BY <1>8, <1>10, <2>1 DEF Fetched, n
    <3> QED BY <3>1, <3>2, <3>3
  <2>4. offset' = offset
    BY <1>2, CallKept
  <2> QED BY <1>2, <1>4, <2>3, <2>4 DEF Complete
<1>13. ASSUME left < ChunkLen PROVE ~Cause'
  <2>1. ASSUME left > 0 PROVE n % ChunkLen # 0
    <3>1. (sector + left - firstSector) % ChunkLen = left
      BY <1>1, <1>4, <1>5, <1>13, PagesRemainder
    <3>2. sector + left - firstSector = n
      BY <1>1, <1>4, <1>5
    <3> QED BY <2>1, <3>1, <3>2
  <2>2. ASSUME left = 0 PROVE ~(firstSector + n + FullCount > SectorCount)
    <3>1. sector + FullCount <= SectorCount /\ sector = firstSector + n
      BY <1>1, <1>4, <1>5, <2>2, CommandFacts
    <3> QED BY <1>1, <1>5, <3>1, ConstantTypes
  <2>3. n % ChunkLen # 0 \/ ~(firstSector + n + FullCount > SectorCount)
    <3>1. left = 0 \/ left > 0
      BY <1>1
    <3> QED BY <2>1, <2>2, <3>1, Zenon
  <2>4. Transferred' = n /\ Behind' = firstSector + n
    BY <1>2, <1>4, <1>8 DEF Transferred, Behind, firstSector, n
  <2>5. InBounds(call.from, call.count)'
    BY <1>2, <1>4 DEF InBounds, Size
  <2> QED BY <1>2, <1>3, <1>4, <2>3, <2>4, <2>5 DEF Cause
<1>14. Explained'
  BY <1>1, <1>2, <1>13 DEF Explained
<1>15. Progress'
  BY <1>1, <1>2, <1>3, <1>11 DEF Progress, Ended
<1> QED BY <1>1, <1>2, <1>9, <1>14, <1>15, <1>12, InvPartsPrimed

LEMMA WriteChunkStep ==
    ASSUME DriveInv, WriteChunk, left > 0
    PROVE  DriveInv' /\ (step' = "ok" => Complete')
<1> DEFINE c == Command
           F == IF call.op = "Write" THEN firstSector ELSE firstSector + 1
<1>1. /\ DriveTypeOK /\ Progress /\ step = "middle" /\ Accepted
      /\ drive \in [Bytes -> Values] /\ writes \in 0 .. MaxWrites
      /\ sector \in Nat /\ left \in Nat /\ at \in Nat
      /\ SectorLen \in Nat \ {0} /\ ChunkLen \in Nat \ {0}
  BY InvParts, ConstantTypes DEF WriteChunk, DriveTypeOK
<1>2. /\ drive' = Overwritten(c)
      /\ sector' = sector + c /\ left' = left - c
      /\ at' = at + c * SectorLen
      /\ step' = IF left >= ChunkLen THEN "middle" ELSE "ok"
      /\ UNCHANGED <<call, writes, buf, fault>> /\ overrun' \in BOOLEAN
  <2>1. Command # 0
    BY <1>1, CommandFacts
  <2> QED BY <2>1 DEF WriteChunk, NextCommand
<1>3. /\ InMiddle /\ fault = FALSE
      /\ call.op = "WriteBytes" => call.count # 0
  BY <1>1 DEF Progress, Ended
<1>4. /\ sector + left = endSector
      /\ at = sector * SectorLen - call.from
      /\ Stored(call.from, sector * SectorLen)
      /\ WholePages(F)
      /\ \/ /\ call.op = "WriteBytes" /\ ~OneSector /\ MiddleCount # 0
            /\ InBounds(call.from, call.count) /\ call.from + call.count < Size
            /\ Stored(endSector * SectorLen, call.from + call.count)
         \/ call.op = "Write" /\ offset = 0 /\ lastCount = 0
  BY <1>3 DEF InMiddle
<1>5. /\ firstSector \in Nat /\ endSector \in Nat /\ F \in Nat /\ sector >= F
      /\ call.from \in Nat /\ call.count \in Nat /\ endSector * SectorLen \in Nat
      /\ call.from + call.count = endSector * SectorLen + lastCount
      /\ lastCount \in 0 .. (SectorLen - 1)
  BY <1>1, <1>4, CallFacts, ConstantTypes DEF WholePages
<1>6. /\ c \in Nat /\ c > 0 /\ c <= left
      /\ left >= ChunkLen => c = ChunkLen
      /\ left < ChunkLen => c = left
  BY <1>1, CommandFacts
<1>7. /\ sector * SectorLen \in Nat /\ c * SectorLen \in Nat
      /\ (sector + c) * SectorLen = sector * SectorLen + c * SectorLen
      /\ \A b \in 0 .. (c * SectorLen - 1) : sector * SectorLen + b \in Bytes
  BY <1>1, CommandBytes
<1>8. /\ firstSector' = firstSector /\ endSector' = endSector /\ F' = F
      /\ (OneSector' <=> OneSector) /\ offset' = offset /\ lastCount' = lastCount
      /\ Transferred' = Transferred /\ MiddleCount' = MiddleCount
  BY <1>2, CallKept
<1> HIDE DEF c, F
<1>9. \A b \in Bytes :
         drive'[b] = IF b - sector * SectorLen \in 0 .. (c * SectorLen - 1)
                    THEN <<writes, b>> ELSE drive[b]
  <2> SUFFICES ASSUME NEW b \in Bytes
               PROVE  drive'[b] = IF b - sector * SectorLen \in 0 .. (c * SectorLen - 1)
                                 THEN <<writes, b>> ELSE drive[b]
    OBVIOUS
  <2>1. call.from + (at + b - sector * SectorLen) = b
    <3>1. b \in Nat
      BY ConstantTypes DEF Bytes
    <3> QED BY <1>1, <1>4, <1>5, <1>7, <3>1
  <2> QED BY <1>2, <2>1 DEF Overwritten, Given
<1>10. DriveTypeOK'
  <2>1. drive' \in [Bytes -> Values]
    <3>1. DOMAIN drive' = Bytes /\ drive' = [b \in Bytes |-> drive'[b]]
      BY <1>2 DEF Overwritten
    <3>2. \A b \in Bytes : drive'[b] \in Values
      <4>1. \A b \in Bytes : <<writes, b>> \in Values /\ drive[b] \in Values
        BY <1>1 DEF Values
      <4> QED BY <1>9, <4>1
    <3> QED BY <3>1, <3>2
  <2>2. sector' \in Nat /\ left' \in Nat /\ at' \in Nat
    BY <1>1, <1>2, <1>6, <1>7
  <2> QED BY <1>1, <1>2, <2>1, <2>2 DEF DriveTypeOK
<1>11. sector' + left' = endSector /\ at' = sector' * SectorLen - call.from
  <2>1. sector' + left' = endSector
    BY <1>1, <1>2, <1>4, <1>5, <1>6
  <2>2. at' = sector' * SectorLen - call.from
    BY <1>1, <1>2, <1>4, <1>5, <1>7
  <2> QED BY <2>1, <2>2
<1>12. /\ sector' * SectorLen <= endSector * SectorLen
       /\ sector' * SectorLen = sector * SectorLen + c * SectorLen
  <2>1. sector' * SectorLen <= endSector * SectorLen
    BY <1>1, <1>2, <1>5, <1>6, <1>11, TimesOrder
  <2> QED BY <1>2, <1>7, <2>1
<1>13. \A b \in call.from .. (sector' * SectorLen - 1) : drive'[b] = <<writes', b>>
  <2> SUFFICES ASSUME NEW b \in call.from .. (sector' * SectorLen - 1)
               PROVE  drive'[b] = <<writes, b>>
    BY <1>2
  <2>1. b \in Int /\ b >= call.from /\ b < sector * SectorLen + c * SectorLen
    BY <1>5, <1>7, <1>12
  <2>2. CASE b >= sector * SectorLen
    <3>1. b - sector * SectorLen \in 0 .. (c * SectorLen - 1)
      BY <1>7, <2>1, <2>2
    <3>2. sector * SectorLen + (b - sector * SectorLen) \in Bytes
      BY <1>7, <3>1
    <3>3. b \in Bytes
      BY <1>7, <2>1, <3>2
    <3> QED BY <1>9, <3>1, <3>3
  <2>3. CASE b < sector * SectorLen
    <3>1. ~(b - sector * SectorLen \in 0 .. (c * SectorLen - 1))
      BY <1>7, <2>1, <2>3
    <3>2. b \in call.from .. (sector * SectorLen - 1)
      BY <1>5, <1>7, <2>1, <2>3
    <3>3. sector * SectorLen + 0 \in Bytes
      <4>1. 0 \in 0 .. (c * SectorLen - 1)
        <5>1. 0 * SectorLen < c * SectorLen
          BY <1>6, TimesOrder
        <5> QED BY <1>1, <1>7, <5>1
      <4> QED BY <1>7, <4>1
    <3>4. b \in Bytes
      BY <1>5, <1>7, <2>1, <2>3, <3>3, ConstantTypes DEF Bytes
    <3> QED BY <1>4, <1>9, <3>1, <3>2, <3>4 DEF Stored
  <2> QED BY <1>7, <2>1, <2>2, <2>3
<1>14. ASSUME call.op = "WriteBytes"
       PROVE  \A b \in (endSector * SectorLen) .. (call.from + call.count - 1) :
                 drive'[b] = <<writes', b>>
  <2> SUFFICES ASSUME NEW b \in (endSector * SectorLen) .. (call.from + call.count - 1)
               PROVE  drive'[b] = <<writes, b>>
    BY <1>2
  <2>1. /\ Stored(endSector * SectorLen, call.from + call.count)
        /\ call.from + call.count < Size
    BY <1>4, <1>14
  <2>2. b \in Bytes
    BY <1>5, <2>1, ConstantTypes DEF Bytes
  <2>3. ~(b - sector * SectorLen \in 0 .. (c * SectorLen - 1))
    BY <1>5, <1>7, <1>12
  <2>4. drive[b] = <<writes, b>>
    BY <1>1, <1>5, <2>1 DEF Stored
  <2> QED BY <1>9, <2>2, <2>3, <2>4
<1>15. Stored(call.from, sector * SectorLen)'
  BY <1>2, <1>13 DEF Stored
<1>16. ASSUME call.op = "WriteBytes"
       PROVE  Stored(endSector * SectorLen, call.from + call.count)'
  BY <1>1, <1>2, <1>5, <1>8, <1>14, <1>16 DEF Stored
<1>17. ASSUME left >= ChunkLen PROVE InMiddle'
  <2>1. sector' = sector + ChunkLen
    BY <1>2, <1>6, <1>17
  <2>2. sector' >= F /\ (sector' - F) % ChunkLen = 0
    BY <1>1, <1>4, <1>5, <2>1, PagesNext DEF WholePages
  <2>3. /\ (call.op = "WriteBytes" => WholePages(firstSector + 1)')
        /\ (call.op = "Write" => WholePages(firstSector)')
    BY <1>8, <2>2 DEF WholePages, F
  <2>4. CASE call.op = "WriteBytes"
    <3>1. /\ ~OneSector' /\ MiddleCount' # 0
          /\ Stored(endSector * SectorLen, call.from + call.count)'
          /\ call'.op = "WriteBytes" /\ call'.from + call'.count < Size
          /\ InBounds(call.from, call.count)'
      BY <1>2, <1>4, <1>8, <1>16, <2>4 DEF InBounds, Size
    <3> QED BY <1>2, <1>8, <1>11, <1>15, <2>3, <2>4, <3>1 DEF InMiddle
  <2>5. CASE call.op = "Write"
    <3>1. call'.op = "Write" /\ offset' = 0 /\ lastCount' = 0
      BY <1>2, <1>4, <1>8, <2>5
    <3> QED BY <1>2, <1>8, <1>11, <1>15, <2>3, <2>5, <3>1 DEF InMiddle
  <2> QED BY <1>4, <2>4, <2>5
<1>18. ASSUME left < ChunkLen PROVE Complete'
  <2>1. sector' = endSector
    BY <1>1, <1>2, <1>4, <1>5, <1>6, <1>18
  <2>2. \A b \in call.from .. (endSector * SectorLen - 1) : drive'[b] = <<writes', b>>
    BY <1>13, <2>1
  <2>3. CASE call.op = "WriteBytes"
    <3>1. \A b \in (endSector * SectorLen) .. (call.from + call.count - 1) :
             drive'[b] = <<writes', b>>
      BY <1>14, <2>3
    <3>2. \A b \in call.from .. (call.from + call.count - 1) : drive'[b] = <<writes', b>>
      BY <1>1, <1>5, <2>2, <3>1
    <3> QED BY <1>1, <1>2, <1>5, <2>3, <3>2 DEF Complete, Stored
  <2>4. CASE call.op = "Write"
    <3>1. call.from + call.count = endSector * SectorLen
      BY <1>1, <1>4, <1>5, <2>4
    <3> QED BY <1>1, <1>2, <1>5, <2>2, <2>4, <3>1 DEF Complete, Stored
  <2> QED BY <1>4, <2>3, <2>4
<1>19. ASSUME left < ChunkLen PROVE ~Cause'
  <2>1. (endSector - F) % ChunkLen # 0
    <3>1. (sector + left - F) % ChunkLen = left
      BY <1>1, <1>4, <1>5, <1>19, PagesRemainder
    <3>2. sector + left - F = endSector - F /\ left # 0
      BY <1>1, <1>4, <1>5, <1>6
    <3> QED BY <3>1, <3>2
  <2>2. Transferred = endSector - F
    <3>1. CASE call.op = "WriteBytes"
      <4>1. ~OneSector /\ MiddleCount = endSector - (firstSector + 1)
        BY <1>1, <1>3, <1>4, <3>1, CallInMoreSectors
      <4> QED BY <3>1, <4>1 DEF Transferred, F
    <3>2. CASE call.op = "Write"
      <4>1. lastCount = 0
        BY <1>4, <3>2
      <4>2. /\ SectorsOf(call.from, call.count) \in Nat
            /\ firstSector + SectorsOf(call.from, call.count) = endSector
        BY <1>1, <4>1, CallSectors
      <4>3. SectorsOf(call.from, call.count) = endSector - firstSector
        BY <1>5, <4>2
      <4> QED BY <3>2, <4>3 DEF Transferred, F
    <3> QED BY <1>4, <3>1, <3>2
  <2>3. /\ call.from + call.count <= Size
        /\ call.op = "WriteBytes" => /\ call.from + call.count # Size
                                    /\ InBounds(call.from, call.count)
    <3>1. CASE call.op = "WriteBytes"
      BY <1>4, <1>5, <3>1, ConstantTypes
    <3>2. CASE call.op = "Write"
      <4>1. endSector <= SectorCount
        BY <1>1, <1>4, <1>6, <1>19, CommandFacts DEF c
      <4>2. endSector * SectorLen <= Size
        BY <1>5, <4>1, ConstantTypes, TimesOrder
      <4> QED BY <1>4, <1>5, <3>2, <4>2, ConstantTypes
    <3> QED BY <1>4, <3>1, <3>2
  <2>4. /\ ~(call'.from + call'.count > Size)
        /\ call'.op = "WriteBytes" => /\ call'.from + call'.count # Size
                                     /\ InBounds(call.from, call.count)'
        /\ call'.op \in {"WriteBytes", "Write"}
    BY <1>2, <1>4, <1>5, <2>3, ConstantTypes DEF InBounds, Size
  <2>5. Transferred' % ChunkLen # 0
    BY <1>8, <2>1, <2>2
  <2> QED BY <1>2, <1>3, <2>4, <2>5 DEF Cause
<1>20. Explained'
  BY <1>1, <1>2, <1>19 DEF Explained
<1>21. Progress'
  BY <1>1, <1>2, <1>3, <1>17 DEF Progress, Ended
<1> QED BY <1>1, <1>2, <1>10, <1>20, <1>21, <1>18, InvPartsPrimed

(* What the drive writes for a command that asks it for no sectors.         *)
LEMMA TrampledTypes ==
    ASSUME DriveTypeOK, NEW d \in Trampled
    PROVE  d \in [Bytes -> Values]
<1>1. PICK n \in 0 .. FullCount :
         d = [b \in Bytes |-> IF b - sector * SectorLen \in 0 .. (n * SectorLen - 1)
                              THEN Zero ELSE drive[b]]
  BY DEF Trampled
<1>2. \A b \in Bytes : drive[b] \in Values /\ Zero \in Values
  BY DEF DriveTypeOK, Values
<1> QED BY <1>1, <1>2

LEMMA WriteNothingStep ==
    ASSUME DriveInv, WriteChunk, left = 0
    PROVE  DriveInv' /\ overrun' = TRUE
<1>1. /\ DriveTypeOK /\ Progress /\ step = "middle" /\ Accepted
      /\ sector \in Nat /\ at \in Nat
  BY InvParts DEF WriteChunk, DriveTypeOK
<1>2. Command = 0 /\ 0 < ChunkLen /\ sector + FullCount <= SectorCount
  BY <1>1, CommandFacts, ConstantTypes
<1>3. 0 * SectorLen = 0
  BY ConstantTypes
<1>4. /\ sector' = sector /\ left' = 0 /\ at' = at
      /\ step' = "ok" /\ overrun' = TRUE
      /\ drive' \in Trampled
      /\ UNCHANGED <<call, writes, buf, fault>>
  <2>1. /\ sector' = sector + Command /\ left' = left - Command
        /\ at' = at + Command * SectorLen
        /\ step' = IF left >= ChunkLen THEN "middle" ELSE "ok"
        /\ overrun' = (overrun \/ Command = 0)
        /\ drive' \in IF Command = 0 THEN Trampled ELSE {Overwritten(Command)}
        /\ UNCHANGED <<call, writes, buf, fault>>
    BY DEF WriteChunk, NextCommand
  <2>2. sector' = sector /\ left' = 0 /\ at' = at /\ step' = "ok"
    <3> HIDE DEF Command
    <3> QED BY <1>1, <1>2, <1>3, <2>1, ConstantTypes
  <2>3. drive' \in Trampled /\ overrun' = TRUE
    <3> HIDE DEF Command
    <3> QED BY <1>2, <2>1, Zenon
  <2> QED BY <2>1, <2>2, <2>3
<1>5. drive' \in [Bytes -> Values]
  BY <1>1, <1>4, TrampledTypes
<1>6. DriveTypeOK'
  BY <1>1, <1>4, <1>5 DEF DriveTypeOK
<1>7. /\ InMiddle /\ fault = FALSE /\ sector = endSector
      /\ endSector \in Nat /\ firstSector \in Nat
      /\ call.from \in Nat /\ call.count \in Nat /\ endSector * SectorLen \in Nat
      /\ call.from + call.count = endSector * SectorLen + lastCount
  BY <1>1, CallFacts, ConstantTypes DEF Progress, Ended, InMiddle
<1>8. ~(Behind + FullCount > SectorCount)
  <2>1. CASE call.op = "WriteBytes"
    <3>1. Behind = endSector
      BY <2>1 DEF Behind, endSector
    <3> QED BY <1>2, <1>7, <3>1, ConstantTypes
  <2>2. CASE call.op = "Write"
    <3>1. lastCount = 0
      BY <1>7, <2>2 DEF InMiddle
    <3>2. firstSector + SectorsOf(call.from, call.count) = endSector
      BY <1>1, <3>1, CallSectors
    <3>3. Behind = endSector
      BY <2>2, <3>2 DEF Behind, Transferred, firstSector
    <3> QED BY <1>2, <1>7, <3>3, ConstantTypes
  <2> QED BY <1>7, <2>1, <2>2 DEF InMiddle
<1>9. ~Cause'
  <2>1. CASE call.op = "WriteBytes"
    <3>1. InBounds(call.from, call.count)' /\ call'.from + call'.count # Size
      <4>1. InBounds(call.from, call.count) /\ call.from + call.count < Size
        BY <1>7, <2>1 DEF InMiddle
      <4>2. call.from + call.count # Size
        BY <1>7, <4>1, ConstantTypes
      <4> QED BY <1>4, <4>1, <4>2 DEF InBounds, Size
    <3> QED BY <1>4, <1>7, <1>8, <2>1, <3>1, CallKept DEF Cause
  <2>2. CASE call.op = "Write"
    <3>1. lastCount = 0 /\ endSector <= SectorCount
      BY <1>2, <1>7, <2>2, ConstantTypes DEF InMiddle
    <3>2. endSector * SectorLen <= Size
      BY <1>7, <3>1, ConstantTypes, TimesOrder
    <3>3. ~(call.from + call.count > Size)
      BY <1>7, <3>1, <3>2, ConstantTypes
    <3> QED BY <1>4, <1>7, <1>8, <2>2, <3>3, CallKept DEF Cause
  <2> QED BY <1>7, <2>1, <2>2 DEF InMiddle
<1>10. Explained' /\ Progress'
  BY <1>4, <1>9 DEF Explained, Progress, Ended
<1> QED BY <1>4, <1>6, <1>10, InvPartsPrimed

-----------------------------------------------------------------------------
(* The first and the last sector of a write of bytes.                       *)

(* Where the bytes of a single sector lie.                                  *)
LEMMA SectorBytesIn ==
    ASSUME NEW q \in Nat, q < SectorCount
    PROVE  /\ q * SectorLen \in Nat /\ q * SectorLen + SectorLen <= Size
           /\ \A b \in SectorBytes : q * SectorLen + b \in Bytes
<1>1. 1 * SectorLen = SectorLen /\ 1 \in Nat /\ q + 1 <= SectorCount
  BY ConstantTypes
<1> QED BY <1>1, SectorInDrive DEF SectorBytes

(* The first sector of a call within the bounds is one of the drive.        *)
LEMMA FirstAccepted ==
    ASSUME DriveTypeOK, InBounds(call.from, call.count), call.count # 0
    PROVE  firstSector < SectorCount
  BY CallSectors, CallFacts, ConstantTypes

(* The last one is, unless the call ends with the drive.                    *)
LEMMA LastAccepted ==
    ASSUME DriveTypeOK, InBounds(call.from, call.count)
    PROVE  endSector < SectorCount <=> call.from + call.count < Size
<1>1. /\ endSector \in Nat /\ endSector * SectorLen \in Nat
      /\ lastCount \in 0 .. (SectorLen - 1)
      /\ call.from + call.count = endSector * SectorLen + lastCount
      /\ call.from \in Nat /\ call.count \in Nat
      /\ call.from + call.count <= Size
      /\ SectorCount \in Nat /\ SectorLen \in Nat /\ Size \in Nat
      /\ Size = SectorCount * SectorLen
  BY CallFacts, ConstantTypes, InBoundsSize
<1>2. endSector < SectorCount => endSector * SectorLen + SectorLen <= Size
  BY <1>1, TimesOrder
<1>3. endSector >= SectorCount => endSector * SectorLen >= Size
  BY <1>1, TimesOrder
<1> QED BY <1>1, <1>2, <1>3

LEMMA WriteBackFacts ==
    ASSUME DriveTypeOK, DOMAIN buf = SectorBytes, sector < SectorCount,
           drive' = WrittenBack
    PROVE  /\ drive' \in [Bytes -> Values]
           /\ \A b \in Bytes :
                 drive'[b] = IF b - sector * SectorLen \in SectorBytes
                            THEN buf[b - sector * SectorLen] ELSE drive[b]
<1>1. /\ drive \in [Bytes -> Values] /\ sector \in Nat
      /\ \A i \in SectorBytes : buf[i] \in Values
  BY DEF DriveTypeOK
<1>2. \A b \in Bytes :
         drive'[b] = IF b - sector * SectorLen \in SectorBytes
                    THEN buf[b - sector * SectorLen] ELSE drive[b]
  BY DEF WrittenBack
<1>3. DOMAIN drive' = Bytes /\ drive' = [b \in Bytes |-> drive'[b]]
  BY DEF WrittenBack
<1>4. \A b \in Bytes : drive'[b] \in Values
  BY <1>1, <1>2
<1> QED BY <1>2, <1>3, <1>4

LEMMA ReadFirstStep == ASSUME DriveInv, ReadFirst PROVE DriveInv'
<1>1. /\ DriveTypeOK /\ Progress /\ step = "first"
      /\ drive \in [Bytes -> Values] /\ writes \in 0 .. MaxWrites
      /\ SectorLen \in Nat \ {0}
  BY InvParts, ConstantTypes DEF ReadFirst, DriveTypeOK
<1>2. /\ buf' = FirstMerged /\ step' = "firstBack"
      /\ UNCHANGED <<drive, call, writes, sector, left, at, fault, overrun>>
  BY DEF ReadFirst, transfer
<1>3. InFirst /\ fault = FALSE /\ call.count # 0
  BY <1>1 DEF Progress, Ended, InFirst
<1>4. /\ call.op = "WriteBytes" /\ InBounds(call.from, call.count)
      /\ sector = firstSector /\ left = 1
  BY <1>3 DEF InFirst
<1>5. /\ sector \in Nat /\ sector < SectorCount
      /\ offset \in 0 .. (SectorLen - 1) /\ sector * SectorLen \in Nat
      /\ call.from = sector * SectorLen + offset
  BY <1>1, <1>3, <1>4, CallFacts, FirstAccepted
<1>6. DriveTypeOK'
  <2>1. ASSUME NEW b \in SectorBytes PROVE buf'[b] \in Values
    <3>1. b \in Nat /\ sector * SectorLen + b \in Bytes
      BY <1>1, <1>5, SectorBytesIn DEF SectorBytes
    <3>2. CASE b >= offset /\ (OneSector => b < offset + call.count)
      <4>1. buf'[b] = <<writes, call.from + (b - offset)>>
        BY <1>2, <3>2 DEF FirstMerged, Given
      <4>2. call.from + (b - offset) = sector * SectorLen + b
        BY <1>1, <1>5, <3>1
      <4>3. <<writes, sector * SectorLen + b>> \in Values
        BY <1>1, <3>1 DEF Values
      <4> QED BY <4>1, <4>2, <4>3
    <3>3. CASE ~(b >= offset /\ (OneSector => b < offset + call.count))
      BY <1>1, <1>2, <3>1, <3>3 DEF FirstMerged
    <3> QED BY <3>2, <3>3
  <2>2. DOMAIN buf' = SectorBytes
    BY <1>2 DEF FirstMerged
  <2> QED BY <1>1, <1>2, <2>1, <2>2 DEF DriveTypeOK
<1>7. Explained'
  BY <1>2 DEF Explained
<1>8. FirstMerged' = FirstMerged
  BY <1>2 DEF FirstMerged, OneSector, offset, Given
<1>9. InFirst'
  BY <1>2, <1>4, <1>8, CallKept DEF InFirst, InBounds, Size
<1>10. Progress'
  BY <1>2, <1>3, <1>9 DEF Progress, Ended
<1> QED BY <1>6, <1>7, <1>10, InvPartsPrimed

LEMMA WriteFirstStep ==
    ASSUME DriveInv, WriteFirst
    PROVE  DriveInv' /\ (step' = "ok" => Complete')
<1>1. /\ DriveTypeOK /\ Progress /\ step = "firstBack"
      /\ writes \in 0 .. MaxWrites /\ SectorLen \in Nat \ {0}
  BY InvParts, ConstantTypes DEF WriteFirst, DriveTypeOK
<1>2. /\ drive' = WrittenBack
      /\ IF OneSector THEN step' = "ok" /\ UNCHANGED <<sector, left, at>>
         ELSE step' = "last" /\ sector' = endSector /\ left' = 1 /\ at' = 0
      /\ UNCHANGED <<call, writes, buf, fault, overrun>>
  BY DEF WriteFirst, transfer, StartTransfer, endSector
<1>3. InFirst /\ fault = FALSE /\ call.count # 0
  BY <1>1 DEF Progress, Ended, InFirst
<1>4. /\ call.op = "WriteBytes" /\ InBounds(call.from, call.count)
      /\ sector = firstSector /\ buf = FirstMerged
  BY <1>1, <1>3 DEF InFirst
<1>5. /\ sector \in Nat /\ sector < SectorCount
      /\ offset \in 0 .. (SectorLen - 1) /\ sector * SectorLen \in Nat
      /\ call.from = sector * SectorLen + offset
      /\ call.from \in Nat /\ call.count \in Nat /\ endSector \in Nat
  BY <1>1, <1>3, <1>4, CallFacts, FirstAccepted, ConstantTypes
<1>6. /\ drive' \in [Bytes -> Values]
      /\ \A b \in Bytes :
            drive'[b] = IF b - sector * SectorLen \in SectorBytes
                       THEN buf[b - sector * SectorLen] ELSE drive[b]
  <2>1. DOMAIN buf = SectorBytes
    BY <1>4 DEF FirstMerged
  <2> QED BY <1>1, <1>2, <1>5, <2>1, WriteBackFacts
<1>7. DriveTypeOK'
  BY <1>1, <1>2, <1>5, <1>6 DEF DriveTypeOK
<1>8. Explained'
  <2>1. CASE OneSector
    <3>1. Transferred' = 0 /\ OneSector'
      BY <1>2, <1>4, <2>1, CallKept DEF Transferred
    <3>2. InBounds(call.from, call.count)'
      BY <1>2, <1>4 DEF InBounds, Size
    <3>3. ~Cause'
      BY <1>2, <1>3, <1>4, <3>1, <3>2 DEF Cause
    <3> QED BY <1>2, <2>1, <3>3 DEF Explained
  <2>2. CASE ~OneSector
    BY <1>2, <2>2 DEF Explained
  <2> QED BY <2>1, <2>2
<1>9. ASSUME NEW b \in call.from .. (sector * SectorLen + SectorLen - 1),
             OneSector => b < call.from + call.count
      PROVE  drive'[b] = <<writes', b>>
  <2> DEFINE i == b - sector * SectorLen
  <2>1. b \in Int /\ i \in 0 .. (SectorLen - 1) /\ i >= offset
        /\ (OneSector => i < offset + call.count)
    BY <1>1, <1>5, <1>9
  <2>2. i \in SectorBytes /\ sector * SectorLen + i = b
    BY <1>1, <1>5, <2>1 DEF SectorBytes
  <2>3. b \in Bytes
    BY <1>5, <2>2, SectorBytesIn
  <2>4. call.from + (i - offset) = b
    BY <1>1, <1>5, <2>1
  <2> HIDE DEF i
  <2>5. buf[i] = <<writes, call.from + (i - offset)>>
    BY <1>4, <2>1, <2>2 DEF FirstMerged, Given
  <2> QED BY <1>2, <1>6, <2>2, <2>3, <2>4, <2>5 DEF i
<1>10. ASSUME ~OneSector PROVE InLast'
  <2>1. firstSector' = firstSector
    BY <1>2, CallKept
  <2>2. \A b \in call.from .. (sector * SectorLen + SectorLen - 1) :
           drive'[b] = <<writes', b>>
    BY <1>9, <1>10
  <2>3. Stored(call.from, firstSector * SectorLen + SectorLen)'
    BY <1>1, <1>2, <1>4, <1>5, <2>1, <2>2 DEF Stored
  <2> QED BY <1>2, <1>4, <1>10, <2>3, CallKept DEF InLast, InBounds, Size
<1>11. ASSUME OneSector PROVE Complete'
  <2>1. call.from + call.count <= sector * SectorLen + SectorLen
    BY <1>1, <1>5, <1>11, CallInOneSector
  <2>2. \A b \in call.from .. (call.from + call.count - 1) : drive'[b] = <<writes', b>>
    <3> SUFFICES ASSUME NEW b \in call.from .. (call.from + call.count - 1)
                 PROVE  drive'[b] = <<writes', b>>
      OBVIOUS
    <3>1. /\ b \in call.from .. (sector * SectorLen + SectorLen - 1)
          /\ b < call.from + call.count
      BY <1>1, <1>5, <2>1
    <3> QED BY <1>9, <3>1
  <2> QED BY <1>1, <1>2, <1>4, <1>5, <2>2 DEF Complete, Stored
<1>12. Progress'
  BY <1>2, <1>3, <1>10 DEF Progress, Ended
<1> QED BY <1>2, <1>7, <1>8, <1>12, <1>11, InvPartsPrimed

LEMMA ReadLastStep == ASSUME DriveInv, ReadLast PROVE DriveInv'
<1>1. /\ DriveTypeOK /\ Progress /\ step = "last" /\ Accepted
      /\ drive \in [Bytes -> Values] /\ writes \in 0 .. MaxWrites
      /\ SectorLen \in Nat \ {0} /\ sector \in Nat
  BY InvParts, ConstantTypes DEF ReadLast, DriveTypeOK
<1>2. /\ buf' = LastMerged /\ step' = "lastBack"
      /\ UNCHANGED <<drive, call, writes, sector, left, at, fault, overrun>>
  BY DEF ReadLast, transfer
<1>3. InLast /\ fault = FALSE /\ call.count # 0
  BY <1>1 DEF Progress, Ended, InLast
<1>4. sector = endSector /\ sector < SectorCount
  BY <1>1, <1>3, CommandFacts, ConstantTypes DEF InLast
<1>5. /\ lastCount \in 0 .. (SectorLen - 1) /\ sector * SectorLen \in Nat
      /\ call.from + call.count = sector * SectorLen + lastCount
      /\ call.from \in Nat /\ call.count \in Nat
  BY <1>1, <1>4, CallFacts, ConstantTypes
<1>6. DriveTypeOK'
  <2>1. ASSUME NEW b \in SectorBytes PROVE buf'[b] \in Values
    <3>1. b \in Nat /\ sector * SectorLen + b \in Bytes
      BY <1>1, <1>4, SectorBytesIn DEF SectorBytes
    <3>2. CASE b < lastCount
      <4>1. buf'[b] = <<writes, call.from + (b + call.count - lastCount)>>
        BY <1>2, <3>2 DEF LastMerged, Given
      <4>2. call.from + (b + call.count - lastCount) = sector * SectorLen + b
        <5>1. lastCount \in Int /\ b \in Int
          BY <1>1, <1>5, <3>1
        <5>2. call.count - lastCount = sector * SectorLen - call.from
          BY <1>5, <5>1
        <5> QED BY <1>5, <5>1, <5>2
      <4>3. <<writes, sector * SectorLen + b>> \in Values
        BY <1>1, <3>1 DEF Values
      <4> QED BY <4>1, <4>2, <4>3
    <3>3. CASE ~(b < lastCount)
      BY <1>1, <1>2, <3>1, <3>3 DEF LastMerged
    <3> QED BY <3>2, <3>3
  <2>2. DOMAIN buf' = SectorBytes
    BY <1>2 DEF LastMerged
  <2> QED BY <1>1, <1>2, <2>1, <2>2 DEF DriveTypeOK
<1>7. Explained'
  BY <1>2 DEF Explained
<1>8. LastMerged' = LastMerged
  BY <1>2 DEF LastMerged, lastCount, Given
<1>9. Stored(call.from, firstSector * SectorLen + SectorLen)'
  <2>1. Stored(call.from, firstSector * SectorLen + SectorLen)
    BY <1>3 DEF InLast
  <2>2. firstSector' = firstSector
    BY <1>2, CallKept
  <2>3. firstSector * SectorLen \in Nat
    BY <1>1, CallFacts
  <2> QED BY <1>1, <1>2, <1>5, <2>1, <2>2, <2>3 DEF Stored
<1>10. InLast'
  BY <1>2, <1>3, <1>8, <1>9, CallKept DEF InLast, InBounds, Size
<1>11. Progress'
  BY <1>2, <1>3, <1>10 DEF Progress, Ended
<1> QED BY <1>6, <1>7, <1>11, InvPartsPrimed

LEMMA WriteLastStep ==
    ASSUME DriveInv, WriteLast
    PROVE  DriveInv' /\ (step' = "ok" => Complete')
<1>1. /\ DriveTypeOK /\ Progress /\ step = "lastBack" /\ Accepted
      /\ drive \in [Bytes -> Values] /\ writes \in 0 .. MaxWrites
      /\ SectorLen \in Nat \ {0} /\ sector \in Nat /\ ChunkLen \in Nat \ {0}
  BY InvParts, ConstantTypes DEF WriteLast, DriveTypeOK
<1>2. /\ drive' = WrittenBack
      /\ step' = IF MiddleCount # 0 THEN "middle" ELSE "ok"
      /\ sector' = (call.from + SectorLen - offset) \div SectorLen
      /\ left' = MiddleCount /\ at' = SectorLen - offset
      /\ UNCHANGED <<call, writes, buf, fault, overrun>>
  BY DEF WriteLast, StartTransfer
<1>3. InLast /\ fault = FALSE /\ call.count # 0
  BY <1>1 DEF Progress, Ended, InLast
<1>4. /\ call.op = "WriteBytes" /\ InBounds(call.from, call.count)
      /\ ~OneSector /\ sector = endSector /\ buf = LastMerged
      /\ Stored(call.from, firstSector * SectorLen + SectorLen)
      /\ sector < SectorCount
  BY <1>1, <1>3, CommandFacts, ConstantTypes DEF InLast
<1>5. /\ lastCount \in 0 .. (SectorLen - 1) /\ endSector * SectorLen \in Nat
      /\ call.from + call.count = endSector * SectorLen + lastCount
      /\ call.from \in Nat /\ call.count \in Nat
      /\ offset \in 0 .. (SectorLen - 1) /\ firstSector \in Nat
      /\ endSector \in Nat /\ firstSector * SectorLen \in Nat
      /\ call.from = firstSector * SectorLen + offset
  BY <1>1, CallFacts, ConstantTypes
<1>6. /\ endSector >= firstSector + 1
      /\ (firstSector + 1) * SectorLen = firstSector * SectorLen + SectorLen
      /\ endSector * SectorLen >= firstSector * SectorLen + SectorLen
      /\ MiddleCount = endSector - (firstSector + 1)
      /\ sector' = firstSector + 1
  BY <1>1, <1>2, <1>3, <1>4, CallInMoreSectors
<1>7. call.from + call.count < Size
  BY <1>1, <1>4, LastAccepted
<1>8. /\ drive' \in [Bytes -> Values]
      /\ \A b \in Bytes :
            drive'[b] = IF b - endSector * SectorLen \in SectorBytes
                       THEN buf[b - endSector * SectorLen] ELSE drive[b]
  <2>1. DOMAIN buf = SectorBytes
    BY <1>4 DEF LastMerged
  <2> QED BY <1>1, <1>2, <1>4, <2>1, WriteBackFacts
<1>9. DriveTypeOK'
  <2>1. sector' \in Nat /\ left' \in Nat /\ at' \in Nat
    BY <1>1, <1>2, <1>5, <1>6
  <2> QED BY <1>1, <1>2, <1>8, <2>1 DEF DriveTypeOK
<1>10. Explained'
  <2>1. ASSUME MiddleCount = 0 PROVE ~Cause'
    <3>1. Transferred' = 0
      BY <1>2, <1>4, <2>1, CallKept DEF Transferred
    <3>2. /\ InBounds(call.from, call.count)'
          /\ call'.from + call'.count # Size
      BY <1>2, <1>4, <1>5, <1>7, ConstantTypes DEF InBounds, Size
    <3> QED BY <1>2, <1>3, <1>4, <3>1, <3>2 DEF Cause
  <2> QED BY <1>2, <2>1 DEF Explained
<1>11. \A b \in call.from .. (firstSector * SectorLen + SectorLen - 1) :
          drive'[b] = <<writes, b>>
  <2> SUFFICES ASSUME NEW b \in call.from .. (firstSector * SectorLen + SectorLen - 1)
               PROVE  drive'[b] = <<writes, b>>
    OBVIOUS
  <2>1. drive[b] = <<writes, b>>
    BY <1>1, <1>4, <1>5 DEF Stored
  <2>2. b \in Bytes
    BY <1>1, <1>5, <1>6, <1>7, ConstantTypes DEF Bytes
  <2>3. ~(b - endSector * SectorLen \in SectorBytes)
    BY <1>1, <1>5, <1>6 DEF SectorBytes
  <2> QED BY <1>8, <2>1, <2>2, <2>3
<1>12. \A b \in (endSector * SectorLen) .. (call.from + call.count - 1) :
          drive'[b] = <<writes, b>>
  <2> SUFFICES ASSUME NEW b \in (endSector * SectorLen) .. (call.from + call.count - 1)
               PROVE  drive'[b] = <<writes, b>>
    OBVIOUS
  <2> DEFINE i == b - endSector * SectorLen
  <2>1. b \in Nat /\ b < Size
    BY <1>5, <1>7, ConstantTypes
  <2>2. i \in 0 .. (SectorLen - 1) /\ i < lastCount
    BY <1>1, <1>5, <2>1
  <2>3. call.from + (i + call.count - lastCount) = b
    <3>1. lastCount \in Int
      BY <1>1, <1>5
    <3>2. call.count - lastCount = endSector * SectorLen - call.from
      BY <1>5, <3>1
    <3> QED BY <1>5, <2>1, <3>1, <3>2
  <2>4. b \in Bytes
    BY <2>1, ConstantTypes DEF Bytes
  <2> HIDE DEF i
  <2>5. buf[i] = <<writes, call.from + (i + call.count - lastCount)>>
    BY <1>4, <2>2 DEF LastMerged, SectorBytes, Given
  <2> QED BY <1>8, <2>2, <2>3, <2>4, <2>5 DEF i, SectorBytes
<1>13. ASSUME MiddleCount # 0 PROVE InMiddle'
  <2>1. sector' + left' = endSector
    BY <1>2, <1>5, <1>6
  <2>2. /\ at' = sector' * SectorLen - call.from
        /\ sector' * SectorLen = firstSector * SectorLen + SectorLen
    <3>1. sector' * SectorLen = firstSector * SectorLen + SectorLen
      BY <1>6
    <3> QED BY <1>1, <1>2, <1>5, <3>1
  <2>3. Stored(call.from, sector * SectorLen)'
    BY <1>1, <1>2, <1>5, <1>11, <2>2 DEF Stored
  <2>4. Stored(endSector * SectorLen, call.from + call.count)'
    <3>1. endSector' = endSector
      BY <1>2, CallKept
    <3> QED BY <1>1, <1>2, <1>5, <1>12, <3>1 DEF Stored
  <2>5. WholePages(firstSector + 1)'
    <3>1. sector' >= firstSector + 1 /\ (sector' - (firstSector + 1)) % ChunkLen = 0
      BY <1>1, <1>5, <1>6
    <3> QED BY <1>2, <3>1, CallKept DEF WholePages
  <2>6. /\ endSector' = endSector /\ (OneSector' <=> OneSector)
        /\ MiddleCount' = MiddleCount
    BY <1>2, CallKept
  <2>7. InBounds(call.from, call.count)'
    BY <1>2, <1>4 DEF InBounds, Size
  <2> QED BY <1>2, <1>4, <1>7, <1>13, <2>1, <2>2, <2>3, <2>4, <2>5, <2>6, <2>7
          DEF InMiddle
<1>14. ASSUME MiddleCount = 0 PROVE Complete'
  <2>1. endSector * SectorLen = firstSector * SectorLen + SectorLen
    <3>1. endSector = firstSector + 1
      BY <1>5, <1>6, <1>14
    <3> QED BY <1>6, <3>1
  <2>2. \A b \in call.from .. (call.from + call.count - 1) : drive'[b] = <<writes, b>>
    BY <1>1, <1>5, <1>11, <1>12, <2>1
  <2> QED BY <1>1, <1>2, <1>4, <1>5, <2>2 DEF Complete, Stored
<1>15. Progress'
  BY <1>2, <1>3, <1>13 DEF Progress, Ended
<1> QED BY <1>2, <1>9, <1>10, <1>14, <1>15, InvPartsPrimed

-----------------------------------------------------------------------------
(* A command fails, or the power goes.                                      *)

LEMMA OverwrittenFacts ==
    ASSUME DriveTypeOK, InMiddle, NEW n \in Nat
    PROVE  /\ Overwritten(n) \in [Bytes -> Values]
           /\ \A b \in Bytes :
                 Overwritten(n)[b] =
                    IF b - sector * SectorLen \in 0 .. (n * SectorLen - 1)
                    THEN <<writes, b>> ELSE drive[b]
<1>1. /\ drive \in [Bytes -> Values] /\ writes \in 0 .. MaxWrites
      /\ sector \in Nat /\ call.from \in Nat /\ sector * SectorLen \in Nat
  <2>1. /\ drive \in [Bytes -> Values] /\ writes \in 0 .. MaxWrites
        /\ sector \in Nat
    BY DEF DriveTypeOK
  <2>2. sector * SectorLen \in Nat
    BY <2>1, ConstantTypes
  <2> QED BY <2>1, <2>2, CallFacts, ConstantTypes
<1>2. at = sector * SectorLen - call.from
  BY DEF InMiddle
<1>3. ASSUME NEW b \in Bytes
      PROVE  Overwritten(n)[b] =
                IF b - sector * SectorLen \in 0 .. (n * SectorLen - 1)
                THEN <<writes, b>> ELSE drive[b]
  <2>1. b \in Nat
    BY ConstantTypes DEF Bytes
  <2>2. call.from + (at + b - sector * SectorLen) = b
    BY <1>1, <1>2, <2>1
  <2> QED BY <2>2 DEF Overwritten, Given
<1>4. \A b \in Bytes : <<writes, b>> \in Values /\ drive[b] \in Values
  BY <1>1 DEF Values
<1>5. \A b \in Bytes : Overwritten(n)[b] \in Values
  BY <1>3, <1>4
<1>6. Overwritten(n) = [b \in Bytes |-> Overwritten(n)[b]]
  BY DEF Overwritten
<1>7. Overwritten(n) \in [Bytes -> Values]
  BY <1>5, <1>6
<1> QED BY <1>3, <1>7

(* What a failed command may have written.                                  *)
LEMMA FailedCommand ==
    ASSUME DriveInv, CommandFails
    PROVE  \/ drive' = drive
           \/ /\ step = "middle" /\ Accepted
              /\ \E n \in 1 .. Command : drive' = Overwritten(n)
           \/ drive' \in Trampled /\ overrun' = TRUE
           \/ step \in {"firstBack", "lastBack"} /\ Accepted /\ drive' = WrittenBack
<1> DEFINE overruns == step \in {"read", "middle"} /\ Command = 0 /\ Accepted
<1>1. /\ overrun' = (overrun \/ overruns)
      /\ drive' \in {drive}
         \cup (IF step = "middle" /\ Accepted
               THEN {Overwritten(n) : n \in 1 .. Command} ELSE {})
         \cup (IF step = "middle" /\ overruns THEN Trampled ELSE {})
         \cup (IF step \in {"firstBack", "lastBack"} /\ Accepted
               THEN {WrittenBack} ELSE {})
  BY Zenon DEF CommandFails
<1> HIDE DEF overruns
<1>2. overruns => overrun' = TRUE
  BY <1>1, Zenon
<1> QED BY <1>1, <1>2

LEMMA WriteBackBuffer ==
    ASSUME DriveInv, step \in {"firstBack", "lastBack"}, Accepted
    PROVE  DOMAIN buf = SectorBytes /\ sector < SectorCount
<1>1. DriveTypeOK /\ Progress
  BY InvParts
<1>2. sector \in Nat /\ sector < SectorCount
  BY <1>1, CommandFacts, ConstantTypes DEF DriveTypeOK
<1>3. buf = FirstMerged \/ buf = LastMerged
  BY <1>1 DEF Progress, InFirst, InLast
<1> QED BY <1>2, <1>3 DEF FirstMerged, LastMerged

(* A command that the drive refuses has one of the other causes.            *)
LEMMA Refused ==
    ASSUME DriveInv, ~Ended, ~Accepted
    PROVE  \/ call.op = "Write" /\ call.from + call.count > Size
           \/ /\ Transferred # 0 \/ call.op = "Write"
              /\ Transferred % ChunkLen = 0
              /\ Behind + FullCount > SectorCount
           \/ call.op = "WriteBytes" /\ ~OneSector /\ call.from + call.count = Size
<1>1. /\ DriveTypeOK /\ Progress
      /\ call.op # "Write" => call.count # 0
  BY InvParts DEF Progress
<1>2. /\ sector \in Nat /\ left \in Nat /\ ChunkLen \in Nat /\ ChunkLen > 0
      /\ SectorCount \in Nat /\ SectorLen \in Nat /\ SectorLen > 0
      /\ Size \in Nat /\ Size = SectorCount * SectorLen
  BY <1>1, ConstantTypes DEF DriveTypeOK
<1>3. /\ call.from \in Nat /\ call.count \in Nat
      /\ firstSector \in Nat /\ endSector \in Nat
      /\ lastCount \in 0 .. (SectorLen - 1)
      /\ call.from + call.count = endSector * SectorLen + lastCount
      /\ endSector * SectorLen \in Nat
  BY <1>1, <1>2, CallFacts
<1>4. \/ left = 0 /\ sector + FullCount > SectorCount
      \/ left > 0 /\ sector + left > SectorCount
  BY <1>1, <1>2, CommandFacts, ConstantTypes
<1>5. CASE step = "read"
  <2>1. /\ call.op = "ReadBytes" /\ InBounds(call.from, call.count)
        /\ WholePages(firstSector) /\ sector >= firstSector
        /\ sector + left = firstSector + SectorsOf(call.from, call.count)
    BY <1>1, <1>5 DEF Progress, InRead, Fetched, WholePages
  <2>2. /\ SectorsOf(call.from, call.count) \in Nat
        /\ SectorsOf(call.from, call.count) > 0
        /\ firstSector + SectorsOf(call.from, call.count) <= SectorCount
    BY <1>1, <2>1, CallSectors
  <2>3. left = 0
    BY <1>2, <1>4, <2>1, <2>2
  <2>4. Transferred = sector - firstSector /\ Transferred # 0
    BY <1>2, <1>3, <2>1, <2>2, <2>3 DEF Transferred
  <2>5. Behind = firstSector + SectorsOf(call.from, call.count)
    BY <2>1 DEF Behind, Transferred, firstSector
  <2>6. Behind + FullCount > SectorCount
    BY <1>2, <1>4, <2>1, <2>2, <2>3, <2>5
  <2> QED BY <2>1, <2>4, <2>6 DEF WholePages
<1>6. CASE step \in {"first", "firstBack"}
  <2>1. InBounds(call.from, call.count) /\ sector = firstSector /\ left = 1
    BY <1>1, <1>6 DEF Progress, InFirst
  <2>2. sector < SectorCount
    <3>1. call.count # 0
      BY <1>1, <1>6 DEF Progress, InFirst
    <3> QED BY <1>1, <2>1, <3>1, FirstAccepted
  <2> QED BY <1>2, <1>4, <2>1, <2>2
<1>7. CASE step \in {"last", "lastBack"}
  <2>1. /\ call.op = "WriteBytes" /\ ~OneSector
        /\ InBounds(call.from, call.count) /\ sector = endSector /\ left = 1
    BY <1>1, <1>7 DEF Progress, InLast
  <2>2. ~(endSector < SectorCount)
    BY <1>2, <1>4, <2>1
  <2>3. call.from + call.count = Size
    BY <1>1, <1>2, <1>3, <2>1, <2>2, LastAccepted, InBoundsSize
  <2> QED BY <2>1, <2>3
<1>8. CASE step = "middle"
  <2>1. InMiddle /\ sector + left = endSector
    BY <1>1, <1>8 DEF Progress, InMiddle
  <2>2. CASE sector + left > SectorCount
    <3>1. endSector > SectorCount
      BY <2>1, <2>2
    <3>2. endSector * SectorLen > Size
      BY <1>2, <1>3, <3>1, TimesOrder
    <3>3. call.from + call.count > Size
      BY <1>2, <1>3, <3>2
    <3>4. call.op = "Write"
      <4>1. ~(call.from + call.count < Size)
        BY <1>2, <1>3, <3>3
      <4> QED BY <2>1, <4>1 DEF InMiddle
    <3> QED BY <3>3, <3>4
  <2>3. CASE left = 0
    <3>1. sector = endSector /\ endSector + FullCount > SectorCount
      BY <1>2, <1>3, <1>4, <2>1, <2>3, ConstantTypes
    <3>2. CASE call.op = "WriteBytes"
      <4>1. ~OneSector /\ WholePages(firstSector + 1) /\ MiddleCount # 0
        BY <2>1, <3>2 DEF InMiddle
      <4>2. Transferred = sector - (firstSector + 1)
        BY <1>1, <3>1, <3>2, <4>1, CallInMoreSectors DEF Transferred
      <4>3. Transferred % ChunkLen = 0 /\ Transferred # 0
        BY <3>2, <4>1, <4>2 DEF WholePages, Transferred
      <4>4. Behind = endSector
        BY <3>2 DEF Behind, endSector
      <4> QED BY <3>1, <4>3, <4>4
    <3>3. CASE call.op = "Write"
      <4>1. lastCount = 0 /\ WholePages(firstSector)
        BY <2>1, <3>3 DEF InMiddle
      <4>2. /\ SectorsOf(call.from, call.count) \in Nat
            /\ firstSector + SectorsOf(call.from, call.count) = endSector
        BY <1>1, <4>1, CallSectors
      <4>3. Transferred = sector - firstSector /\ Behind = endSector
        <5>1. /\ Transferred = SectorsOf(call.from, call.count)
              /\ Behind = firstSector + SectorsOf(call.from, call.count)
          BY <3>3 DEF Transferred, Behind, firstSector
        <5> QED BY <1>2, <1>3, <3>1, <4>2, <5>1
      <4> QED BY <3>1, <3>3, <4>1, <4>3 DEF WholePages
    <3> QED BY <2>1, <3>2, <3>3 DEF InMiddle
  <2> QED BY <1>4, <2>2, <2>3
<1> QED BY <1>1, <1>5, <1>6, <1>7, <1>8 DEF DriveTypeOK, Ended

LEMMA CommandFailsStep == ASSUME DriveInv, CommandFails PROVE DriveInv'
<1>1. DriveTypeOK /\ Progress /\ ~Ended
  BY InvParts DEF CommandFails
<1>2. /\ step' = "failed" /\ buf' = <<>> /\ (fault' <=> Accepted)
      /\ fault' \in BOOLEAN /\ overrun' \in BOOLEAN
      /\ UNCHANGED <<call, writes, sector, left, at>>
  <2>1. /\ step' = "failed" /\ buf' = <<>> /\ fault' = Accepted
        /\ UNCHANGED <<call, writes, sector, left, at>>
    BY Zenon DEF CommandFails, transfer
  <2>2. Accepted \in BOOLEAN
    BY DEF Accepted
  <2>3. overrun' \in BOOLEAN
    <3>1. overrun' = (overrun \/ (step \in {"read", "middle"} /\ Command = 0 /\ Accepted))
      BY Zenon DEF CommandFails
    <3> HIDE DEF Command
    <3> QED BY <3>1
  <2> QED BY <2>1, <2>2, <2>3, Zenon
<1>3. drive' \in [Bytes -> Values]
  <2>1. CASE drive' = drive
    BY <1>1, <2>1 DEF DriveTypeOK
  <2>2. CASE /\ step = "middle" /\ Accepted
             /\ \E n \in 1 .. Command : drive' = Overwritten(n)
    <3>1. InMiddle
      BY <1>1, <2>2 DEF Progress
    <3>2. PICK n \in 1 .. Command : drive' = Overwritten(n)
      BY <2>2
    <3>3. n \in Nat
      BY <1>1, <3>2, CommandFacts
    <3> QED BY <1>1, <3>1, <3>2, <3>3, OverwrittenFacts
  <2>3. CASE step \in {"firstBack", "lastBack"} /\ Accepted /\ drive' = WrittenBack
    BY <1>1, <2>3, WriteBackBuffer, WriteBackFacts
  <2>4. CASE drive' \in Trampled
    BY <1>1, <2>4, TrampledTypes
  <2> QED BY <2>1, <2>2, <2>3, <2>4, FailedCommand
<1>4. DriveTypeOK'
  BY <1>1, <1>2, <1>3 DEF DriveTypeOK
<1>5. Cause'
  <2>1. CASE Accepted
    BY <1>2, <2>1 DEF Cause
  <2>2. CASE ~Accepted
    <3>1. \/ call.op = "Write" /\ call.from + call.count > Size
          \/ /\ Transferred # 0 \/ call.op = "Write"
             /\ Transferred % ChunkLen = 0
             /\ Behind + FullCount > SectorCount
          \/ call.op = "WriteBytes" /\ ~OneSector /\ call.from + call.count = Size
      BY <1>1, <2>2, Refused
    <3> QED BY <1>2, <3>1, CallKept DEF Cause
  <2> QED BY <2>1, <2>2
<1>6. Explained' /\ Progress'
  BY <1>2, <1>5 DEF Explained, Progress, Ended
<1> QED BY <1>4, <1>6, InvPartsPrimed

LEMMA PowerLossStep == ASSUME DriveInv, PowerLoss PROVE DriveInv'
<1>1. DriveTypeOK
  BY InvParts
<1>2. /\ step' = "none" /\ buf' = <<>>
      /\ UNCHANGED <<drive, call, writes, sector, left, at, fault, overrun>>
  BY DEF PowerLoss, transfer
<1>3. DriveTypeOK'
  BY <1>1, <1>2 DEF DriveTypeOK
<1>4. Explained' /\ Progress'
  BY <1>2 DEF Explained, Progress, Ended
<1> QED BY <1>3, <1>4, InvPartsPrimed

LEMMA InitDrive == DriveInit => DriveInv
<1> SUFFICES ASSUME DriveInit PROVE DriveInv
  OBVIOUS
<1>1. DriveTypeOK
  <2>1. \A b \in Bytes : <<0, b>> \in Values
    BY ConstantTypes DEF Values
  <2>2. drive \in [Bytes -> Values]
    BY <2>1 DEF DriveInit
  <2>3. call \in [op : {"ReadBytes", "WriteBytes", "Write"},
                  from : 0 .. Size, count : Nat]
    BY ConstantTypes DEF DriveInit
  <2>4. /\ writes \in 0 .. MaxWrites /\ sector \in Nat /\ left \in Nat
        /\ at \in Nat /\ step = "none" /\ fault = FALSE /\ overrun = FALSE
        /\ buf = <<>>
    BY ConstantTypes DEF DriveInit
  <2>5. \A i \in DOMAIN buf : buf[i] \in Values
    BY <2>4
  <2> QED BY <2>2, <2>3, <2>4, <2>5 DEF DriveTypeOK
<1>2. Explained /\ Progress
  BY DEF DriveInit, Explained, Progress, Ended
<1> QED BY <1>1, <1>2, InvParts

LEMMA Unchanged == ASSUME DriveInv, UNCHANGED driveVars PROVE DriveInv'
<1>1. /\ DriveTypeOK /\ Explained /\ Progress
      /\ UNCHANGED <<drive, call, writes, step, sector, left, at, buf, fault, overrun>>
  BY InvParts DEF driveVars
<1>2. DriveTypeOK'
  BY <1>1 DEF DriveTypeOK
<1>3. Explained'
  BY <1>1, CallKept DEF Explained, Cause, InBounds, Size
<1>4. /\ InRead => InRead'
      /\ InFirst => InFirst'
      /\ InLast => InLast'
      /\ InMiddle => InMiddle'
  BY <1>1, CallKept
     DEF InRead, Fetched, InFirst, InLast, InMiddle, Stored, WholePages, InBounds, Size,
         Given, FirstMerged, LastMerged
<1>5. Progress'
  <2>1. /\ Ended' <=> Ended
        /\ step' = step /\ call' = call /\ fault' = fault
    BY <1>1 DEF Ended
  <2>2. ~Ended' => (call'.count # 0 \/ call'.op = "Write") /\ fault' = FALSE
    BY <1>1, <2>1 DEF Progress
  <2>3. step' = "read" => InRead'
    BY <1>1, <1>4, <2>1 DEF Progress
  <2>4. step' \in {"first", "firstBack"} => InFirst'
    BY <1>1, <1>4, <2>1 DEF Progress
  <2>5. step' \in {"last", "lastBack"} => InLast'
    BY <1>1, <1>4, <2>1 DEF Progress
  <2>6. step' = "middle" => InMiddle'
    BY <1>1, <1>4, <2>1 DEF Progress
  <2> QED BY <2>2, <2>3, <2>4, <2>5, <2>6 DEF Progress
<1> QED BY <1>2, <1>3, <1>5, InvPartsPrimed

LEMMA NextDrive == DriveInv /\ [DriveNext]_driveVars => DriveInv'
<1> SUFFICES ASSUME DriveInv, [DriveNext]_driveVars PROVE DriveInv'
  OBVIOUS
<1>1. CASE UNCHANGED driveVars
  BY <1>1, Unchanged
<1>2. CASE Calls
  <2>1. ASSUME NEW from \in Bytes, NEW count \in 0 .. (Size - from + 1),
               ReadBytes(from, count) \/ WriteBytes(from, count)
        PROVE  DriveInv'
    BY <2>1, ReadBytesStep, WriteBytesStep
  <2>2. ASSUME NEW first \in 0 .. (SectorCount - 1),
               NEW n \in 0 .. (SectorCount - first + 1), WriteSectors(first, n)
        PROVE  DriveInv'
    BY <2>2, WriteSectorsStep
  <2> QED BY <1>2, <2>1, <2>2 DEF Calls
<1>3. CASE WriteChunk
  <2>1. left = 0 \/ left > 0
    BY InvParts DEF DriveTypeOK
  <2> QED BY <1>3, <2>1, WriteChunkStep, WriteNothingStep
<1> QED BY <1>1, <1>2, <1>3, ReadChunkStep, ReadFirstStep, WriteFirstStep,
        ReadLastStep, WriteLastStep, CommandFailsStep, PowerLossStep DEF DriveNext

(* The strengthening above is never disturbed.                              *)
THEOREM AlwaysDriveInv == DriveSpec => []DriveInv
<1> QED BY InitDrive, NextDrive, PTL DEF DriveSpec

(* Only a drive that has all of FullCount sectors carries out a command for *)
(* none; and one that did has for good.                                     *)
Overran == overrun => SectorCount >= FullCount

LEMMA NextOverran ==
    ASSUME DriveInv, Overran, [DriveNext]_driveVars
    PROVE  Overran' /\ (overrun => overrun')
<1>1. /\ DriveTypeOK /\ Command \in Nat /\ sector \in Nat
      /\ SectorCount \in Nat /\ FullCount \in Nat
  BY InvParts, CommandFacts, ConstantTypes DEF DriveTypeOK
<1>2. Command = 0 /\ Accepted => SectorCount >= FullCount
  BY <1>1 DEF Accepted, Asked
<1>3. CASE UNCHANGED overrun
  BY <1>3 DEF Overran
<1>4. CASE ReadChunk \/ WriteChunk
  <2>1. Accepted /\ overrun' = (overrun \/ Command = 0)
    BY <1>4, Zenon DEF ReadChunk, WriteChunk
  <2> HIDE DEF Command
  <2> QED BY <1>2, <2>1, Zenon DEF Overran
<1>5. CASE CommandFails
  <2>1. overrun' = (overrun \/ (step \in {"read", "middle"} /\ Command = 0 /\ Accepted))
    BY <1>5, Zenon DEF CommandFails
  <2> HIDE DEF Command
  <2> QED BY <1>2, <2>1, Zenon DEF Overran
<1>6. ASSUME Calls PROVE UNCHANGED overrun
  BY <1>6, Zenon DEF Calls, ReadBytes, WriteBytes, WriteSectors
<1>7. ASSUME \/ ReadFirst \/ WriteFirst \/ ReadLast \/ WriteLast \/ PowerLoss
             \/ UNCHANGED driveVars
      PROVE  UNCHANGED overrun
  BY <1>7, Zenon DEF ReadFirst, WriteFirst, ReadLast, WriteLast, PowerLoss, driveVars
<1> QED BY <1>3, <1>4, <1>5, <1>6, <1>7 DEF DriveNext

(* A call on a drive of any size that does its work fails only for one of   *)
(* the causes that lie in the call (sataDiskInterface.cpp:48, 80, 95, 128,  *)
(* 211), and when one of them is there, it fails.                           *)
THEOREM AlwaysFailsOnlyForCause == DriveSpec => []FailsOnlyForCause
<1>1. DriveInv /\ Overran => FailsOnlyForCause
  <2> SUFFICES ASSUME DriveInv, Overran PROVE FailsOnlyForCause
    OBVIOUS
  <2>1. call.from + call.count > Size % Span <=> ~InBounds(call.from, call.count)
    <3>1. call.from \in Nat /\ call.count \in Nat /\ Size \in Nat /\ Span \in Nat \ {0}
      <4>1. DriveTypeOK
        BY InvParts
      <4>2. Span \in Nat \ {0}
        BY DiskAssumption
      <4> HIDE DEF Size
      <4> QED BY <4>1, <4>2, CallFacts, ConstantTypes
    <3> HIDE DEF Size
    <3>2. Size % Span \in Nat
      BY <3>1
    <3> QED BY <3>1, <3>2 DEF InBounds
  <2> QED BY <2>1, Zenon DEF DriveInv, Overran, FailsOnlyForCause, Explained, Cause
<1>2. DriveInit => Overran
  BY DEF DriveInit, Overran
<1>3. DriveInv /\ Overran /\ [DriveNext]_driveVars => Overran'
  BY NextOverran
<1> QED BY <1>1, <1>2, <1>3, AlwaysDriveInv, PTL DEF DriveSpec

-----------------------------------------------------------------------------
(* The promises of ByteDisk.                                                *)

(* The step changes no byte but those of the write under way.               *)
ChangesOwnBytes ==
    \A b \in Bytes :
        \/ drive'[b] = drive[b]
        \/ /\ call.op # "ReadBytes"
           /\ b \in call.from .. (call.from + call.count - 1)
           /\ drive'[b] = <<writes, b>>

LEMMA FirstChangesOwn ==
    ASSUME DriveInv, step = "firstBack", Accepted, drive' = WrittenBack
    PROVE  ChangesOwnBytes
<1>1. DriveTypeOK /\ Progress /\ InFirst /\ call.count # 0
  BY InvParts DEF Progress, Ended, InFirst
<1>2. /\ call.op = "WriteBytes" /\ sector = firstSector /\ buf = FirstMerged
  BY <1>1 DEF InFirst
<1>3. /\ offset \in 0 .. (SectorLen - 1) /\ sector * SectorLen \in Nat
      /\ call.from = sector * SectorLen + offset
      /\ call.from \in Nat /\ call.count \in Nat /\ SectorLen \in Nat
  BY <1>1, <1>2, CallFacts, ConstantTypes
<1>4. \A b \in Bytes :
         drive'[b] = IF b - sector * SectorLen \in SectorBytes
                    THEN buf[b - sector * SectorLen] ELSE drive[b]
  BY <1>1, WriteBackBuffer, WriteBackFacts
<1>5. ~OneSector => sector * SectorLen + SectorLen < call.from + call.count
  BY <1>1, <1>2, CallInMoreSectors
<1> SUFFICES ASSUME NEW b \in Bytes, drive'[b] # drive[b]
             PROVE  /\ call.op # "ReadBytes"
                    /\ b \in call.from .. (call.from + call.count - 1)
                    /\ drive'[b] = <<writes, b>>
  BY DEF ChangesOwnBytes
<1> DEFINE i == b - sector * SectorLen
<1>6. i \in SectorBytes /\ drive'[b] = buf[i]
  BY <1>4
<1>7. /\ b \in Nat /\ i \in Nat /\ i < SectorLen
      /\ sector * SectorLen + i = b
  BY <1>3, <1>6, ConstantTypes DEF Bytes, SectorBytes
<1> HIDE DEF i
<1>8. buf[i] = IF i >= offset /\ (OneSector => i < offset + call.count)
               THEN <<writes, call.from + (i - offset)>> ELSE drive[b]
  BY <1>2, <1>6, <1>7 DEF FirstMerged, Given
<1>9. i >= offset /\ (OneSector => i < offset + call.count)
  BY <1>6, <1>8
<1>10. call.from + (i - offset) = b /\ b >= call.from
  BY <1>3, <1>7, <1>9
<1>11. b < call.from + call.count
  BY <1>3, <1>5, <1>7, <1>9
<1> QED BY <1>2, <1>3, <1>6, <1>7, <1>8, <1>9, <1>10, <1>11

LEMMA LastChangesOwn ==
    ASSUME DriveInv, step = "lastBack", Accepted, drive' = WrittenBack
    PROVE  ChangesOwnBytes
<1>1. DriveTypeOK /\ Progress /\ InLast /\ call.count # 0
  BY InvParts DEF Progress, Ended, InLast
<1>2. /\ call.op = "WriteBytes" /\ ~OneSector
      /\ sector = endSector /\ buf = LastMerged
  BY <1>1 DEF InLast
<1>3. /\ lastCount \in 0 .. (SectorLen - 1) /\ sector * SectorLen \in Nat
      /\ offset \in 0 .. (SectorLen - 1) /\ firstSector * SectorLen \in Nat
      /\ call.from + call.count = sector * SectorLen + lastCount
      /\ call.from = firstSector * SectorLen + offset
      /\ call.from \in Nat /\ call.count \in Nat /\ SectorLen \in Nat
  BY <1>1, <1>2, CallFacts, ConstantTypes
<1>4. \A b \in Bytes :
         drive'[b] = IF b - sector * SectorLen \in SectorBytes
                    THEN buf[b - sector * SectorLen] ELSE drive[b]
  BY <1>1, WriteBackBuffer, WriteBackFacts
<1>5. sector * SectorLen >= firstSector * SectorLen + SectorLen
  BY <1>1, <1>2, CallInMoreSectors
<1> SUFFICES ASSUME NEW b \in Bytes, drive'[b] # drive[b]
             PROVE  /\ call.op # "ReadBytes"
                    /\ b \in call.from .. (call.from + call.count - 1)
                    /\ drive'[b] = <<writes, b>>
  BY DEF ChangesOwnBytes
<1> DEFINE i == b - sector * SectorLen
<1>6. i \in SectorBytes /\ drive'[b] = buf[i]
  BY <1>4
<1>7. /\ b \in Nat /\ i \in Nat /\ i < SectorLen
      /\ sector * SectorLen + i = b
  BY <1>3, <1>6, ConstantTypes DEF Bytes, SectorBytes
<1> HIDE DEF i
<1>8. buf[i] = IF i < lastCount
               THEN <<writes, call.from + (i + call.count - lastCount)>>
               ELSE drive[b]
  BY <1>2, <1>6, <1>7 DEF LastMerged, Given
<1>9. i < lastCount
  BY <1>6, <1>8
<1>10. call.from + (i + call.count - lastCount) = b
  <2>1. lastCount \in Int
    BY <1>3
  <2>2. call.count - lastCount = sector * SectorLen - call.from
    BY <1>3, <2>1
  <2> QED BY <1>3, <1>7, <2>1, <2>2
<1>11. b >= call.from /\ b < call.from + call.count
  BY <1>3, <1>5, <1>7, <1>9
<1> QED BY <1>2, <1>3, <1>6, <1>7, <1>8, <1>9, <1>10, <1>11

LEMMA MiddleChangesOwn ==
    ASSUME DriveInv, step = "middle", NEW n \in Nat, n <= left, drive' = Overwritten(n)
    PROVE  ChangesOwnBytes
<1>1. DriveTypeOK /\ Progress /\ InMiddle
  BY InvParts DEF Progress
<1>2. /\ call.op # "ReadBytes" /\ at = sector * SectorLen - call.from
      /\ sector + left = endSector
  BY <1>1 DEF InMiddle
<1>3. /\ sector \in Nat /\ left \in Nat /\ at \in Nat
      /\ sector * SectorLen \in Nat /\ n * SectorLen \in Nat
      /\ call.from \in Nat /\ call.count \in Nat /\ endSector * SectorLen \in Nat
      /\ call.from + call.count = endSector * SectorLen + lastCount
      /\ lastCount \in 0 .. (SectorLen - 1) /\ endSector \in Nat
  <2>1. sector \in Nat /\ left \in Nat /\ at \in Nat
    BY <1>1 DEF DriveTypeOK
  <2> QED BY <1>1, <2>1, CallFacts, ConstantTypes
<1>4. sector * SectorLen >= call.from
  BY <1>2, <1>3
<1>5. sector * SectorLen + n * SectorLen <= call.from + call.count
  <2>1. (sector + n) * SectorLen <= endSector * SectorLen
    BY <1>2, <1>3, TimesOrder
  <2>2. (sector + n) * SectorLen = sector * SectorLen + n * SectorLen
    BY <1>3, TimesOrder
  <2> QED BY <1>3, <2>1, <2>2, ConstantTypes
<1>6. \A b \in Bytes :
         drive'[b] = IF b - sector * SectorLen \in 0 .. (n * SectorLen - 1)
                    THEN <<writes, b>> ELSE drive[b]
  BY <1>1, OverwrittenFacts
<1> SUFFICES ASSUME NEW b \in Bytes, drive'[b] # drive[b]
             PROVE  /\ b \in call.from .. (call.from + call.count - 1)
                    /\ drive'[b] = <<writes, b>>
  BY <1>2 DEF ChangesOwnBytes
<1>7. b \in Nat
  BY ConstantTypes DEF Bytes
<1>8. /\ b - sector * SectorLen \in 0 .. (n * SectorLen - 1)
      /\ drive'[b] = <<writes, b>>
  BY <1>6
<1> QED BY <1>3, <1>4, <1>5, <1>7, <1>8

(* Such a step, when it finishes no call half done, is one of ByteDisk.     *)
LEMMA WorkRefines ==
    ASSUME DriveTypeOK, ~Ended, call' = call, writes' = writes,
           ChangesOwnBytes, step' \in {"ok", "failed"} \/ ~Ended',
           step' = "ok" => Complete' /\ call.from + call.count <= Size
    PROVE  Abstract!Work
<1>1. call.from \in Nat /\ call.count \in Nat
  BY CallFacts, ConstantTypes
<1>2. offset' = offset
  BY CallKept
<1>3. ASSUME NEW b \in Abstract!Bytes
      PROVE  \/ drive'[b] = drive[b]
             \/ /\ call.op # "ReadBytes"
                /\ b \in {call.from + i : i \in 0 .. (call.count - 1)}
                /\ b - call.from \in 0 .. (call.count - 1)
                /\ drive'[b] = Given(b - call.from)
  <2>1. b \in Bytes /\ b \in Nat
    BY ConstantTypes DEF Abstract!Bytes, Bytes
  <2>2. ASSUME b \in call.from .. (call.from + call.count - 1)
        PROVE  /\ b - call.from \in 0 .. (call.count - 1)
               /\ call.from + (b - call.from) = b
    BY <1>1, <2>1, <2>2
  <2> QED BY <2>1, <2>2 DEF ChangesOwnBytes, Given
<1>4. Abstract!Stored
  BY <1>3 DEF Abstract!Stored, Abstract!Range
<1>5. ASSUME step' = "ok", NEW i \in 0 .. (call.count - 1)
      PROVE  /\ call.from + i \in Bytes
             /\ call.op = "ReadBytes" => i + offset \in DOMAIN buf'
                                         /\ buf'[i + offset] = drive'[call.from + i]
             /\ call.op # "ReadBytes" => drive'[call.from + i] = <<writes, call.from + i>>
  <2>1. call.from + i \in Bytes
    BY <1>1, <1>5, ConstantTypes DEF Bytes
  <2>2. CASE call.op = "ReadBytes"
    BY <1>2, <1>5, <2>1, <2>2 DEF Complete
  <2>3. CASE call.op # "ReadBytes"
    <3>1. \A b \in call'.from .. (call'.from + call'.count - 1) :
             drive'[b] = <<writes', b>>
      BY <1>1, <1>5, <2>3 DEF Complete, Stored
    <3>2. call.from + i \in call.from .. (call.from + call.count - 1)
      BY <1>1
    <3> QED BY <2>1, <2>3, <3>1, <3>2
  <2> QED BY <2>2, <2>3
<1>6. step' = "ok" => Abstract!Agree'
  BY <1>2, <1>5 DEF Abstract!Agree, Abstract!Bytes, Bytes, Given
<1>7. Ended' => step' \in {"ok", "failed"}
  BY DEF Ended
<1> QED BY <1>2, <1>4, <1>6, <1>7 DEF Abstract!Work, Given, Ended

LEMMA CallRefines ==
    ASSUME Ended, UNCHANGED drive, step' # "none", step' = "ok" => call'.count = 0
    PROVE  Abstract!Begin
<1>1. step' = "ok" => Abstract!Agree'
  BY DEF Abstract!Agree
<1>2. (IF Ended THEN step ELSE "running") # "running"
  BY DEF Ended
<1>3. (IF Ended' THEN step' ELSE "running") \in {"running", "ok", "failed"}
  BY DEF Ended
<1>4. (IF Ended' THEN step' ELSE "running") = "ok" => Abstract!Agree'
  BY <1>1 DEF Ended
<1> QED BY <1>2, <1>3, <1>4 DEF Abstract!Begin

(* A call that has returned TRUE lies on the drive.                         *)
LEMMA SuccessInBounds ==
    ASSUME DriveInv', ~Ended, UNCHANGED <<call, writes>>, DriveInv, step' = "ok"
    PROVE  call.from + call.count <= Size
<1>1. DriveTypeOK /\ Progress /\ (call.count # 0 \/ call.op = "Write")
  BY InvParts DEF Progress
<1>2. Explained'
  BY InvParts, PTL
<1>3. ~Cause'
  BY <1>1, <1>2 DEF Explained
<1>4. call.from \in Nat /\ call.count \in Nat
  BY <1>1, CallFacts, ConstantTypes
<1>5. CASE call.op = "Write"
  <2>1. ~(call'.from + call'.count > Size)
    BY <1>3, <1>5 DEF Cause
  <2> QED BY <1>4, <2>1, ConstantTypes
<1>6. CASE call.op # "Write"
  <2>1. InBounds(call.from, call.count)
    BY <1>3, <1>6 DEF Cause, InBounds, Size
  <2> QED BY <1>4, <2>1, InBoundsSize
<1> QED BY <1>5, <1>6

LEMMA InitRefines == DriveInit => Abstract!Init
<1> SUFFICES ASSUME DriveInit PROVE Abstract!Init
  OBVIOUS
<1>1. DriveTypeOK
  BY InitDrive, InvParts
<1> QED BY <1>1 DEF DriveInit, DriveTypeOK, Ended, Abstract!Init, Abstract!Bytes, Bytes

LEMMA NextRefines ==
    DriveInv /\ Overran /\ [DriveNext]_driveVars => [Abstract!Next]_(Abstract!vars)
<1> SUFFICES ASSUME DriveInv, Overran, [DriveNext]_driveVars, ~overrun'
             PROVE  [Abstract!Next]_(Abstract!vars)
  BY DEF Abstract!Next
<1>0. ~overrun
  BY NextOverran
<1>1. DriveTypeOK /\ Progress /\ DriveInv' /\ DriveTypeOK'
  <2>1. DriveInv'
    BY NextDrive
  <2>2. DriveTypeOK'
    BY <2>1, InvParts, PTL
  <2> QED BY <2>1, <2>2, InvParts
<1>2. ASSUME Calls PROVE Abstract!Begin
  <2>1. ASSUME NEW from \in Bytes, NEW count \in 0 .. (Size - from + 1),
               ReadBytes(from, count) \/ WriteBytes(from, count)
        PROVE  Abstract!Begin
    BY <2>1, CallRefines DEF ReadBytes, WriteBytes
  <2>2. ASSUME NEW first \in 0 .. (SectorCount - 1),
               NEW n \in 0 .. (SectorCount - first + 1), WriteSectors(first, n)
        PROVE  Abstract!Begin
    BY <2>2, CallRefines DEF WriteSectors
  <2> QED BY <1>2, <2>1, <2>2 DEF Calls
<1>3. ASSUME ReadChunk PROVE Abstract!Work
  <2>1. ~Ended /\ UNCHANGED <<call, writes, drive>> /\ step' \in {"read", "ok"}
    BY <1>3 DEF ReadChunk, Ended
  <2>2. ChangesOwnBytes /\ (step' = "ok" => Complete')
    BY <1>3, <2>1, ReadChunkStep DEF ChangesOwnBytes
  <2> QED BY <1>1, <2>1, <2>2, SuccessInBounds, WorkRefines DEF Ended
<1>4. ASSUME WriteChunk PROVE Abstract!Work
  <2>0. left > 0 /\ Command # 0
    <3>1. left = 0 \/ left > 0
      BY <1>1 DEF DriveTypeOK
    <3>2. left # 0
      <4>1. left = 0 => overrun' = TRUE
        BY <1>4, WriteNothingStep
      <4> QED BY <4>1, Zenon
    <3> QED BY <1>1, <3>1, <3>2, CommandFacts
  <2>1. /\ ~Ended /\ UNCHANGED <<call, writes>> /\ step' \in {"middle", "ok"}
        /\ step = "middle" /\ drive' = Overwritten(Command)
    BY <1>4, <2>0 DEF WriteChunk, Ended
  <2>2. ChangesOwnBytes
    BY <1>1, <2>1, CommandFacts, MiddleChangesOwn
  <2>3. step' = "ok" => Complete'
    BY <1>4, <2>0, WriteChunkStep
  <2> QED BY <1>1, <2>1, <2>2, <2>3, SuccessInBounds, WorkRefines DEF Ended
<1>5. ASSUME ReadFirst \/ ReadLast PROVE Abstract!Work
  <2>1. /\ ~Ended /\ UNCHANGED <<call, writes, drive>>
        /\ step' \in {"firstBack", "lastBack"}
    BY <1>5 DEF ReadFirst, ReadLast, Ended
  <2> QED BY <1>1, <2>1, WorkRefines DEF Ended, ChangesOwnBytes
<1>6. ASSUME WriteFirst PROVE Abstract!Work
  <2>1. /\ ~Ended /\ UNCHANGED <<call, writes>> /\ step' \in {"last", "ok"}
        /\ step = "firstBack" /\ Accepted /\ drive' = WrittenBack
    BY <1>6 DEF WriteFirst, Ended
  <2>2. ChangesOwnBytes /\ (step' = "ok" => Complete')
    BY <1>6, <2>1, WriteFirstStep, FirstChangesOwn
  <2> QED BY <1>1, <2>1, <2>2, SuccessInBounds, WorkRefines DEF Ended
<1>7. ASSUME WriteLast PROVE Abstract!Work
  <2>1. /\ ~Ended /\ UNCHANGED <<call, writes>> /\ step' \in {"middle", "ok"}
        /\ step = "lastBack" /\ Accepted /\ drive' = WrittenBack
    BY <1>7 DEF WriteLast, Ended
  <2>2. ChangesOwnBytes /\ (step' = "ok" => Complete')
    BY <1>7, <2>1, WriteLastStep, LastChangesOwn
  <2> QED BY <1>1, <2>1, <2>2, SuccessInBounds, WorkRefines DEF Ended
<1>8. ASSUME CommandFails PROVE Abstract!Work
  <2>1. ~Ended /\ UNCHANGED <<call, writes>> /\ step' = "failed"
    BY <1>8 DEF CommandFails
  <2>2. ChangesOwnBytes
    <3>1. CASE drive' = drive
      BY <3>1 DEF ChangesOwnBytes
    <3>2. CASE /\ step = "middle" /\ Accepted
               /\ \E n \in 1 .. Command : drive' = Overwritten(n)
      <4>1. PICK n \in 1 .. Command : drive' = Overwritten(n)
        BY <3>2
      <4>2. n \in Nat /\ n <= left
        BY <1>1, <4>1, CommandFacts DEF DriveTypeOK
      <4> QED BY <3>2, <4>1, <4>2, MiddleChangesOwn
    <3>3. CASE step \in {"firstBack", "lastBack"} /\ Accepted /\ drive' = WrittenBack
      BY <3>3, FirstChangesOwn, LastChangesOwn
    <3> QED BY <1>8, <3>1, <3>2, <3>3, FailedCommand
  <2> QED BY <1>1, <2>1, <2>2, WorkRefines
<1>9. ASSUME PowerLoss PROVE Abstract!PowerLoss
  BY <1>9 DEF PowerLoss, Ended, Abstract!PowerLoss
<1>10. ASSUME UNCHANGED driveVars PROVE UNCHANGED Abstract!vars
  BY <1>10 DEF driveVars, Ended, offset, Given, Abstract!vars
<1> QED BY <1>0, <1>2, <1>3, <1>4, <1>5, <1>6, <1>7, <1>8, <1>9, <1>10
        DEF DriveNext, Abstract!Next, Abstract!Kept

(* However a range lies across sectors and pages of any size, whichever     *)
(* commands fail and wherever the power goes, the drive keeps the promises  *)
(* of ByteDisk (sataDiskInterface.cpp:32-245) until it carries out a        *)
(* command for no sectors: no byte outside the range of a write changes,    *)
(* and a call that returns TRUE has done all of it.                         *)
THEOREM DriveImplementsByteDisk == DriveSpec => ImplementsByteDisk
<1>1. DriveInit => Overran
  BY DEF DriveInit, Overran
<1>2. DriveInv /\ Overran /\ [DriveNext]_driveVars => Overran'
  BY NextOverran
<1> QED BY <1>1, <1>2, InitRefines, NextRefines, AlwaysDriveInv, PTL
        DEF DriveSpec, ImplementsByteDisk, Abstract!Spec
=============================================================================
