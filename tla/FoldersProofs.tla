---------------------------- MODULE FoldersProofs ----------------------------
(***************************************************************************)
(* The folders of MRAFS, for any paths, any tree at boot and any number of  *)
(* calls, of saves that fail and of losses of power: a call on a folder is  *)
(* one step to its caller (FolderTree), loses nothing on the disk, and can  *)
(* be made again when the power cut it off.                                 *)
(*                                                                         *)
(* First paths and trees alone, then what a tree is when a call on one of   *)
(* its folders is half done, then the calls for the folders within, and at  *)
(* last the invariant and the steps.                                        *)
(***************************************************************************)
EXTENDS MrafsFolders, SequenceLemmas, FiniteSetTheorems

-----------------------------------------------------------------------------
(* Paths: what is below a folder, and where it goes when the folder does.   *)
Names == UNION {Range(p) : p \in FullPaths}
AnyPath == Seq(Names)

(* At a folder or below it.                                                 *)
Under(o, p) == Len(o) <= Len(p) /\ \A i \in 1 .. Len(o) : o[i] = p[i]

LEMMA FullPathIs ==
    ASSUME NEW p \in FullPaths
    PROVE  p \in AnyPath /\ Len(p) \in Nat \ {0}
<1>1. p \in Seq(Range(p)) /\ p # <<>>
  BY FoldersAssumption
<1>2. Range(p) \subseteq Names
  BY DEF Names
<1>3. p \in AnyPath
  BY <1>1, <1>2, SeqMonotonic DEF AnyPath
<1> QED BY <1>1, <1>3, EmptySeq DEF AnyPath

(* The path of so many names that leads to p.                               *)
LEMMA OnTheWay ==
    ASSUME NEW p \in AnyPath, NEW k \in 0 .. Len(p)
    PROVE  LET z == SubSeq(p, 1, k)
           IN  z \in AnyPath /\ Len(z) = k /\ Under(z, p)
<1> DEFINE z == SubSeq(p, 1, k)
<1>1. Len(p) \in Nat /\ k \in Nat /\ k <= Len(p)
  BY LenProperties DEF AnyPath
<1>2. z \in Seq(Names) /\ Len(z) = k /\ \A i \in 1 .. k : z[i] = p[i]
  <2>1. CASE k = 0
    BY <1>1, <2>1, SubSeqEmpty, EmptySeq DEF AnyPath
  <2>2. CASE k # 0
    <3>1. \A i \in 1 .. k : p[i] \in Names
      BY <1>1, ElementOfSeq DEF AnyPath
    <3> QED BY <1>1, <2>2, <3>1, SubSeqProperties DEF AnyPath
  <2> QED BY <2>1, <2>2
<1> HIDE DEF z
<1>3. Under(z, p)
  BY <1>1, <1>2 DEF Under
<1>4. z = SubSeq(p, 1, k)
  BY DEF z
<1> QED BY <1>2, <1>3, <1>4 DEF AnyPath
LEMMA WithinIs ==
    ASSUME NEW o \in AnyPath, NEW p \in AnyPath
    PROVE  /\ Tree!Within(o, p) <=> Under(o, p) /\ Len(o) < Len(p)
           /\ Under(o, p) => Len(o) \in Nat /\ Len(p) \in Nat
           /\ Under(o, p) /\ Len(o) = Len(p) => o = p
<1>1. Len(o) \in Nat /\ Len(p) \in Nat
  BY LenProperties DEF AnyPath
<1>2. Under(o, p) /\ Len(o) = Len(p) => o = p
  BY SeqEqual DEF AnyPath, Under
<1>3. SubSeq(o, 1, Len(o)) = o
  BY SubSeqFull DEF AnyPath
<1>4. ASSUME Len(o) <= Len(p)
      PROVE  SubSeq(o, 1, Len(o)) = SubSeq(p, 1, Len(o)) <=> Under(o, p)
  <2> DEFINE s == SubSeq(p, 1, Len(o))
  <2>1. s \in Seq(Names) /\ Len(s) = Len(o) /\ \A i \in 1 .. Len(o) : s[i] = p[i]
    <3>1. CASE Len(o) = 0
      BY <1>1, <3>1, SubSeqEmpty, EmptySeq DEF AnyPath
    <3>2. CASE Len(o) # 0
      <4>1. 1 .. Len(o) \subseteq 1 .. Len(p) /\ 1 \in 1 .. Len(p) + 1
        BY <1>1, <1>4, <3>2
      <4>2. \A i \in 1 .. Len(o) : p[i] \in Names
        BY <4>1, ElementOfSeq DEF AnyPath
      <4> QED BY <1>1, <1>4, <3>2, <4>1, <4>2, SubSeqProperties DEF AnyPath
    <3> QED BY <3>1, <3>2
  <2> HIDE DEF s
  <2>2. ASSUME o = s PROVE Under(o, p)
    BY <1>4, <2>1, <2>2 DEF Under
  <2>3. ASSUME Under(o, p) PROVE o = s
    BY <2>1, <2>3, SeqEqual DEF AnyPath, Under
  <2> QED BY <1>3, <2>2, <2>3 DEF s
<1>5. Tree!IsPrefix(o, p) <=> Under(o, p)
  BY <1>4 DEF Tree!IsPrefix, Under
<1>6. Under(o, p) /\ o # p => Len(o) < Len(p)
  BY <1>1, <1>2 DEF Under
<1>7. Len(o) < Len(p) => o # p
  BY <1>1
<1> QED BY <1>1, <1>2, <1>5, <1>6, <1>7 DEF Tree!Within, Tree!IsStrictPrefix

(* The folder an entry is in.                                               *)
LEMMA FrontIs ==
    ASSUME NEW p \in AnyPath, Len(p) # 0
    PROVE  /\ Front(p) \in AnyPath /\ Len(Front(p)) = Len(p) - 1
           /\ \A i \in 1 .. Len(p) - 1 : Front(p)[i] = p[i]
           /\ Tree!Front(p) = Front(p)
<1>1. Len(p) \in Nat \ {0}
  BY LenProperties DEF AnyPath
<1>2. Len(p) - 1 \in 0 .. Len(p)
  BY <1>1
<1> QED BY <1>1, <1>2, OnTheWay DEF Front, Tree!Front, Under

LEMMA UnderFront ==
    ASSUME NEW o \in AnyPath, NEW p \in AnyPath, Len(p) # 0
    PROVE  /\ Tree!Within(o, p) <=> Under(o, Front(p))
           /\ Front(p) \in AnyPath /\ Len(Front(p)) = Len(p) - 1
           /\ Len(p) \in Nat /\ Len(o) \in Nat
<1>1. Len(p) \in Nat \ {0} /\ Len(o) \in Nat
  BY LenProperties DEF AnyPath
<1>2. /\ Front(p) \in AnyPath /\ Len(Front(p)) = Len(p) - 1
      /\ \A i \in 1 .. Len(p) - 1 : Front(p)[i] = p[i]
  BY FrontIs
<1>3. ASSUME Len(o) < Len(p)
      PROVE  \A i \in 1 .. Len(o) : Front(p)[i] = p[i]
  BY <1>1, <1>2, <1>3
<1> QED BY <1>1, <1>2, <1>3, WithinIs DEF Under

LEMMA UnderTransitive ==
    ASSUME NEW o \in AnyPath, NEW p \in AnyPath, NEW q \in AnyPath,
           Under(o, p), Under(p, q)
    PROVE  Under(o, q)
<1>1. Len(o) \in Nat /\ Len(p) \in Nat /\ Len(q) \in Nat
  BY LenProperties DEF AnyPath
<1> QED BY <1>1 DEF Under

(* Both of two folders that hold an entry are on the way to it.             *)
LEMMA UnderBoth ==
    ASSUME NEW o \in AnyPath, NEW p \in AnyPath, NEW q \in AnyPath,
           Under(o, q), Under(p, q), Len(o) <= Len(p)
    PROVE  Under(o, p)
<1>1. Len(o) \in Nat /\ Len(p) \in Nat /\ Len(q) \in Nat
  BY LenProperties DEF AnyPath
<1> QED BY <1>1 DEF Under

LEMMA UnderSelf ==
    ASSUME NEW o \in AnyPath
    PROVE  Under(o, o) /\ Len(o) \in Nat
  BY LenProperties DEF AnyPath, Under


LEMMA MovedIs ==
    ASSUME NEW o \in AnyPath, NEW p \in AnyPath, NEW n \in AnyPath, Under(o, p)
    PROVE  LET m == Moved(p, o, n)
           IN  /\ m \in AnyPath /\ Len(m) = Len(n) + (Len(p) - Len(o))
               /\ Under(n, m)
               /\ \A i \in 1 .. Len(p) - Len(o) : m[Len(n) + i] = p[Len(o) + i]
<1> DEFINE r == SubSeq(p, Len(o) + 1, Len(p))
<1> DEFINE m == Moved(p, o, n)
<1>1. Len(o) \in Nat /\ Len(p) \in Nat /\ Len(n) \in Nat /\ Len(o) <= Len(p)
  BY LenProperties DEF AnyPath, Under
<1>2. \A i \in Len(o) + 1 .. Len(p) : p[i] \in Names
  BY <1>1, ElementOfSeq DEF AnyPath
<1>3. /\ r \in Seq(Names) /\ Len(r) = Len(p) - Len(o)
      /\ \A i \in 1 .. Len(p) - Len(o) : r[i] = p[Len(o) + i]
  <2>1. /\ r \in Seq(Names)
        /\ Len(r) = IF Len(o) + 1 <= Len(p) THEN Len(p) - (Len(o) + 1) + 1 ELSE 0
        /\ \A i \in 1 .. Len(p) - (Len(o) + 1) + 1 : r[i] = p[Len(o) + 1 + i - 1]
    BY <1>1, <1>2, SubSeqProperties
  <2> HIDE DEF r
  <2>2. ASSUME NEW i \in 1 .. Len(p) - Len(o)
        PROVE  r[i] = p[Len(o) + i]
    <3>1. i \in 1 .. Len(p) - (Len(o) + 1) + 1 /\ Len(o) + 1 + i - 1 = Len(o) + i
      BY <1>1
    <3> QED BY <2>1, <3>1
  <2>3. Len(r) = Len(p) - Len(o)
    BY <1>1, <2>1
  <2> QED BY <2>1, <2>2, <2>3
<1>4. m = n \o r
  BY DEF Moved, Tree!Moved
<1> HIDE DEF r, m
<1>5. /\ m \in AnyPath /\ Len(m) = Len(n) + Len(r)
      /\ \A i \in 1 .. Len(n) + Len(r) :
            m[i] = IF i <= Len(n) THEN n[i] ELSE r[i - Len(n)]
  BY <1>3, <1>4, ConcatProperties DEF AnyPath
<1>6. Under(n, m)
  <2>1. Len(n) \in Nat /\ Len(r) \in Nat
    BY <1>3, LenProperties DEF AnyPath
  <2>2. Len(n) <= Len(m)
    BY <1>5, <2>1
  <2>3. ASSUME NEW i \in 1 .. Len(n)
        PROVE  n[i] = m[i]
    <3>1. i \in 1 .. Len(n) + Len(r) /\ i <= Len(n)
      BY <2>1
    <3> QED BY <1>5, <3>1
  <2> QED BY <2>2, <2>3 DEF Under
<1>7. ASSUME NEW i \in 1 .. Len(p) - Len(o)
      PROVE  m[Len(n) + i] = p[Len(o) + i]
  <2>1. Len(n) + i \in 1 .. Len(n) + Len(r) /\ ~(Len(n) + i <= Len(n))
    BY <1>1, <1>3
  <2>2. Len(n) + i - Len(n) = i
    BY <1>1
  <2> QED BY <1>3, <1>5, <2>1, <2>2
<1> QED BY <1>3, <1>5, <1>6, <1>7 DEF m

(* Two entries of a folder go to two places.                                *)
LEMMA MovedApart ==
    ASSUME NEW o \in AnyPath, NEW n \in AnyPath,
           NEW p \in AnyPath, NEW q \in AnyPath, Under(o, p), Under(o, q),
           Moved(p, o, n) = Moved(q, o, n)
    PROVE  p = q
<1>1. Len(o) \in Nat /\ Len(p) \in Nat /\ Len(n) \in Nat /\ Len(q) \in Nat
      /\ Len(o) <= Len(p)
  BY LenProperties DEF AnyPath, Under
<1>2. Len(p) = Len(q)
  BY <1>1, MovedIs
<1>3. ASSUME NEW i \in 1 .. Len(p) PROVE p[i] = q[i]
  <2>1. CASE i <= Len(o)
    BY <1>1, <2>1 DEF Under
  <2>2. CASE ~(i <= Len(o))
    <3> DEFINE j == i - Len(o)
    <3>1. j \in 1 .. Len(p) - Len(o) /\ Len(o) + j = i
      BY <1>1, <2>2
    <3> HIDE DEF j
    <3>2. Moved(p, o, n)[Len(n) + j] = p[Len(o) + j]
      BY <3>1, MovedIs
    <3>3. Moved(q, o, n)[Len(n) + j] = q[Len(o) + j]
      BY <1>2, <3>1, MovedIs
    <3> QED BY <3>1, <3>2, <3>3
  <2> QED BY <2>1, <2>2
<1> QED BY <1>2, <1>3, SeqEqual DEF AnyPath

(* The folder itself goes to the new place, and each entry along with the   *)
(* folder that it is in.                                                    *)
LEMMA MovedSelf ==
    ASSUME NEW o \in AnyPath, NEW n \in AnyPath
    PROVE  Moved(o, o, n) = n
<1>1. Len(o) \in Nat /\ Len(n) \in Nat /\ Under(o, o)
  BY UnderSelf
<1>2. /\ Moved(o, o, n) \in AnyPath /\ Len(Moved(o, o, n)) = Len(n)
      /\ Under(n, Moved(o, o, n))
  BY <1>1, MovedIs
<1> QED BY <1>2, WithinIs

LEMMA MovedNowhere ==
    ASSUME NEW o \in AnyPath, NEW p \in AnyPath, Under(o, p)
    PROVE  Moved(p, o, o) = p
<1>1. Len(o) \in Nat /\ Len(p) \in Nat /\ Len(o) <= Len(p)
  BY LenProperties DEF AnyPath, Under
<1>2. Moved(p, o, o) \in AnyPath /\ Len(Moved(p, o, o)) = Len(p) /\ Under(o, Moved(p, o, o))
  BY <1>1, MovedIs
<1>3. ASSUME NEW i \in 1 .. Len(p) PROVE Moved(p, o, o)[i] = p[i]
  <2>1. CASE i <= Len(o)
    BY <1>1, <1>2, <2>1 DEF Under
  <2>2. CASE ~(i <= Len(o))
    <3>1. i - Len(o) \in 1 .. Len(p) - Len(o) /\ Len(o) + (i - Len(o)) = i
      BY <1>1, <2>2
    <3> QED BY <3>1, MovedIs
  <2> QED BY <2>1, <2>2
<1> QED BY <1>2, <1>3, SeqEqual DEF AnyPath

LEMMA MovedFront ==
    ASSUME NEW o \in AnyPath, NEW n \in AnyPath, NEW p \in AnyPath,
           Under(o, p), Len(o) < Len(p)
    PROVE  /\ Len(Moved(p, o, n)) # 0
           /\ Front(Moved(p, o, n)) = Moved(Front(p), o, n)
<1> DEFINE m == Moved(p, o, n)
<1> DEFINE f == Front(p)
<1>1. Len(o) \in Nat /\ Len(p) \in Nat /\ Len(n) \in Nat /\ Len(p) # 0
  BY LenProperties DEF AnyPath
<1>2. /\ m \in AnyPath /\ Len(m) = Len(n) + (Len(p) - Len(o)) /\ Under(n, m)
      /\ \A i \in 1 .. Len(p) - Len(o) : m[Len(n) + i] = p[Len(o) + i]
  BY MovedIs
<1>3. f \in AnyPath /\ Len(f) = Len(p) - 1 /\ \A i \in 1 .. Len(p) - 1 : f[i] = p[i]
  BY <1>1, FrontIs
<1>4. Under(o, f)
  BY <1>1, <1>3 DEF Under
<1> HIDE DEF m, f
<1>0. Len(m) # 0 /\ Len(m) \in Nat
  BY <1>1, <1>2
<1>5. /\ Front(m) \in AnyPath /\ Len(Front(m)) = Len(m) - 1
      /\ \A i \in 1 .. Len(m) - 1 : Front(m)[i] = m[i]
  BY <1>0, <1>2, FrontIs
<1>6. /\ Moved(f, o, n) \in AnyPath /\ Len(Moved(f, o, n)) = Len(n) + (Len(f) - Len(o))
      /\ Under(n, Moved(f, o, n))
      /\ \A i \in 1 .. Len(f) - Len(o) : Moved(f, o, n)[Len(n) + i] = f[Len(o) + i]
  BY <1>3, <1>4, MovedIs
<1>7. ASSUME NEW i \in 1 .. Len(m) - 1 PROVE m[i] = Moved(f, o, n)[i]
  <2>1. CASE i <= Len(n)
    BY <1>1, <1>2, <1>6, <2>1 DEF Under
  <2>2. CASE ~(i <= Len(n))
    <3>1. i - Len(n) \in 1 .. Len(p) - Len(o) /\ Len(n) + (i - Len(n)) = i
      BY <1>1, <1>2, <2>2
    <3>2. i - Len(n) \in 1 .. Len(f) - Len(o) /\ Len(o) + (i - Len(n)) \in 1 .. Len(p) - 1
      BY <1>1, <1>2, <1>3, <2>2
    <3> QED BY <1>2, <1>3, <1>6, <3>1, <3>2
  <2> QED BY <2>1, <2>2
<1>8. Front(m) = Moved(f, o, n)
  <2>1. Len(Front(m)) = Len(Moved(f, o, n))
    BY <1>1, <1>2, <1>3, <1>5, <1>6
  <2>2. \A i \in 1 .. Len(Front(m)) : Front(m)[i] = Moved(f, o, n)[i]
    BY <1>5, <1>7
  <2> QED BY <1>5, <1>6, <2>1, <2>2, SeqEqual DEF AnyPath
<1> QED BY <1>0, <1>8 DEF m, f

(* What a folder takes along, its own folders take along.                   *)
LEMMA MovedOn ==
    ASSUME NEW o \in AnyPath, NEW n \in AnyPath, NEW q \in AnyPath,
           NEW p \in AnyPath, Under(o, q), Under(q, p)
    PROVE  Moved(p, q, Moved(q, o, n)) = Moved(p, o, n)
<1> DEFINE k == Moved(q, o, n)
<1> DEFINE l == Moved(p, q, k)
<1> DEFINE m == Moved(p, o, n)
<1>1. /\ Len(o) \in Nat /\ Len(p) \in Nat /\ Len(n) \in Nat /\ Len(q) \in Nat
      /\ Len(o) <= Len(q) /\ Len(q) <= Len(p) /\ Under(o, p)
  BY LenProperties, UnderTransitive DEF AnyPath, Under
<1>2. /\ k \in AnyPath /\ Len(k) = Len(n) + (Len(q) - Len(o)) /\ Under(n, k)
      /\ \A i \in 1 .. Len(q) - Len(o) : k[Len(n) + i] = q[Len(o) + i]
  BY MovedIs
<1> HIDE DEF k
<1>3. /\ l \in AnyPath /\ Len(l) = Len(k) + (Len(p) - Len(q)) /\ Under(k, l)
      /\ \A i \in 1 .. Len(p) - Len(q) : l[Len(k) + i] = p[Len(q) + i]
  BY <1>2, MovedIs
<1>4. /\ m \in AnyPath /\ Len(m) = Len(n) + (Len(p) - Len(o)) /\ Under(n, m)
      /\ \A i \in 1 .. Len(p) - Len(o) : m[Len(n) + i] = p[Len(o) + i]
  BY <1>1, MovedIs
<1> HIDE DEF l, m
<1>5. Len(l) = Len(m)
  BY <1>1, <1>2, <1>3, <1>4
<1>6. ASSUME NEW i \in 1 .. Len(l) PROVE l[i] = m[i]
  <2>1. CASE i <= Len(n)
    <3>1. i \in 1 .. Len(n) /\ i \in 1 .. Len(k)
      BY <1>1, <1>2, <2>1
    <3> QED BY <1>2, <1>3, <1>4, <3>1 DEF Under
  <2>2. CASE ~(i <= Len(n)) /\ i <= Len(k)
    <3>1. i \in 1 .. Len(k) /\ i - Len(n) \in 1 .. Len(q) - Len(o)
          /\ Len(n) + (i - Len(n)) = i
      BY <1>1, <1>2, <2>2
    <3>2. l[i] = q[Len(o) + (i - Len(n))]
      BY <1>2, <1>3, <3>1 DEF Under
    <3>3. Len(o) + (i - Len(n)) \in 1 .. Len(q) /\ i - Len(n) \in 1 .. Len(p) - Len(o)
      BY <1>1, <1>2, <2>2
    <3>4. m[i] = p[Len(o) + (i - Len(n))]
      BY <1>4, <3>1, <3>3
    <3> QED BY <3>2, <3>3, <3>4 DEF Under
  <2>3. CASE ~(i <= Len(k))
    <3>1. i - Len(k) \in 1 .. Len(p) - Len(q) /\ Len(k) + (i - Len(k)) = i
          /\ i - Len(n) \in 1 .. Len(p) - Len(o) /\ Len(n) + (i - Len(n)) = i
          /\ Len(q) + (i - Len(k)) = Len(o) + (i - Len(n))
      BY <1>1, <1>2, <1>3, <2>3
    <3>2. l[i] = p[Len(q) + (i - Len(k))]
      BY <1>3, <3>1
    <3>3. m[i] = p[Len(o) + (i - Len(n))]
      BY <1>4, <3>1
    <3> QED BY <3>1, <3>2, <3>3
  <2> QED BY <2>1, <2>2, <2>3
<1>7. l = m
  BY <1>3, <1>4, <1>5, <1>6, SeqEqual DEF AnyPath
<1> QED BY <1>7 DEF k, l, m

(* The way to an entry is the way to the folder it is in, and itself.       *)
LEMMA WayIs ==
    ASSUME NEW o \in AnyPath, NEW p \in AnyPath, Under(o, p)
    PROVE  /\ o = p => Tree!Way(o, p) = {}
           /\ o # p => /\ Tree!Way(o, p) = Tree!Way(o, Front(p)) \cup {p}
                       /\ Tree!Within(o, p) /\ Under(o, Front(p))
                       /\ Front(p) \in AnyPath
                       /\ Len(p) \in Nat /\ Len(Front(p)) = Len(p) - 1
           /\ \A w \in Tree!Way(o, p) : w \in AnyPath /\ Tree!Within(o, w) /\ Under(w, p)
<1>1. Len(o) \in Nat /\ Len(p) \in Nat /\ Len(o) <= Len(p)
  BY LenProperties DEF AnyPath, Under
<1>2. ASSUME o = p PROVE Tree!Way(o, p) = {}
  <2>1. (Len(o) + 1) .. Len(p) = {}
    BY <1>1, <1>2
  <2> QED BY <2>1 DEF Tree!Way
<1>3. ASSUME NEW w \in Tree!Way(o, p)
      PROVE  w \in AnyPath /\ Tree!Within(o, w) /\ Under(w, p)
  <2>1. PICK k \in (Len(o) + 1) .. Len(p) : w = SubSeq(p, 1, k)
    BY <1>3 DEF Tree!Way
  <2>2. k \in 0 .. Len(p) /\ Len(o) < k
    BY <1>1, <2>1
  <2>3. w \in AnyPath /\ Len(w) = k /\ Under(w, p)
    BY <2>1, <2>2, OnTheWay
  <2>4. Under(o, w)
    BY <2>2, <2>3, UnderBoth
  <2> QED BY <2>2, <2>3, <2>4, WithinIs
<1>4. ASSUME o # p
      PROVE  /\ Tree!Way(o, p) = Tree!Way(o, Front(p)) \cup {p}
             /\ Tree!Within(o, p) /\ Under(o, Front(p))
             /\ Front(p) \in AnyPath
             /\ Len(Front(p)) = Len(p) - 1
  <2>1. Len(o) < Len(p) /\ Tree!Within(o, p) /\ Len(p) # 0
    <3>1. Len(o) # Len(p)
      BY <1>4, WithinIs
    <3> QED BY <1>1, <3>1, WithinIs
  <2>2. /\ Front(p) \in AnyPath /\ Len(Front(p)) = Len(p) - 1 /\ Under(o, Front(p))
        /\ \A i \in 1 .. Len(p) - 1 : Front(p)[i] = p[i]
    BY <2>1, FrontIs, UnderFront
  <2>3. SubSeq(p, 1, Len(p)) = p
    BY SubSeqFull DEF AnyPath
  <2>4. ASSUME NEW k \in (Len(o) + 1) .. (Len(p) - 1)
        PROVE  SubSeq(p, 1, k) = SubSeq(Front(p), 1, k)
    <3>1. k \in 0 .. Len(p) /\ k \in 0 .. Len(Front(p))
      BY <1>1, <2>2
    <3>2. /\ SubSeq(p, 1, k) \in AnyPath /\ Len(SubSeq(p, 1, k)) = k
          /\ \A i \in 1 .. k : SubSeq(p, 1, k)[i] = p[i]
      BY <3>1, OnTheWay DEF Under
    <3>3. /\ SubSeq(Front(p), 1, k) \in AnyPath /\ Len(SubSeq(Front(p), 1, k)) = k
          /\ \A i \in 1 .. k : SubSeq(Front(p), 1, k)[i] = Front(p)[i]
      BY <2>2, <3>1, OnTheWay DEF Under
    <3>4. \A i \in 1 .. k : i \in 1 .. Len(p) - 1
      BY <1>1
    <3>5. \A i \in 1 .. Len(SubSeq(p, 1, k)) :
             SubSeq(p, 1, k)[i] = SubSeq(Front(p), 1, k)[i]
      BY <2>2, <3>2, <3>3, <3>4
    <3> QED BY <3>2, <3>3, <3>5, SeqEqual DEF AnyPath
  <2>5. (Len(o) + 1) .. Len(p) = ((Len(o) + 1) .. (Len(p) - 1)) \cup {Len(p)}
    BY <1>1, <2>1
  <2>6. Tree!Way(o, p) = {SubSeq(p, 1, k) : k \in (Len(o) + 1) .. (Len(p) - 1)} \cup {p}
    BY <2>3, <2>5 DEF Tree!Way
  <2>7. Tree!Way(o, Front(p))
           = {SubSeq(Front(p), 1, k) : k \in (Len(o) + 1) .. (Len(p) - 1)}
    BY <2>2 DEF Tree!Way
  <2>8. {SubSeq(p, 1, k) : k \in (Len(o) + 1) .. (Len(p) - 1)}
           = {SubSeq(Front(p), 1, k) : k \in (Len(o) + 1) .. (Len(p) - 1)}
    BY <2>4
  <2> QED BY <2>1, <2>2, <2>6, <2>7, <2>8
<1> QED BY <1>1, <1>2, <1>3, <1>4

-----------------------------------------------------------------------------
(* What a call on the folder o is to do: the folders it goes through, and   *)
(* the files that it takes.                                                 *)
Trees == [files : UNION {[S -> FullPaths \cup {Broken}] : S \in SUBSET FullPaths},
          folders : SUBSET FullPaths]

Dirs(t, op, o, n) ==
    IF op = "delete" THEN t.folders \cap Tree!Below(t, o)
    ELSE Tree!TakenFolders(t, o, n)

Docs(t, op, o, n) ==
    IF op = "delete" THEN DOMAIN t.files \cap Tree!Below(t, o)
    ELSE Tree!TakenFiles(t, o, n)

LEMMA TreeIs ==
    ASSUME NEW t \in Trees
    PROVE  /\ t = [files |-> t.files, folders |-> t.folders]
           /\ DOMAIN t.files \subseteq FullPaths /\ t.folders \subseteq FullPaths
           /\ t.files \in [DOMAIN t.files -> FullPaths \cup {Broken}]
           /\ t.files = [p \in DOMAIN t.files |-> t.files[p]]
           /\ \A p \in DOMAIN t.files \cup t.folders :
                 p \in AnyPath /\ Len(p) \in Nat \ {0}
  BY FullPathIs DEF Trees

LEMMA IsATree ==
    ASSUME NEW S \in SUBSET FullPaths, NEW f \in [S -> FullPaths \cup {Broken}],
           NEW d \in SUBSET FullPaths
    PROVE  [files |-> f, folders |-> d] \in Trees
  BY DEF Trees

LEMMA DirsAre ==
    ASSUME NEW t \in Trees, NEW op \in Operations,
           NEW o \in FullPaths, NEW n \in FullPaths, NEW q
    PROVE  q \in Dirs(t, op, o, n) <=>
              /\ q \in t.folders /\ Tree!Within(o, q)
              /\ Front(q) \in {o} \cup Dirs(t, op, o, n)
              /\ op # "delete" => Moved(q, o, n) \notin t.folders
<1> DEFINE D == Dirs(t, op, o, n)
<1>1. o \in AnyPath /\ n \in AnyPath
  BY FullPathIs
<1>2. \A x \in t.folders : x \in AnyPath /\ Len(x) # 0
  BY TreeIs
<1>3. \A x \in D : x \in t.folders /\ Tree!Within(o, x)
  BY DEF Dirs, Tree!Below, Tree!TakenFolders
<1>4. SUFFICES ASSUME q \in t.folders, Tree!Within(o, q)
               PROVE  q \in D <=> /\ Front(q) \in {o} \cup D
                                  /\ op # "delete" => Moved(q, o, n) \notin t.folders
  BY <1>3
<1> DEFINE u == Front(q)
<1>5. /\ Under(o, q) /\ o # q /\ u \in AnyPath /\ Under(o, u)
      /\ Tree!Way(o, q) = Tree!Way(o, u) \cup {q} /\ Tree!Front(q) = u
  <2>1. Under(o, q) /\ o # q
    BY <1>1, <1>2, <1>4, WithinIs DEF Tree!Within, Tree!IsStrictPrefix
  <2> QED BY <1>1, <1>2, <1>4, <2>1, WayIs, FrontIs
<1>6. u = o => Tree!Way(o, u) = {}
  BY <1>1, UnderSelf, WayIs
<1>7. u # o => Tree!Within(o, u) /\ u \in Tree!Way(o, u)
               /\ Tree!Way(o, u) = Tree!Way(o, Front(u)) \cup {u}
               /\ Tree!Way(o, Front(u)) \subseteq Tree!Way(o, u)
               /\ Tree!Front(u) = Front(u)
  <2>1. ASSUME u # o PROVE Len(u) # 0
    BY <1>1, <1>5, <2>1, UnderSelf, WithinIs DEF Under
  <2> QED BY <1>1, <1>5, <2>1, WayIs, FrontIs
<1>8. CASE op = "delete"
  <2>1. D = {x \in t.folders : Tree!Within(o, x)
                                 /\ Tree!Way(o, Tree!Front(x)) \subseteq t.folders}
    BY <1>8 DEF Dirs, Tree!Below, Tree!Entries
  <2>2. q \in D <=> Tree!Way(o, u) \subseteq t.folders
    BY <1>4, <1>5, <2>1
  <2>3. u # o => (u \in D <=> Tree!Way(o, u) \subseteq t.folders)
    BY <1>7, <2>1
  <2>4. o \notin D
    BY <1>1, <1>3, WithinIs DEF Tree!Within, Tree!IsStrictPrefix
  <2> QED BY <1>6, <1>8, <2>2, <2>3, <2>4
<1>9. CASE op # "delete"
  <2>1. D = {x \in t.folders : Tree!Within(o, x) /\
                \A w \in Tree!Way(o, x) : w \in t.folders /\ Moved(w, o, n) \notin t.folders}
    BY <1>9 DEF Dirs, Tree!TakenFolders, Moved
  <2>2. q \in D <=> /\ \A w \in Tree!Way(o, u) :
                          w \in t.folders /\ Moved(w, o, n) \notin t.folders
                    /\ Moved(q, o, n) \notin t.folders
    BY <1>4, <1>5, <2>1
  <2>3. u # o => (u \in D <=> \A w \in Tree!Way(o, u) :
                                 w \in t.folders /\ Moved(w, o, n) \notin t.folders)
    BY <1>7, <2>1
  <2>4. o \notin D
    BY <1>1, <1>3, WithinIs DEF Tree!Within, Tree!IsStrictPrefix
  <2> QED BY <1>6, <1>9, <2>2, <2>3, <2>4
<1> QED BY <1>8, <1>9

LEMMA DocsAre ==
    ASSUME NEW t \in Trees, NEW op \in Operations,
           NEW o \in FullPaths, NEW n \in FullPaths, NEW p
    PROVE  p \in Docs(t, op, o, n) <=>
              /\ p \in DOMAIN t.files /\ Tree!Within(o, p)
              /\ Front(p) \in {o} \cup Dirs(t, op, o, n)
              /\ op # "delete" => Moved(p, o, n) \notin Entries(t)
<1> DEFINE D == Dirs(t, op, o, n)
<1>1. o \in AnyPath /\ n \in AnyPath
  BY FullPathIs
<1>2. \A x \in DOMAIN t.files : x \in AnyPath /\ Len(x) # 0
  BY TreeIs
<1>3. SUFFICES ASSUME p \in DOMAIN t.files, Tree!Within(o, p)
               PROVE  p \in Docs(t, op, o, n) <=>
                         /\ Front(p) \in {o} \cup D
                         /\ op # "delete" => Moved(p, o, n) \notin Entries(t)
  BY DEF Docs, Tree!Below, Tree!TakenFiles
<1>4. Tree!Front(p) = Front(p)
  BY <1>2, <1>3, FrontIs
<1>5. CASE op = "delete"
  <2> DEFINE u == Front(p)
  <2>1. p \in Docs(t, op, o, n) <=> Tree!Way(o, u) \subseteq t.folders
    BY <1>3, <1>4, <1>5 DEF Docs, Tree!Below, Tree!Entries
  <2>2. u \in AnyPath /\ Under(o, u)
    BY <1>1, <1>2, <1>3, UnderFront
  <2>3. u = o => Tree!Way(o, u) = {}
    BY <1>1, UnderSelf, WayIs
  <2>4. ASSUME u # o
        PROVE  u \in D <=> Tree!Way(o, u) \subseteq t.folders
    <3>1. Tree!Within(o, u) /\ u \in Tree!Way(o, u)
          /\ Tree!Way(o, Front(u)) \subseteq Tree!Way(o, u)
          /\ Tree!Way(o, u) = Tree!Way(o, Front(u)) \cup {u}
      BY <1>1, <2>2, <2>4, WayIs
    <3>2. Len(u) # 0
      BY <1>1, <2>2, <2>4, UnderSelf, WithinIs DEF Under
    <3>3. Tree!Front(u) = Front(u)
      BY <2>2, <3>2, FrontIs
    <3> QED BY <1>5, <3>1, <3>3 DEF Dirs, Tree!Below, Tree!Entries
  <2> QED BY <1>5, <2>1, <2>3, <2>4
<1>6. CASE op # "delete"
  BY <1>3, <1>4, <1>6 DEF Docs, Dirs, Tree!TakenFiles, Moved, Entries
<1> QED BY <1>5, <1>6

Feasible(t, op, o, n) ==
    /\ t \in Trees /\ op \in Operations /\ o \in t.folders /\ n \in FullPaths
    /\ op = "delete" => n = o
    /\ op # "delete" => n # o /\ n \notin t.folders
    /\ \A p \in Dirs(t, op, o, n) \cup Docs(t, op, o, n) : Moved(p, o, n) \in FullPaths

(* The entries that the call comes to.                                      *)
Met(t, op, o, n) ==
    {x \in AnyPath : Tree!Within(o, x) /\ Front(x) \in {o} \cup Dirs(t, op, o, n)}

LEMMA FeasibleIs ==
    ASSUME NEW t, NEW op, NEW o, NEW n, Feasible(t, op, o, n)
    PROVE  /\ t \in Trees /\ op \in Operations /\ o \in FullPaths /\ n \in FullPaths
           /\ o \in AnyPath /\ n \in AnyPath /\ Len(o) \in Nat \ {0}
           /\ Dirs(t, op, o, n) \subseteq t.folders \cap Met(t, op, o, n)
           /\ Docs(t, op, o, n) \subseteq DOMAIN t.files \cap Met(t, op, o, n)
           /\ o \notin Met(t, op, o, n) /\ o \notin Dirs(t, op, o, n)
           /\ \A x \in {o} \cup Dirs(t, op, o, n) \cup Met(t, op, o, n) :
                 x \in AnyPath /\ Under(o, x)
<1>1. t \in Trees /\ op \in Operations /\ o \in t.folders /\ n \in FullPaths
  BY DEF Feasible
<1>2. t.folders \subseteq FullPaths
  BY <1>1, TreeIs
<1>3. o \in FullPaths /\ o \in AnyPath /\ n \in AnyPath /\ Len(o) \in Nat \ {0}
  BY <1>1, <1>2, FullPathIs
<1>4. Dirs(t, op, o, n) \subseteq t.folders \cap Met(t, op, o, n)
  BY <1>1, <1>3, DirsAre, TreeIs DEF Met
<1>5. Docs(t, op, o, n) \subseteq DOMAIN t.files \cap Met(t, op, o, n)
  BY <1>1, <1>3, DocsAre, TreeIs DEF Met
<1>6. o \notin Met(t, op, o, n)
  BY <1>3, WithinIs DEF Met
<1>7. \A x \in Met(t, op, o, n) : x \in AnyPath /\ Under(o, x)
  BY <1>3, WithinIs DEF Met
<1> QED BY <1>1, <1>3, <1>4, <1>5, <1>6, <1>7, UnderSelf

LEMMA OnTheWayMet ==
    ASSUME NEW t, NEW op, NEW o, NEW n, Feasible(t, op, o, n),
           NEW x \in {o} \cup Dirs(t, op, o, n), NEW z \in AnyPath,
           Under(o, z), Under(z, x)
    PROVE  z \in {o} \cup Dirs(t, op, o, n)
<1> DEFINE D == Dirs(t, op, o, n)
<1>1. /\ t \in Trees /\ op \in Operations /\ o \in FullPaths /\ n \in FullPaths
      /\ o \in AnyPath /\ D \subseteq Met(t, op, o, n)
      /\ \A y \in {o} \cup D : y \in AnyPath /\ Under(o, y)
  BY FeasibleIs
<1> HIDE DEF D
<1> DEFINE B == {y \in {o} \cup D : Under(z, y)}
<1> DEFINE L == {Len(y) : y \in B}
<1>2. L \subseteq Nat /\ L # {}
  <2>1. x \in B
    BY DEF D
  <2>2. \A y \in B : Len(y) \in Nat
    BY <1>1, LenProperties DEF AnyPath
  <2> QED BY <2>1, <2>2
<1>3. PICK k \in L : \A i \in L : k <= i
  BY <1>2, LeastNatural
<1>4. PICK y \in B : Len(y) = k
  BY <1>3
<1>5. CASE z = y
  BY <1>4, <1>5 DEF D
<1>6. CASE z # y
  <2>1. y \in AnyPath /\ Under(z, y) /\ Len(z) < Len(y)
    <3>1. y \in AnyPath /\ Under(z, y)
      BY <1>1, <1>4
    <3>2. Len(z) # Len(y)
      BY <1>6, <3>1, WithinIs
    <3>3. Len(z) \in Nat /\ Len(y) \in Nat /\ Len(z) <= Len(y)
      BY <3>1, WithinIs DEF Under
    <3> QED BY <3>1, <3>2, <3>3
  <2>2. Len(o) <= Len(z) /\ Len(o) \in Nat /\ Len(z) \in Nat /\ Len(y) \in Nat
    BY <1>1, <2>1, LenProperties DEF Under, AnyPath
  <2>3. y \in D
    <3>1. y # o
      BY <2>1, <2>2
    <3> QED BY <1>4, <3>1
  <2>4. Front(y) \in {o} \cup D
    BY <1>1, <2>3 DEF Met, D
  <2>5. Under(z, Front(y)) /\ Len(Front(y)) = Len(y) - 1
    <3>1. Len(y) # 0
      BY <2>1, <2>2
    <3> QED BY <2>1, <3>1, UnderFront, WithinIs
  <2>6. Len(Front(y)) \in L
    BY <2>4, <2>5
  <2> QED BY <1>3, <1>4, <2>2, <2>5, <2>6
<1> QED BY <1>5, <1>6

(* The new places are none that the call comes to.                          *)
LEMMA PlacesApart ==
    ASSUME NEW t, NEW op, NEW o, NEW n, Feasible(t, op, o, n), op # "delete",
           NEW x \in Met(t, op, o, n), NEW y \in Met(t, op, o, n)
    PROVE  Moved(x, o, n) # y
<1> DEFINE D == Dirs(t, op, o, n)
<1>1. /\ t \in Trees /\ op \in Operations /\ o \in FullPaths /\ n \in FullPaths
      /\ o \in AnyPath /\ n \in AnyPath /\ D \subseteq t.folders
      /\ x \in AnyPath /\ Under(o, x) /\ y \in AnyPath /\ Under(o, y)
      /\ Front(x) \in {o} \cup D /\ Front(y) \in {o} \cup D
      /\ Tree!Within(o, x) /\ Tree!Within(o, y)
      /\ o \in t.folders
  BY FeasibleIs DEF Met, Feasible
<1>2. SUFFICES ASSUME Moved(x, o, n) = y PROVE FALSE
  OBVIOUS
<1>3. /\ Len(o) \in Nat /\ Len(n) \in Nat /\ Len(x) \in Nat /\ Len(y) \in Nat
      /\ Len(o) < Len(x) /\ Len(o) < Len(y)
  BY <1>1, WithinIs, UnderSelf
<1>4. Under(n, y) /\ Len(y) = Len(n) + (Len(x) - Len(o))
      /\ \A i \in 1 .. Len(x) - Len(o) : y[Len(n) + i] = x[Len(o) + i]
  BY <1>1, <1>2, MovedIs
<1>5. /\ Front(x) \in AnyPath /\ Len(Front(x)) = Len(x) - 1
      /\ Front(y) \in AnyPath /\ Len(Front(y)) = Len(y) - 1
      /\ \A z \in AnyPath : Tree!Within(z, x) <=> Under(z, Front(x))
      /\ \A z \in AnyPath : Tree!Within(z, y) <=> Under(z, Front(y))
  BY <1>1, <1>3, UnderFront
<1>6. CASE Len(n) >= Len(o)
  <2>1. Under(o, n)
    BY <1>1, <1>4, <1>6, UnderBoth
  <2>2. Tree!Within(n, y)
    BY <1>1, <1>3, <1>4, WithinIs
  <2>3. n \in {o} \cup D
    BY <1>1, <1>5, <2>1, <2>2, OnTheWayMet
  <2> QED BY <1>1, <2>3 DEF Feasible
<1>7. CASE Len(n) < Len(o)
  <2> DEFINE k == Len(o) + (Len(o) - Len(n))
  <2> DEFINE z == SubSeq(x, 1, k)
  <2>1. k \in 0 .. Len(x) /\ k < Len(x) /\ Len(o) < k
    BY <1>3, <1>4, <1>7
  <2> HIDE DEF k
  <2>2. z \in AnyPath /\ Len(z) = k /\ Under(z, x)
    BY <1>1, <2>1, OnTheWay
  <2> HIDE DEF z
  <2>3. Under(o, z) /\ z # o
    BY <1>1, <2>1, <2>2, UnderBoth
  <2>4. Under(z, Front(x))
    BY <1>1, <1>5, <2>1, <2>2, WithinIs
  <2>5. z \in D
    BY <1>1, <2>2, <2>3, <2>4, <1>5, OnTheWayMet
  <2>6. Moved(z, o, n) \notin t.folders
    BY <1>1, <2>5, DirsAre
  <2>7. Moved(z, o, n) = o
    <3> DEFINE m == Moved(z, o, n)
    <3>1. /\ m \in AnyPath /\ Len(m) = Len(o) /\ Under(n, m)
          /\ \A i \in 1 .. k - Len(o) : m[Len(n) + i] = z[Len(o) + i]
      <4>1. Len(n) + (k - Len(o)) = Len(o)
        BY <1>3 DEF k
      <4> QED BY <1>1, <2>2, <2>3, <4>1, MovedIs
    <3> HIDE DEF m
    <3>2. ASSUME NEW i \in 1 .. Len(o) PROVE m[i] = o[i]
      <4>1. CASE i <= Len(n)
        <5>1. i \in 1 .. Len(n)
          BY <1>3, <4>1
        <5> QED BY <1>1, <1>4, <3>1, <5>1 DEF Under
      <4>2. CASE ~(i <= Len(n))
        <5> DEFINE j == i - Len(n)
        <5>1. /\ j \in 1 .. k - Len(o) /\ Len(n) + j = i /\ j \in 1 .. Len(x) - Len(o)
              /\ Len(o) + j \in 1 .. k
          BY <1>3, <1>7, <2>1, <4>2 DEF k
        <5> HIDE DEF j
        <5>2. m[i] = z[Len(o) + j]
          BY <3>1, <5>1
        <5>3. z[Len(o) + j] = x[Len(o) + j]
          BY <2>2, <5>1 DEF Under
        <5>4. y[i] = x[Len(o) + j]
          BY <1>4, <5>1
        <5> QED BY <1>1, <5>2, <5>3, <5>4 DEF Under
      <4> QED BY <4>1, <4>2
    <3>3. m = o
      BY <1>1, <3>1, <3>2, SeqEqual DEF AnyPath
    <3> QED BY <3>3 DEF m
  <2> QED BY <1>1, <2>6, <2>7
<1> QED BY <1>3, <1>6, <1>7

LEMMA ShortestPath ==
    ASSUME NEW S, S \subseteq AnyPath, S # {}
    PROVE  \E x \in S : \A y \in S : Len(x) <= Len(y)
<1> DEFINE L == {Len(y) : y \in S}
<1>1. L \subseteq Nat /\ L # {}
  BY LenProperties DEF AnyPath
<1>2. PICK k \in L : \A i \in L : k <= i
  BY <1>1, LeastNatural
<1> QED BY <1>2

-----------------------------------------------------------------------------
(* The tree when the call has taken the files F and done the folders D.     *)
Gone(op, F) == IF op = "copy" THEN {} ELSE F
Come(op, o, n, F) == IF op = "delete" THEN {} ELSE {Moved(p, o, n) : p \in F}

Half(m, t, op, o, n, F, D) ==
    /\ m \in Trees
    /\ DOMAIN m.files = (DOMAIN t.files \ Gone(op, F)) \cup Come(op, o, n, F)
    /\ m.folders = (t.folders \ Gone(op, D)) \cup Come(op, o, n, D)
    /\ \A p \in DOMAIN t.files \ Gone(op, F) : m.files[p] = t.files[p]
    /\ \A p \in F : /\ op = "rename" => m.files[Moved(p, o, n)] = t.files[p]
                    /\ op = "copy" => m.files[Moved(p, o, n)] \in {t.files[p], Broken}

(* A folder is done after all that is in it, and folders after files.       *)
Orderly(t, op, o, n, F, D) ==
    /\ F \subseteq Docs(t, op, o, n) /\ D \subseteq Dirs(t, op, o, n)
    /\ \A p \in Docs(t, op, o, n) : (Front(p) \in D => p \in F) /\ (p \in D => p \in F)
    /\ \A q \in Dirs(t, op, o, n) : Front(q) \in D => q \in D

(* What is left to do is what the call has not done yet, no more: so it can *)
(* be made again.                                                           *)
LEMMA LeftToDo ==
    ASSUME NEW t, NEW op, NEW o, NEW n, Feasible(t, op, o, n), op # "copy",
           NEW F, NEW D, Orderly(t, op, o, n, F, D),
           NEW m, Half(m, t, op, o, n, F, D)
    PROVE  /\ Feasible(m, op, o, n)
           /\ Dirs(m, op, o, n) = Dirs(t, op, o, n) \ D
           /\ Docs(m, op, o, n) = Docs(t, op, o, n) \ F
<1> DEFINE TD == Dirs(t, op, o, n)
<1> DEFINE TF == Docs(t, op, o, n)
<1> DEFINE MD == Dirs(m, op, o, n)
<1> DEFINE MF == Docs(m, op, o, n)
<1>1. /\ t \in Trees /\ op \in Operations /\ o \in FullPaths /\ n \in FullPaths
      /\ o \in AnyPath /\ n \in AnyPath /\ TD \subseteq t.folders
      /\ TF \subseteq DOMAIN t.files
      /\ TD \subseteq Met(t, op, o, n) /\ TF \subseteq Met(t, op, o, n)
      /\ o \notin TD /\ m \in Trees /\ F \subseteq TF /\ D \subseteq TD
      /\ \A x \in {o} \cup Met(t, op, o, n) : x \in AnyPath /\ Under(o, x)
  BY FeasibleIs DEF Half, Orderly
<1>2. /\ m.folders = (t.folders \ D) \cup Come(op, o, n, D)
      /\ DOMAIN m.files = (DOMAIN t.files \ F) \cup Come(op, o, n, F)
  BY DEF Half, Gone
<1>3. \A q : q \in TD <=> /\ q \in t.folders /\ Tree!Within(o, q)
                          /\ Front(q) \in {o} \cup TD
                          /\ op # "delete" => Moved(q, o, n) \notin t.folders
  BY <1>1, DirsAre
<1>4. \A q : q \in MD <=> /\ q \in m.folders /\ Tree!Within(o, q)
                          /\ Front(q) \in {o} \cup MD
                          /\ op # "delete" => Moved(q, o, n) \notin m.folders
  BY <1>1, DirsAre
<1>5. \A p : p \in TF <=> /\ p \in DOMAIN t.files /\ Tree!Within(o, p)
                          /\ Front(p) \in {o} \cup TD
                          /\ op # "delete" => Moved(p, o, n) \notin Entries(t)
  BY <1>1, DocsAre
<1>6. \A p : p \in MF <=> /\ p \in DOMAIN m.files /\ Tree!Within(o, p)
                          /\ Front(p) \in {o} \cup MD
                          /\ op # "delete" => Moved(p, o, n) \notin Entries(m)
  BY <1>1, DocsAre
<1>7. m.folders \subseteq AnyPath /\ t.folders \subseteq AnyPath
      /\ DOMAIN m.files \subseteq AnyPath
  BY <1>1, TreeIs
<1>8. ASSUME op # "delete", NEW x \in {o} \cup Met(t, op, o, n), NEW S \in SUBSET Met(t, op, o, n)
      PROVE  Moved(x, o, n) \in Come(op, o, n, S) <=> x \in S
  <2>1. Moved(x, o, n) \in Come(op, o, n, S) <=>
           \E y \in S : Moved(x, o, n) = Moved(y, o, n)
    BY <1>8 DEF Come
  <2>2. \A y \in S : Moved(x, o, n) = Moved(y, o, n) => x = y
    BY <1>1, <1>8, MovedApart
  <2> QED BY <2>1, <2>2
<1>9. ASSUME NEW x \in Met(t, op, o, n), NEW S \in SUBSET Met(t, op, o, n)
      PROVE  x \notin Come(op, o, n, S)
  BY <1>9, PlacesApart DEF Come
<1>10. ASSUME NEW q \in AnyPath,
              Front(q) \in {o} \cup MD <=> Front(q) \in {o} \cup (TD \ D)
       PROVE  q \in MD <=> q \in TD \ D
  <2>1. ASSUME q \in MD PROVE q \in TD \ D
    <3>1. q \in Met(t, op, o, n)
      BY <1>4, <1>10, <2>1 DEF Met
    <3>2. q \in t.folders /\ q \notin D
      BY <1>1, <1>2, <1>4, <1>9, <2>1, <3>1
    <3>3. ASSUME op # "delete" PROVE Moved(q, o, n) \notin t.folders
      <4>1. Moved(q, o, n) \notin m.folders
        BY <1>4, <2>1, <3>3
      <4>2. Moved(q, o, n) \notin D
        BY <1>1, <3>1, <3>3, PlacesApart
      <4> QED BY <1>2, <4>1, <4>2
    <3> QED BY <1>3, <1>4, <1>10, <2>1, <3>2, <3>3
  <2>2. ASSUME q \in TD \ D PROVE q \in MD
    <3>1. Front(q) \in {o} \cup (TD \ D)
      BY <1>3, <2>2 DEF Orderly
    <3>2. ASSUME op # "delete" PROVE Moved(q, o, n) \notin m.folders
      BY <1>1, <1>2, <1>3, <1>8, <2>2, <3>2
    <3> QED BY <1>2, <1>3, <1>4, <1>10, <2>2, <3>1, <3>2
  <2> QED BY <2>1, <2>2
<1>11. MD = TD \ D
  <2> DEFINE S == {q \in AnyPath : ~(q \in MD <=> q \in TD \ D)}
  <2>1. SUFFICES S = {}
    BY <1>1, <1>3, <1>4, <1>7
  <2>2. SUFFICES ASSUME S # {} PROVE FALSE
    OBVIOUS
  <2>3. PICK q \in S : \A y \in S : Len(q) <= Len(y)
    BY <2>2, ShortestPath
  <2>4. Tree!Within(o, q)
    BY <1>3, <1>4, <2>3
  <2>5. q \in AnyPath /\ Len(q) \in Nat \ {0}
    BY <1>1, <2>3, <2>4, WithinIs, UnderSelf
  <2>6. Front(q) \in AnyPath /\ Len(Front(q)) = Len(q) - 1
    BY <2>5, FrontIs
  <2>7. Front(q) \notin S
    BY <2>3, <2>5, <2>6
  <2>8. o \notin MD /\ o \notin TD
    BY <1>1, <1>3, <1>4, WithinIs
  <2> QED BY <1>10, <2>3, <2>5, <2>6, <2>7, <2>8
<1>12. ASSUME NEW p \in AnyPath
       PROVE  p \in MF <=> p \in TF \ F
  <2>1. ASSUME p \in MF PROVE p \in TF \ F
    <3>1. p \in Met(t, op, o, n)
      BY <1>6, <1>11, <2>1 DEF Met
    <3>2. p \in DOMAIN t.files /\ p \notin F
      BY <1>1, <1>2, <1>6, <1>9, <2>1, <3>1
    <3>3. ASSUME op # "delete" PROVE Moved(p, o, n) \notin Entries(t)
      <4>1. Moved(p, o, n) \notin Entries(m)
        BY <1>6, <2>1, <3>3
      <4>2. Moved(p, o, n) \notin D /\ Moved(p, o, n) \notin F
        BY <1>1, <3>1, <3>3, PlacesApart
      <4> QED BY <1>2, <4>1, <4>2 DEF Entries, Tree!Entries
    <3> QED BY <1>5, <1>6, <1>11, <2>1, <3>2, <3>3
  <2>2. ASSUME p \in TF \ F PROVE p \in MF
    <3>1. Front(p) \in {o} \cup (TD \ D) /\ p \notin D
      BY <1>5, <2>2 DEF Orderly
    <3>2. ASSUME op # "delete" PROVE Moved(p, o, n) \notin Entries(m)
      <4>1. Moved(p, o, n) \notin m.folders
        BY <1>1, <1>2, <1>5, <1>8, <2>2, <3>1, <3>2 DEF Entries, Tree!Entries
      <4>2. Moved(p, o, n) \notin DOMAIN m.files
        BY <1>1, <1>2, <1>5, <1>8, <2>2, <3>2 DEF Entries, Tree!Entries
      <4> QED BY <4>1, <4>2 DEF Entries, Tree!Entries
    <3> QED BY <1>2, <1>5, <1>6, <1>11, <2>2, <3>1, <3>2
  <2> QED BY <2>1, <2>2
<1>13. MF = TF \ F
  BY <1>1, <1>6, <1>7, <1>12
<1>14. o \in m.folders
  BY <1>1, <1>2 DEF Feasible
<1>15. op # "delete" => n \notin m.folders
  <2>1. Moved(o, o, n) = n
    BY <1>1, MovedSelf
  <2> QED BY <1>1, <1>2, <1>8, <2>1 DEF Feasible
<1>16. \A p \in MD \cup MF : Moved(p, o, n) \in FullPaths
  BY <1>11, <1>13 DEF Feasible
<1>17. Feasible(m, op, o, n)
  BY <1>1, <1>14, <1>15, <1>16 DEF Feasible
<1> QED BY <1>11, <1>13, <1>17

(* What a call that deletes or moves a folder is to achieve.                *)
Achieved(op, t, o, n) ==
    IF op = "rename" THEN Tree!Renamed(t, o, n) ELSE Tree!Deleted(t, o)

NewRoot(op, n) == IF op = "delete" THEN {} ELSE {n}

Ended(r, t, op, o, n) ==
    /\ r = [files |-> r.files, folders |-> r.folders]
    /\ r.files = [p \in DOMAIN r.files |-> r.files[p]]
    /\ DOMAIN r.files = (DOMAIN t.files \ Docs(t, op, o, n))
                            \cup Come(op, o, n, Docs(t, op, o, n))
    /\ r.folders = (t.folders \ ({o} \cup Dirs(t, op, o, n)))
                      \cup NewRoot(op, n) \cup Come(op, o, n, Dirs(t, op, o, n))
    /\ \A p \in DOMAIN t.files \ Docs(t, op, o, n) : r.files[p] = t.files[p]
    /\ op = "rename" => \A p \in Docs(t, op, o, n) : r.files[Moved(p, o, n)] = t.files[p]

LEMMA EndedOnce ==
    ASSUME NEW t, NEW op \in {"rename", "delete"}, NEW o, NEW n,
           NEW r, NEW s, Ended(r, t, op, o, n), Ended(s, t, op, o, n)
    PROVE  r = s
<1>1. DOMAIN r.files = DOMAIN s.files /\ r.folders = s.folders
  BY DEF Ended
<1>2. \A p \in DOMAIN r.files : r.files[p] = s.files[p]
  BY DEF Ended, Come
<1>3. r.files = s.files
  BY <1>1, <1>2 DEF Ended
<1> QED BY <1>1, <1>3 DEF Ended

LEMMA DeletedEnds ==
    ASSUME NEW t, NEW o, Feasible(t, "delete", o, o)
    PROVE  Ended(Tree!Deleted(t, o), t, "delete", o, o)
<1> DEFINE r == Tree!Deleted(t, o)
<1> DEFINE d == DOMAIN t.files \ Tree!Below(t, o)
<1>1. r = [files |-> Tree!Restrict(t.files, d), folders |-> t.folders \ ({o} \cup Tree!Below(t, o))]
  BY DEF Tree!Deleted
<1>2. Tree!Restrict(t.files, d) = [p \in d |-> t.files[p]]
  BY DEF Tree!Restrict
<1>3. d = DOMAIN t.files \ Docs(t, "delete", o, o)
  BY DEF Docs
<1>4. t.folders \ ({o} \cup Tree!Below(t, o)) = t.folders \ ({o} \cup Dirs(t, "delete", o, o))
  BY DEF Dirs
<1> HIDE DEF r, d
<1>5. /\ r.files = [p \in d |-> t.files[p]]
      /\ r.folders = t.folders \ ({o} \cup Dirs(t, "delete", o, o))
  BY <1>1, <1>2, <1>4
<1>6. r = [files |-> r.files, folders |-> r.folders]
  BY <1>1
<1>7. Ended(r, t, "delete", o, o)
  BY <1>3, <1>5, <1>6 DEF Ended, Come, NewRoot
<1> QED BY <1>7 DEF r

(* The tree with the copies, which a move leaves without the originals.     *)
WithCopies(c, t, op, o, n) ==
    LET taken == Docs(t, op, o, n)
        copies == Come(op, o, n, taken)
    IN  /\ taken = Tree!TakenFiles(t, o, n)
        /\ Dirs(t, op, o, n) = Tree!TakenFolders(t, o, n)
        /\ copies = Tree!Copies(taken, o, n)
        /\ c = [files |-> c.files, folders |-> c.folders]
        /\ c.files = [p \in DOMAIN c.files |-> c.files[p]]
        /\ DOMAIN c.files = DOMAIN t.files \cup copies
        /\ c.folders = t.folders \cup {n} \cup Come(op, o, n, Dirs(t, op, o, n))
        /\ copies \cap DOMAIN t.files = {}
        /\ \A p \in DOMAIN t.files : c.files[p] = t.files[p]
        /\ \A p \in taken : c.files[Moved(p, o, n)] = t.files[p]

LEMMA CopiesAre ==
    ASSUME NEW t, NEW op \in {"copy", "rename"}, NEW o, NEW n, Feasible(t, op, o, n)
    PROVE  WithCopies(Tree!Copied(t, o, n), t, op, o, n)
<1> DEFINE c == Tree!Copied(t, o, n)
<1> DEFINE taken == Docs(t, op, o, n)
<1> DEFINE copies == Come(op, o, n, taken)
<1> DEFINE dirs == Dirs(t, op, o, n)
<1>1. /\ t \in Trees /\ op \in Operations /\ o \in FullPaths /\ n \in FullPaths
      /\ o \in AnyPath /\ n \in AnyPath
      /\ \A p \in taken : p \in AnyPath /\ Under(o, p)
  BY FeasibleIs
<1>2. taken = Tree!TakenFiles(t, o, n) /\ dirs = Tree!TakenFolders(t, o, n)
  BY DEF Docs, Dirs
<1>3. /\ copies = Tree!Copies(taken, o, n)
      /\ Come(op, o, n, dirs) = Tree!Copies(dirs, o, n)
  BY DEF Come, Tree!Copies, Moved
<1>4. copies \cap DOMAIN t.files = {}
  BY <1>1, DocsAre DEF Come, Entries, Tree!Entries
<1>5. t = [files |-> t.files, folders |-> t.folders]
  BY <1>1, TreeIs
<1> DEFINE from(p) == CHOOSE q \in taken : Moved(q, o, n) = p
<1> DEFINE g == [p \in DOMAIN t.files \cup copies |->
                    IF p \in copies THEN t.files[from(p)] ELSE t.files[p]]
<1>6. Tree!FilesWithCopies(t, o, n) = [files |-> g, folders |-> t.folders]
  <2>1. Tree!FilesWithCopies(t, o, n) = [t EXCEPT !.files = g]
    BY <1>2, <1>3 DEF Tree!FilesWithCopies, Moved
  <2> HIDE DEF g
  <2> QED BY <1>5, <2>1
<1> HIDE DEF g
<1>7. c = [files |-> g, folders |-> t.folders \cup {n} \cup Come(op, o, n, dirs)]
  <2>1. c = Tree!FoldersWithCopies([files |-> g, folders |-> t.folders], o, n)
    BY <1>6 DEF Tree!Copied
  <2>2. Tree!TakenFolders([files |-> g, folders |-> t.folders], o, n) = dirs
    BY <1>2 DEF Tree!TakenFolders
  <2> QED BY <1>3, <2>1, <2>2 DEF Tree!FoldersWithCopies
<1> HIDE DEF c
<1>8. ASSUME NEW p \in taken PROVE g[Moved(p, o, n)] = t.files[p]
  <2>1. Moved(p, o, n) \in copies
    BY <1>8 DEF Come
  <2>2. from(Moved(p, o, n)) \in taken /\ Moved(from(Moved(p, o, n)), o, n) = Moved(p, o, n)
    BY <1>8
  <2>3. from(Moved(p, o, n)) = p
    BY <1>1, <1>8, <2>2, MovedApart
  <2> QED BY <2>1, <2>3 DEF g
<1>9. \A p \in DOMAIN t.files : g[p] = t.files[p]
  BY <1>4 DEF g
<1>10. DOMAIN g = DOMAIN t.files \cup copies /\ g = [p \in DOMAIN g |-> g[p]]
  BY DEF g
<1>11. /\ c.files = g /\ c.folders = t.folders \cup {n} \cup Come(op, o, n, dirs)
       /\ c = [files |-> c.files, folders |-> c.folders]
  BY <1>7
<1>12. /\ c.files = [p \in DOMAIN c.files |-> c.files[p]]
       /\ DOMAIN c.files = DOMAIN t.files \cup copies
       /\ \A p \in DOMAIN t.files : c.files[p] = t.files[p]
       /\ \A p \in taken : c.files[Moved(p, o, n)] = t.files[p]
  BY <1>8, <1>9, <1>10, <1>11
<1> QED BY <1>2, <1>3, <1>4, <1>11, <1>12 DEF c, WithCopies

LEMMA RenamedEnds ==
    ASSUME NEW t, NEW op, op = "rename", NEW o, NEW n, Feasible(t, op, o, n)
    PROVE  Ended(Tree!Renamed(t, o, n), t, op, o, n)
<1> DEFINE c == Tree!Copied(t, o, n)
<1> DEFINE r == Tree!Renamed(t, o, n)
<1> DEFINE taken == Docs(t, op, o, n)
<1> DEFINE dirs == Dirs(t, op, o, n)
<1> DEFINE copies == Come(op, o, n, taken)
<1>1. /\ o \in AnyPath /\ n \in AnyPath /\ dirs \subseteq t.folders
      /\ dirs \subseteq Met(t, op, o, n) /\ taken \subseteq Met(t, op, o, n)
      /\ o \in t.folders /\ n \notin t.folders
      /\ \A x \in {o} \cup Met(t, op, o, n) : x \in AnyPath /\ Under(o, x)
  BY FeasibleIs DEF Feasible
<1>2. /\ taken = Tree!TakenFiles(t, o, n) /\ dirs = Tree!TakenFolders(t, o, n)
      /\ DOMAIN c.files = DOMAIN t.files \cup copies
      /\ c.folders = t.folders \cup {n} \cup Come(op, o, n, dirs)
      /\ copies \cap DOMAIN t.files = {}
      /\ \A p \in DOMAIN t.files : c.files[p] = t.files[p]
      /\ \A p \in taken : c.files[Moved(p, o, n)] = t.files[p]
  <2>1. WithCopies(c, t, op, o, n)
    BY CopiesAre
  <2> HIDE DEF c
  <2> QED BY <2>1 DEF WithCopies
<1>3. r = [files |-> Tree!Restrict(c.files, DOMAIN c.files \ taken),
           folders |-> c.folders \ ({o} \cup dirs)]
  BY <1>2 DEF Tree!Renamed
<1> HIDE DEF c, r
<1> DEFINE d == DOMAIN c.files \ taken
<1>4. Tree!Restrict(c.files, d) = [p \in d |-> c.files[p]]
  BY DEF Tree!Restrict
<1>5. d = (DOMAIN t.files \ taken) \cup copies
  <2>1. copies \cap taken = {}
    BY <1>1, PlacesApart DEF Come
  <2> QED BY <1>2, <2>1
<1>6. c.folders \ ({o} \cup dirs)
         = (t.folders \ ({o} \cup dirs)) \cup {n} \cup Come(op, o, n, dirs)
  <2>1. ASSUME NEW x \in Come(op, o, n, dirs)
        PROVE  x \notin {o} \cup dirs
    <3>1. PICK q \in dirs : x = Moved(q, o, n)
      BY <2>1 DEF Come
    <3>2. Moved(q, o, n) \notin t.folders
      BY <3>1, FeasibleIs, DirsAre
    <3> QED BY <1>1, <3>1, <3>2
  <2>2. n \notin {o} \cup dirs
    BY <1>1
  <2> QED BY <1>2, <2>1, <2>2
<1> HIDE DEF d
<1>7. /\ r.files = [p \in d |-> c.files[p]]
      /\ r.folders = (t.folders \ ({o} \cup dirs)) \cup {n} \cup Come(op, o, n, dirs)
      /\ r = [files |-> r.files, folders |-> r.folders]
  BY <1>3, <1>4, <1>6 DEF d
<1>8. /\ DOMAIN r.files = d /\ r.files = [p \in DOMAIN r.files |-> r.files[p]]
      /\ \A p \in d : r.files[p] = c.files[p]
  BY <1>7
<1>9. \A p \in taken : Moved(p, o, n) \in d
  BY <1>5 DEF Come
<1>10. Ended(r, t, op, o, n)
  BY <1>2, <1>5, <1>7, <1>8, <1>9 DEF Ended, NewRoot
<1> QED BY <1>10 DEF r

LEMMA AchievedEnds ==
    ASSUME NEW t, NEW op \in {"rename", "delete"}, NEW o, NEW n, Feasible(t, op, o, n)
    PROVE  Ended(Achieved(op, t, o, n), t, op, o, n)
<1>1. CASE op = "rename"
  BY <1>1, RenamedEnds DEF Achieved
<1>2. CASE op = "delete"
  <2>1. n = o
    BY <1>2 DEF Feasible
  <2> QED BY <1>2, <2>1, DeletedEnds DEF Achieved
<1> QED BY <1>1, <1>2

(* When all is done, the last step makes it what was to be achieved.        *)
Closing(m, op, o, n) ==
    [files   |-> m.files,
     folders |-> IF op = "copy" THEN m.folders \cup {n}
                 ELSE (m.folders \ {o}) \cup NewRoot(op, n)]

LEMMA EndReached ==
    ASSUME NEW t, NEW op \in {"rename", "delete"}, NEW o, NEW n, Feasible(t, op, o, n),
           NEW m, Half(m, t, op, o, n, Docs(t, op, o, n), Dirs(t, op, o, n))
    PROVE  Closing(m, op, o, n) = Achieved(op, t, o, n)
<1> DEFINE r == Closing(m, op, o, n)
<1> DEFINE TD == Dirs(t, op, o, n)
<1> DEFINE TF == Docs(t, op, o, n)
<1>1. o \notin Come(op, o, n, TD)
  <2>1. ASSUME op = "rename", NEW q \in TD PROVE Moved(q, o, n) # o
    <3>1. Moved(q, o, n) \notin t.folders
      BY <2>1, FeasibleIs, DirsAre
    <3> QED BY <3>1 DEF Feasible
  <2> QED BY <2>1 DEF Come
<1>2. /\ m \in Trees
      /\ DOMAIN m.files = (DOMAIN t.files \ TF) \cup Come(op, o, n, TF)
      /\ m.folders = (t.folders \ TD) \cup Come(op, o, n, TD)
      /\ \A p \in DOMAIN t.files \ TF : m.files[p] = t.files[p]
      /\ op = "rename" => \A p \in TF : m.files[Moved(p, o, n)] = t.files[p]
  BY DEF Half, Gone
<1>3. m.files = [p \in DOMAIN m.files |-> m.files[p]]
  BY <1>2, TreeIs
<1>4. r.files = m.files /\ r.folders = (m.folders \ {o}) \cup NewRoot(op, n)
      /\ r = [files |-> r.files, folders |-> r.folders]
  BY DEF Closing
<1> HIDE DEF r, TD, TF
<1>5. r.folders = (t.folders \ ({o} \cup TD)) \cup NewRoot(op, n) \cup Come(op, o, n, TD)
  BY <1>1, <1>2, <1>4
<1>6. Ended(r, t, op, o, n)
  BY <1>2, <1>3, <1>4, <1>5 DEF Ended, TD, TF
<1>7. Ended(Achieved(op, t, o, n), t, op, o, n)
  BY AchievedEnds
<1>8. r = Achieved(op, t, o, n)
  BY <1>6, <1>7, EndedOnce
<1> QED BY <1>8 DEF r

(* A call that is made again achieves what the first one was to.            *)
LEMMA SameEnd ==
    ASSUME NEW t, NEW op \in {"rename", "delete"}, NEW o, NEW n, Feasible(t, op, o, n),
           NEW F, NEW D, Orderly(t, op, o, n, F, D),
           NEW m, Half(m, t, op, o, n, F, D)
    PROVE  Achieved(op, m, o, n) = Achieved(op, t, o, n)
<1> DEFINE r == Achieved(op, m, o, n)
<1> DEFINE TD == Dirs(t, op, o, n)
<1> DEFINE TF == Docs(t, op, o, n)
<1>1. /\ Feasible(m, op, o, n)
      /\ Dirs(m, op, o, n) = TD \ D /\ Docs(m, op, o, n) = TF \ F
  BY LeftToDo
<1>2. Ended(r, m, op, o, n)
  BY <1>1, AchievedEnds
<1>3. /\ o \in AnyPath /\ n \in AnyPath /\ TD \subseteq Met(t, op, o, n)
      /\ TF \subseteq Met(t, op, o, n) /\ o \in t.folders
      /\ F \subseteq TF /\ D \subseteq TD /\ TF \subseteq DOMAIN t.files
      /\ TD \subseteq t.folders
  BY FeasibleIs DEF Feasible, Orderly
<1> HIDE DEF r, TD, TF
<1>4. /\ DOMAIN m.files = (DOMAIN t.files \ F) \cup Come(op, o, n, F)
      /\ m.folders = (t.folders \ D) \cup Come(op, o, n, D)
      /\ \A p \in DOMAIN t.files \ F : m.files[p] = t.files[p]
      /\ op = "rename" => \A p \in F : m.files[Moved(p, o, n)] = t.files[p]
  BY DEF Half, Gone
<1>5. Come(op, o, n, F) \cap TF = {} /\ Come(op, o, n, D) \cap ({o} \cup TD) = {}
  <2>1. \A x \in Met(t, op, o, n) : op # "delete" => Moved(x, o, n) \notin TF \cup TD
    BY <1>3, PlacesApart
  <2>2. \A q \in D : op # "delete" => Moved(q, o, n) # o
    BY <1>3, FeasibleIs, DirsAre DEF TD
  <2> QED BY <1>3, <2>1, <2>2 DEF Come
<1>6. /\ Come(op, o, n, F) \cup Come(op, o, n, TF \ F) = Come(op, o, n, TF)
      /\ Come(op, o, n, D) \cup Come(op, o, n, TD \ D) = Come(op, o, n, TD)
  BY <1>3 DEF Come
<1>7. /\ r = [files |-> r.files, folders |-> r.folders]
      /\ r.files = [p \in DOMAIN r.files |-> r.files[p]]
      /\ DOMAIN r.files = (DOMAIN m.files \ (TF \ F)) \cup Come(op, o, n, TF \ F)
      /\ r.folders = (m.folders \ ({o} \cup (TD \ D)))
                        \cup NewRoot(op, n) \cup Come(op, o, n, TD \ D)
      /\ \A p \in DOMAIN m.files \ (TF \ F) : r.files[p] = m.files[p]
      /\ op = "rename" => \A p \in TF \ F : r.files[Moved(p, o, n)] = m.files[p]
  BY <1>1, <1>2 DEF Ended
<1>8. DOMAIN r.files = (DOMAIN t.files \ TF) \cup Come(op, o, n, TF)
  BY <1>3, <1>4, <1>5, <1>6, <1>7
<1>9. r.folders = (t.folders \ ({o} \cup TD)) \cup NewRoot(op, n) \cup Come(op, o, n, TD)
  BY <1>3, <1>4, <1>5, <1>6, <1>7
<1>10. \A p \in DOMAIN t.files \ TF : r.files[p] = t.files[p]
  BY <1>3, <1>4, <1>7
<1>11. ASSUME op = "rename", NEW p \in TF PROVE r.files[Moved(p, o, n)] = t.files[p]
  <2>1. CASE p \in F
    <3>1. Moved(p, o, n) \in Come(op, o, n, F)
      BY <1>11, <2>1 DEF Come
    <3> QED BY <1>4, <1>5, <1>7, <1>11, <2>1, <3>1
  <2>2. CASE p \notin F
    BY <1>3, <1>4, <1>7, <1>11, <2>2
  <2> QED BY <2>1, <2>2
<1>12. Ended(r, t, op, o, n)
  BY <1>7, <1>8, <1>9, <1>10, <1>11 DEF Ended, TD, TF
<1>13. Ended(Achieved(op, t, o, n), t, op, o, n)
  BY AchievedEnds
<1> QED BY <1>12, <1>13, EndedOnce DEF r

LEMMA CopyEndReached ==
    ASSUME NEW t, NEW op, op = "copy", NEW o, NEW n, Feasible(t, op, o, n),
           NEW m, Half(m, t, op, o, n, Docs(t, op, o, n), Dirs(t, op, o, n))
    PROVE  \E broken \in SUBSET Tree!Copies(Tree!TakenFiles(t, o, n), o, n) :
              LET c == Tree!Copied(t, o, n) IN
              Closing(m, op, o, n) =
                 [c EXCEPT !.files =
                    [p \in DOMAIN @ |-> IF p \in broken THEN Broken ELSE @[p]]]
<1> DEFINE c == Tree!Copied(t, o, n)
<1> DEFINE TF == Docs(t, op, o, n)
<1> DEFINE copies == Come(op, o, n, TF)
<1> DEFINE broken == {x \in copies : m.files[x] = Broken}
<1>1. WithCopies(c, t, op, o, n)
  BY CopiesAre
<1> HIDE DEF c
<1>2. /\ TF = Tree!TakenFiles(t, o, n) /\ copies = Tree!Copies(TF, o, n)
      /\ c = [files |-> c.files, folders |-> c.folders]
      /\ DOMAIN c.files = DOMAIN t.files \cup copies
      /\ c.folders = t.folders \cup {n} \cup Come(op, o, n, Dirs(t, op, o, n))
      /\ copies \cap DOMAIN t.files = {}
      /\ \A p \in DOMAIN t.files : c.files[p] = t.files[p]
      /\ \A p \in TF : c.files[Moved(p, o, n)] = t.files[p]
  BY <1>1 DEF WithCopies
<1>3. /\ m \in Trees
      /\ DOMAIN m.files = DOMAIN t.files \cup copies
      /\ m.folders = t.folders \cup Come(op, o, n, Dirs(t, op, o, n))
      /\ \A p \in DOMAIN t.files : m.files[p] = t.files[p]
      /\ \A p \in TF : m.files[Moved(p, o, n)] \in {t.files[p], Broken}
  BY DEF Half, Gone
<1> DEFINE g == [p \in DOMAIN c.files |-> IF p \in broken THEN Broken ELSE c.files[p]]
<1>4. m.files = g
  <2>1. DOMAIN m.files = DOMAIN g
    BY <1>2, <1>3
  <2>2. ASSUME NEW p \in DOMAIN m.files PROVE m.files[p] = g[p]
    <3>1. CASE p \in copies
      <4>1. PICK q \in TF : p = Moved(q, o, n)
        BY <3>1 DEF Come
      <4>2. m.files[p] \in {c.files[p], Broken}
        BY <1>2, <1>3, <4>1
      <4> QED BY <1>2, <3>1, <4>2
    <3>2. CASE p \notin copies
      BY <1>2, <1>3, <2>2, <3>2
    <3> QED BY <3>1, <3>2
  <2>3. m.files = [p \in DOMAIN m.files |-> m.files[p]]
    BY <1>3, TreeIs
  <2> HIDE DEF g
  <2>4. g = [p \in DOMAIN g |-> g[p]]
    BY DEF g
  <2> QED BY <2>1, <2>2, <2>3, <2>4
<1>5. Closing(m, op, o, n) = [files |-> g, folders |-> c.folders]
  <2>1. m.folders \cup {n} = c.folders
    BY <1>2, <1>3
  <2> HIDE DEF g
  <2> QED BY <1>4, <2>1 DEF Closing
<1>6. [c EXCEPT !.files = g] = [files |-> g, folders |-> c.folders]
  <2> HIDE DEF g
  <2> QED BY <1>2
<1>7. broken \in SUBSET Tree!Copies(Tree!TakenFiles(t, o, n), o, n)
  BY <1>2
<1>8. Closing(m, op, o, n) =
         [c EXCEPT !.files = [p \in DOMAIN @ |-> IF p \in broken THEN Broken ELSE @[p]]]
  BY <1>5, <1>6
<1> QED BY <1>7, <1>8 DEF c

-----------------------------------------------------------------------------
(* Trees in which every entry is reached.                                   *)
LEMMA NoneInside ==
    ASSUME NEW t \in Trees, Tree!Closed(t), NEW n \in AnyPath, Len(n) # 0,
           n \notin t.folders, NEW p \in Entries(t)
    PROVE  ~Tree!Within(n, p)
<1> DEFINE S == {x \in Entries(t) : Tree!Within(n, x)}
<1>1. S \subseteq AnyPath
  BY TreeIs DEF Entries, Tree!Entries
<1>2. SUFFICES ASSUME S # {} PROVE FALSE
  OBVIOUS
<1>3. PICK x \in S : \A y \in S : Len(x) <= Len(y)
  BY <1>1, <1>2, ShortestPath
<1>4. x \in AnyPath /\ Under(n, x) /\ Len(n) < Len(x) /\ Len(n) \in Nat /\ Len(x) \in Nat
  BY <1>1, <1>3, WithinIs
<1>5. /\ Front(x) \in AnyPath /\ Len(Front(x)) = Len(x) - 1 /\ Under(n, Front(x))
      /\ Tree!Front(x) = Front(x)
  BY <1>3, <1>4, UnderFront, FrontIs
<1>6. Front(x) \in t.folders
  BY <1>3, <1>4, <1>5 DEF Tree!Closed, Entries
<1>7. Tree!Within(n, Front(x))
  BY <1>4, <1>5, <1>6, WithinIs
<1>8. Front(x) \in S
  BY <1>6, <1>7 DEF Entries, Tree!Entries
<1> QED BY <1>3, <1>4, <1>5, <1>8

(* There the call comes to all that is in the folder.                       *)
LEMMA AllMet ==
    ASSUME NEW t, NEW op \in {"rename", "delete"}, NEW o, NEW n, Feasible(t, op, o, n),
           Tree!Closed(t), NEW p \in Entries(t), Tree!Within(o, p)
    PROVE  /\ p \in t.folders => p \in Dirs(t, op, o, n)
           /\ p \in DOMAIN t.files => p \in Docs(t, op, o, n)
<1> DEFINE TD == Dirs(t, op, o, n)
<1>1. /\ t \in Trees /\ op \in Operations /\ o \in FullPaths /\ n \in FullPaths
      /\ o \in AnyPath /\ n \in AnyPath /\ Len(n) # 0
      /\ Entries(t) = DOMAIN t.files \cup t.folders /\ Entries(t) \subseteq AnyPath
  BY FeasibleIs, FullPathIs, TreeIs DEF Entries, Tree!Entries
<1>2. ASSUME NEW x \in Entries(t), Tree!Within(o, x), op # "delete"
      PROVE  Moved(x, o, n) \notin Entries(t)
  <2>1. Under(o, x) /\ Len(o) < Len(x) /\ Len(o) \in Nat /\ Len(x) \in Nat /\ Len(n) \in Nat
    BY <1>1, <1>2, WithinIs, UnderSelf
  <2>2. /\ Moved(x, o, n) \in AnyPath /\ Under(n, Moved(x, o, n))
        /\ Len(Moved(x, o, n)) = Len(n) + (Len(x) - Len(o))
    BY <1>1, <2>1, MovedIs
  <2>3. Tree!Within(n, Moved(x, o, n))
    BY <1>1, <2>1, <2>2, WithinIs
  <2>4. n \notin t.folders
    BY <1>2 DEF Feasible
  <2> QED BY <1>1, <2>3, <2>4, NoneInside
<1> DEFINE S == {x \in Entries(t) : Tree!Within(o, x) /\ Front(x) \notin {o} \cup TD}
<1>3. S = {}
  <2>1. SUFFICES ASSUME S # {} PROVE FALSE
    OBVIOUS
  <2>2. PICK x \in S : \A y \in S : Len(x) <= Len(y)
    BY <1>1, <2>1, ShortestPath
  <2>3. x \in AnyPath /\ Under(o, x) /\ Len(o) < Len(x) /\ Len(o) \in Nat \ {0} /\ Len(x) \in Nat
    BY <1>1, <2>2, WithinIs, FeasibleIs
  <2> DEFINE f == Front(x)
  <2>4. f \in AnyPath /\ Len(f) = Len(x) - 1 /\ Under(o, f) /\ Tree!Front(x) = f
    BY <1>1, <2>2, <2>3, UnderFront, FrontIs
  <2>5. f \in t.folders
    BY <2>2, <2>3, <2>4 DEF Tree!Closed, Entries
  <2>6. Tree!Within(o, f) /\ f \in Entries(t)
    BY <1>1, <2>2, <2>3, <2>4, <2>5, WithinIs
  <2>7. Front(f) \in {o} \cup TD
    BY <2>2, <2>3, <2>4, <2>6
  <2>8. op # "delete" => Moved(f, o, n) \notin t.folders
    BY <1>1, <1>2, <2>6
  <2>9. f \in TD
    BY <1>1, <2>5, <2>6, <2>7, <2>8, DirsAre
  <2> QED BY <2>2, <2>9
<1>4. Front(p) \in {o} \cup TD
  BY <1>3
<1>5. op # "delete" => Moved(p, o, n) \notin Entries(t)
  BY <1>2
<1> QED BY <1>1, <1>4, <1>5, DirsAre, DocsAre

(* A tree that is changed so stays one.                                     *)
LEMMA MovesStayIn ==
    ASSUME NEW t, NEW op, NEW o, NEW n, Feasible(t, op, o, n), op # "delete",
           NEW r, {n} \cup Come(op, o, n, Dirs(t, op, o, n)) \subseteq r.folders,
           NEW p \in Dirs(t, op, o, n) \cup Docs(t, op, o, n)
    PROVE  Tree!Front(Moved(p, o, n)) \in r.folders
<1>1. /\ o \in AnyPath /\ n \in AnyPath /\ p \in AnyPath /\ Under(o, p)
      /\ Tree!Within(o, p) /\ Front(p) \in {o} \cup Dirs(t, op, o, n)
  BY FeasibleIs DEF Met
<1>2. Len(o) < Len(p)
  BY <1>1, WithinIs
<1>3. /\ Moved(p, o, n) \in AnyPath /\ Len(Moved(p, o, n)) # 0
      /\ Front(Moved(p, o, n)) = Moved(Front(p), o, n)
  BY <1>1, <1>2, MovedFront, MovedIs
<1>4. Tree!Front(Moved(p, o, n)) = Moved(Front(p), o, n)
  BY <1>3, FrontIs
<1>5. Moved(o, o, n) = n
  BY <1>1, MovedSelf
<1> QED BY <1>1, <1>4, <1>5 DEF Come

LEMMA EndIsClosed ==
    ASSUME NEW t, NEW op \in {"rename", "delete"}, NEW o, NEW n, Feasible(t, op, o, n),
           Tree!Closed(t),
           op = "rename" => /\ ~Tree!Within(o, n)
                            /\ Len(n) > 1 => Front(n) \in t.folders
    PROVE  Tree!Closed(Achieved(op, t, o, n))
<1> DEFINE r == Achieved(op, t, o, n)
<1> DEFINE TD == Dirs(t, op, o, n)
<1> DEFINE TF == Docs(t, op, o, n)
<1>1. /\ t \in Trees /\ o \in AnyPath /\ n \in AnyPath /\ Len(o) \in Nat \ {0}
      /\ n \in FullPaths /\ \A q \in TD : q \in AnyPath /\ Under(o, q)
  BY FeasibleIs
<1>2. Ended(r, t, op, o, n)
  BY AchievedEnds
<1> HIDE DEF r
<1>3. /\ DOMAIN r.files = (DOMAIN t.files \ TF) \cup Come(op, o, n, TF)
      /\ r.folders = (t.folders \ ({o} \cup TD)) \cup NewRoot(op, n) \cup Come(op, o, n, TD)
  BY <1>2 DEF Ended
<1>4. ASSUME NEW e \in AnyPath, Len(e) > 1, ~Tree!Within(o, e), Front(e) \in t.folders
      PROVE  Tree!Front(e) \in r.folders
  <2>1. Len(e) \in Nat /\ Len(e) # 0
    BY <1>4, LenProperties DEF AnyPath
  <2>2. ~Under(o, Front(e)) /\ Tree!Front(e) = Front(e)
    BY <1>1, <1>4, <2>1, UnderFront, FrontIs
  <2>3. Front(e) \notin {o} \cup TD
    BY <1>1, <2>2, UnderSelf
  <2> QED BY <1>3, <1>4, <2>2, <2>3
<1>5. ASSUME NEW e \in Tree!Entries(r), Len(e) > 1
      PROVE  Tree!Front(e) \in r.folders
  <2>1. CASE e \in (DOMAIN t.files \ TF) \cup (t.folders \ ({o} \cup TD))
    <3>1. e \in Entries(t) /\ e \in AnyPath
      BY <1>1, <2>1, TreeIs DEF Entries, Tree!Entries
    <3>2. ~Tree!Within(o, e)
      BY <2>1, <3>1, AllMet
    <3>3. Tree!Front(e) = Front(e)
      BY <1>5, <3>1, FrontIs
    <3>4. Front(e) \in t.folders
      BY <1>5, <3>1, <3>3 DEF Tree!Closed, Entries
    <3> QED BY <1>4, <1>5, <3>1, <3>2, <3>4
  <2>2. CASE e \in NewRoot(op, n)
    <3>1. op = "rename" /\ e = n
      BY <2>2 DEF NewRoot
    <3> QED BY <1>1, <1>4, <1>5, <3>1
  <2>3. CASE e \in Come(op, o, n, TF) \cup Come(op, o, n, TD)
    <3>1. op # "delete"
      BY <2>3 DEF Come
    <3>2. PICK p \in TD \cup TF : e = Moved(p, o, n)
      BY <2>3 DEF Come
    <3>3. {n} \cup Come(op, o, n, TD) \subseteq r.folders
      BY <1>3, <3>1 DEF NewRoot
    <3> QED BY <3>1, <3>2, <3>3, MovesStayIn
  <2> QED BY <1>3, <1>5, <2>1, <2>2, <2>3 DEF Tree!Entries
<1>6. Tree!Closed(r)
  BY <1>5 DEF Tree!Closed
<1> QED BY <1>6 DEF r

LEMMA CopyIsClosed ==
    ASSUME NEW t, NEW op, op = "copy", NEW o, NEW n, Feasible(t, op, o, n),
           NEW m, Half(m, t, op, o, n, Docs(t, op, o, n), Dirs(t, op, o, n)),
           Tree!Closed(t), Len(n) > 1 => Front(n) \in t.folders
    PROVE  Tree!Closed(Closing(m, op, o, n))
<1> DEFINE r == Closing(m, op, o, n)
<1>1. t \in Trees /\ o \in AnyPath /\ n \in AnyPath /\ Len(n) # 0
  BY FeasibleIs, FullPathIs
<1>2. /\ DOMAIN r.files = DOMAIN t.files \cup Come(op, o, n, Docs(t, op, o, n))
      /\ r.folders = t.folders \cup {n} \cup Come(op, o, n, Dirs(t, op, o, n))
  BY DEF Half, Gone, Closing
<1> HIDE DEF r
<1>3. ASSUME NEW e \in Tree!Entries(r), Len(e) > 1
      PROVE  Tree!Front(e) \in r.folders
  <2>1. CASE e \in Tree!Entries(t)
    BY <1>2, <1>3, <2>1 DEF Tree!Closed
  <2>2. CASE e = n
    BY <1>1, <1>2, <1>3, <2>2, FrontIs
  <2>3. CASE e \in Come(op, o, n, Docs(t, op, o, n)) \cup Come(op, o, n, Dirs(t, op, o, n))
    <3>1. PICK p \in Dirs(t, op, o, n) \cup Docs(t, op, o, n) : e = Moved(p, o, n)
      BY <2>3 DEF Come
    <3>2. {n} \cup Come(op, o, n, Dirs(t, op, o, n)) \subseteq r.folders
      BY <1>2
    <3> QED BY <3>1, <3>2, MovesStayIn
  <2> QED BY <1>2, <1>3, <2>1, <2>2, <2>3 DEF Tree!Entries
<1>4. Tree!Closed(r)
  BY <1>3 DEF Tree!Closed
<1> QED BY <1>4 DEF r

LEMMA HalfDeletedIsClosed ==
    ASSUME NEW t, NEW op, op = "delete", NEW o, NEW n, Feasible(t, op, o, n),
           NEW F, NEW D, Orderly(t, op, o, n, F, D),
           NEW m, Half(m, t, op, o, n, F, D), Tree!Closed(t)
    PROVE  Tree!Closed(m)
<1>1. /\ t \in Trees /\ o \in AnyPath /\ n \in AnyPath /\ op \in {"rename", "delete"}
      /\ o \in FullPaths /\ n \in FullPaths
      /\ \A q \in Dirs(t, op, o, n) : q \in AnyPath /\ Under(o, q)
  BY FeasibleIs
<1>2. DOMAIN m.files = DOMAIN t.files \ F /\ m.folders = t.folders \ D
  BY DEF Half, Gone, Come
<1>3. ASSUME NEW e \in Tree!Entries(m), Len(e) > 1, Tree!Front(e) \notin m.folders
      PROVE  FALSE
  <2>1. e \in Tree!Entries(t) /\ e \in AnyPath
    BY <1>1, <1>2, TreeIs DEF Tree!Entries
  <2>2. Tree!Front(e) = Front(e) /\ Len(e) # 0
    BY <1>3, <2>1, FrontIs
  <2>3. Front(e) \in t.folders
    BY <1>3, <2>1, <2>2 DEF Tree!Closed
  <2>4. Front(e) \in D /\ D \subseteq Dirs(t, op, o, n)
    BY <1>2, <1>3, <2>2, <2>3 DEF Orderly
  <2>5. Tree!Within(o, e)
    BY <1>1, <2>1, <2>2, <2>4, UnderFront
  <2>6. /\ e \in t.folders => e \in Dirs(t, op, o, n)
        /\ e \in DOMAIN t.files => e \in Docs(t, op, o, n)
    BY <1>1, <2>1, <2>5, AllMet DEF Entries
  <2> QED BY <1>2, <1>3, <2>4, <2>6 DEF Orderly, Tree!Entries
<1> QED BY <1>3 DEF Tree!Closed

-----------------------------------------------------------------------------
(* The steps of a call on the lists.                                        *)
LEMMA HalfIs ==
    ASSUME NEW t, NEW op, NEW o, NEW n, Feasible(t, op, o, n),
           NEW F, NEW D, Orderly(t, op, o, n, F, D),
           NEW m, Half(m, t, op, o, n, F, D), NEW x \in Met(t, op, o, n)
    PROVE  /\ x \in DOMAIN m.files <=> x \in DOMAIN t.files \ Gone(op, F)
           /\ x \in m.folders <=> x \in t.folders \ Gone(op, D)
           /\ x \in DOMAIN m.files => m.files[x] = t.files[x]
           /\ op # "delete" =>
                 LET y == Moved(x, o, n) IN
                 /\ y # x
                 /\ y \in DOMAIN m.files <=> y \in DOMAIN t.files \/ x \in F
                 /\ y \in m.folders <=> y \in t.folders \/ x \in D
<1>1. /\ F \subseteq Met(t, op, o, n) /\ D \subseteq Met(t, op, o, n)
      /\ o \in AnyPath /\ n \in AnyPath
      /\ \A y \in Met(t, op, o, n) : y \in AnyPath /\ Under(o, y)
  BY FeasibleIs DEF Orderly
<1>2. /\ DOMAIN m.files = (DOMAIN t.files \ Gone(op, F)) \cup Come(op, o, n, F)
      /\ m.folders = (t.folders \ Gone(op, D)) \cup Come(op, o, n, D)
      /\ \A p \in DOMAIN t.files \ Gone(op, F) : m.files[p] = t.files[p]
  BY DEF Half
<1>3. x \notin Come(op, o, n, F) /\ x \notin Come(op, o, n, D)
  BY <1>1, PlacesApart DEF Come
<1>4. ASSUME op # "delete"
      PROVE  LET y == Moved(x, o, n) IN
             /\ y \in Come(op, o, n, F) <=> x \in F
             /\ y \in Come(op, o, n, D) <=> x \in D
             /\ y \notin Met(t, op, o, n) /\ y # x
  <2>1. \A z \in F \cup D : Moved(x, o, n) = Moved(z, o, n) <=> x = z
    BY <1>1, MovedApart
  <2>2. \A z \in Met(t, op, o, n) : Moved(x, o, n) # z
    BY <1>4, PlacesApart
  <2> QED BY <1>4, <2>1, <2>2 DEF Come
<1>5. Gone(op, F) \subseteq Met(t, op, o, n) /\ Gone(op, D) \subseteq Met(t, op, o, n)
  BY <1>1 DEF Gone
<1> QED BY <1>2, <1>3, <1>4, <1>5

Take(op, p, new) ==
    CASE op = "delete" -> WithoutFile(p)
      [] op = "rename" -> FileRenamed(p, new)
      [] op = "copy"   -> WithFile(new, Broken)

Close(op, q, new) ==
    CASE op = "delete" -> WithoutFolder(q)
      [] op = "rename" -> FolderRenamed(q, new)
      [] op = "copy"   -> WithFolder(new)

LEMMA FileTaken ==
    ASSUME NEW t, NEW op, NEW o, NEW n, Feasible(t, op, o, n),
           NEW F, NEW D, Orderly(t, op, o, n, F, D), Half(lists, t, op, o, n, F, D),
           NEW p \in Docs(t, op, o, n), p \notin F, p \notin D
    PROVE  /\ op # "delete" => MayTakeFile(p, Moved(p, o, n))
           /\ Orderly(t, op, o, n, F \cup {p}, D)
           /\ Half(Take(op, p, Moved(p, o, n)), t, op, o, n, F \cup {p}, D)
<1> DEFINE x == Moved(p, o, n)
<1> DEFINE m == Take(op, p, x)
<1>1. /\ t \in Trees /\ op \in Operations /\ o \in FullPaths /\ n \in FullPaths
      /\ o \in AnyPath /\ n \in AnyPath /\ p \in Met(t, op, o, n) /\ p \in DOMAIN t.files
      /\ lists \in Trees /\ F \subseteq Met(t, op, o, n) /\ x \in FullPaths
      /\ F \subseteq DOMAIN t.files
      /\ \A y \in Met(t, op, o, n) : y \in AnyPath /\ Under(o, y)
  BY FeasibleIs DEF Half, Orderly, Feasible
<1>2. /\ DOMAIN lists.files = (DOMAIN t.files \ Gone(op, F)) \cup Come(op, o, n, F)
      /\ lists.folders = (t.folders \ Gone(op, D)) \cup Come(op, o, n, D)
      /\ \A f \in DOMAIN t.files \ Gone(op, F) : lists.files[f] = t.files[f]
      /\ \A f \in F : /\ op = "rename" => lists.files[Moved(f, o, n)] = t.files[f]
                      /\ op = "copy" => lists.files[Moved(f, o, n)] \in {t.files[f], Broken}
  BY DEF Half
<1>3. /\ p \in DOMAIN lists.files /\ lists.files[p] = t.files[p]
      /\ op # "delete" => x # p /\ x \notin Entries(t)
                          /\ x \notin DOMAIN lists.files /\ x \notin lists.folders
  <2>1. p \notin Gone(op, F)
    BY DEF Gone
  <2>2. op # "delete" => x \notin Entries(t)
    BY <1>1, DocsAre
  <2>3. Entries(t) = DOMAIN t.files \cup t.folders
    BY DEF Entries, Tree!Entries
  <2> QED BY <1>1, <1>2, <2>1, <2>2, <2>3, HalfIs
<1>4. op # "delete" => MayTakeFile(p, x)
  BY <1>3 DEF MayTakeFile
<1>5. Orderly(t, op, o, n, F \cup {p}, D)
  BY DEF Orderly
<1>6. /\ lists = [files |-> lists.files, folders |-> lists.folders]
      /\ DOMAIN lists.files \subseteq FullPaths /\ lists.folders \subseteq FullPaths
      /\ lists.files \in [DOMAIN lists.files -> FullPaths \cup {Broken}]
  BY <1>1, TreeIs
<1>7. \A f \in F : op # "delete" => Moved(f, o, n) # x /\ Moved(f, o, n) # p
                                    /\ Moved(f, o, n) \in DOMAIN lists.files
  <2>1. ASSUME NEW f \in F, op # "delete" PROVE Moved(f, o, n) # x
    BY <1>1, MovedApart
  <2>2. ASSUME NEW f \in F, op # "delete" PROVE Moved(f, o, n) # p
    BY <1>1, <2>2, PlacesApart
  <2>3. ASSUME NEW f \in F, op # "delete" PROVE Moved(f, o, n) \in DOMAIN lists.files
    BY <1>2, <2>3 DEF Come
  <2> QED BY <2>1, <2>2, <2>3
<1>8. CASE op = "delete"
  <2> DEFINE d == DOMAIN lists.files \ {p}
  <2>1. m = [files |-> [y \in d |-> lists.files[y]], folders |-> lists.folders]
    BY <1>6, <1>8 DEF Take, WithoutFile, Restrict
  <2>2. [y \in d |-> lists.files[y]] \in [d -> FullPaths \cup {Broken}] /\ d \subseteq FullPaths
    BY <1>6
  <2>3. m \in Trees
    BY <1>6, <2>1, <2>2, IsATree
  <2>4. d = (DOMAIN t.files \ (F \cup {p})) \cup Come(op, o, n, F \cup {p})
    BY <1>2, <1>8 DEF Gone, Come
  <2>5. lists.folders = (t.folders \ D) \cup Come(op, o, n, D)
    BY <1>2, <1>8 DEF Gone
  <2>6. m.files = [y \in d |-> lists.files[y]] /\ m.folders = lists.folders
    BY <2>1
  <2>7. \A y \in DOMAIN t.files \ (F \cup {p}) : m.files[y] = t.files[y]
    BY <1>2, <1>8, <2>4, <2>6 DEF Gone
  <2>8. Half(m, t, op, o, n, F \cup {p}, D)
    BY <1>8, <2>3, <2>4, <2>5, <2>6, <2>7 DEF Half, Gone
  <2> QED BY <1>4, <1>5, <2>8
<1>9. CASE op = "rename"
  <2> DEFINE d == (DOMAIN lists.files \cup {x}) \ {p}
  <2> DEFINE g == [y \in d |-> IF y = x THEN lists.files[p] ELSE lists.files[y]]
  <2>1. m = [files |-> g, folders |-> lists.folders]
    <3>1. m = FileRenamed(p, x)
      BY <1>9 DEF Take
    <3>2. FileRenamed(p, x) = [lists EXCEPT !.files = g]
      BY DEF FileRenamed
    <3> HIDE DEF g
    <3> QED BY <1>6, <3>1, <3>2
  <2>2. g \in [d -> FullPaths \cup {Broken}] /\ d \subseteq FullPaths
    BY <1>1, <1>3, <1>6
  <2> HIDE DEF g
  <2>3. m \in Trees
    BY <1>6, <2>1, <2>2, IsATree
  <2>4. d = (DOMAIN t.files \ (F \cup {p})) \cup Come(op, o, n, F \cup {p})
    <3>1. Come(op, o, n, F \cup {p}) = Come(op, o, n, F) \cup {x}
      BY <1>9 DEF Come
    <3>2. p \notin Come(op, o, n, F)
      BY <1>7, <1>9 DEF Come
    <3> QED BY <1>2, <1>3, <1>9, <3>1, <3>2 DEF Gone
  <2>5. m.files = g /\ m.folders = lists.folders /\ DOMAIN g = d
    BY <2>1, <2>2
  <2>6. ASSUME NEW y \in DOMAIN t.files \ (F \cup {p}) PROVE g[y] = t.files[y]
    <3>1. y \in d /\ y # x
      BY <1>3, <1>9, <2>4, <2>6 DEF Entries, Tree!Entries
    <3> QED BY <1>2, <1>9, <2>6, <3>1 DEF g, Gone
  <2>7. ASSUME NEW y \in F \cup {p} PROVE g[Moved(y, o, n)] = t.files[y]
    <3>1. CASE y = p
      BY <1>3, <1>9, <3>1 DEF g
    <3>2. CASE y \in F
      BY <1>2, <1>7, <1>9, <3>2 DEF g
    <3> QED BY <2>7, <3>1, <3>2
  <2>8. Half(m, t, op, o, n, F \cup {p}, D)
    BY <1>2, <1>9, <2>3, <2>4, <2>5, <2>6, <2>7 DEF Half, Gone
  <2> QED BY <1>4, <1>5, <2>8
<1>10. CASE op = "copy"
  <2> DEFINE d == DOMAIN lists.files \cup {x}
  <2> DEFINE g == [y \in d |-> IF y = x THEN Broken ELSE lists.files[y]]
  <2>1. m = [files |-> g, folders |-> lists.folders]
    <3>1. m = WithFile(x, Broken)
      BY <1>10 DEF Take
    <3>2. WithFile(x, Broken) = [lists EXCEPT !.files = g]
      BY DEF WithFile
    <3> HIDE DEF g
    <3> QED BY <1>6, <3>1, <3>2
  <2>2. g \in [d -> FullPaths \cup {Broken}] /\ d \subseteq FullPaths
    BY <1>1, <1>3, <1>6
  <2> HIDE DEF g
  <2>3. m \in Trees
    BY <1>6, <2>1, <2>2, IsATree
  <2>4. d = DOMAIN t.files \cup Come(op, o, n, F \cup {p})
    <3>1. Come(op, o, n, F \cup {p}) = Come(op, o, n, F) \cup {x}
      BY <1>10 DEF Come
    <3> QED BY <1>2, <1>10, <3>1 DEF Gone
  <2>5. m.files = g /\ m.folders = lists.folders /\ DOMAIN g = d
    BY <2>1, <2>2
  <2>6. ASSUME NEW y \in DOMAIN t.files PROVE g[y] = t.files[y]
    <3>1. y \in d /\ y # x
      BY <1>3, <1>10, <2>4, <2>6 DEF Entries, Tree!Entries
    <3> QED BY <1>2, <1>10, <2>6, <3>1 DEF g, Gone
  <2>7. ASSUME NEW y \in F \cup {p} PROVE g[Moved(y, o, n)] \in {t.files[y], Broken}
    <3>1. CASE y = p
      BY <1>3, <1>10, <3>1 DEF g
    <3>2. CASE y \in F
      BY <1>2, <1>7, <1>10, <3>2 DEF g
    <3> QED BY <2>7, <3>1, <3>2
  <2>8. Half(m, t, op, o, n, F \cup {p}, D)
    BY <1>2, <1>10, <2>3, <2>4, <2>5, <2>6, <2>7 DEF Half, Gone
  <2> QED BY <1>4, <1>5, <2>8
<1> QED BY <1>1, <1>8, <1>9, <1>10 DEF Operations

FilesIn(t, q) == {p \in DOMAIN t.files : Len(p) > 1 /\ Front(p) = q}
FoldersIn(t, q) == {p \in t.folders : Len(p) > 1 /\ Front(p) = q}

(* What GetFiles and GetFolders find in the middle of a call.               *)
LEMMA InsideIsMet ==
    ASSUME NEW t, NEW op, NEW o, NEW n, Feasible(t, op, o, n),
           NEW q \in {o} \cup Dirs(t, op, o, n), NEW p \in AnyPath, Len(p) > 1,
           Front(p) = q
    PROVE  /\ p \in Met(t, op, o, n) /\ Len(p) = Len(q) + 1
           /\ Under(o, q) /\ Under(q, p)
           /\ Len(q) \in Nat /\ q \in AnyPath /\ q \in FullPaths
           /\ Moved(p, q, Moved(q, o, n)) = Moved(p, o, n)
<1>1. o \in AnyPath /\ n \in AnyPath /\ q \in AnyPath /\ Under(o, q) /\ q \in FullPaths
  <2>1. /\ t \in Trees /\ o \in FullPaths /\ Dirs(t, op, o, n) \subseteq t.folders
        /\ o \in AnyPath /\ n \in AnyPath /\ q \in AnyPath /\ Under(o, q)
    BY FeasibleIs
  <2> QED BY <2>1, TreeIs
<1>2. Len(p) # 0 /\ Len(p) \in Nat /\ Len(q) \in Nat
  BY <1>1, LenProperties DEF AnyPath
<1>3. Tree!Within(o, p) /\ Len(p) = Len(q) + 1
  BY <1>1, <1>2, UnderFront
<1>4. Under(q, p)
  BY <1>1, <1>2, FrontIs DEF Under
<1>5. Moved(p, q, Moved(q, o, n)) = Moved(p, o, n)
  BY <1>1, <1>4, MovedOn
<1> QED BY <1>1, <1>2, <1>3, <1>4, <1>5 DEF Met

LEMMA FilesFound ==
    ASSUME NEW t, NEW op, NEW o, NEW n, Feasible(t, op, o, n),
           NEW F, NEW D, Orderly(t, op, o, n, F, D), Half(lists, t, op, o, n, F, D),
           NEW q \in {o} \cup Dirs(t, op, o, n)
    PROVE  /\ GetFiles(q) = FilesIn(t, q) \ Gone(op, F)
           /\ GetFolders(q) = FoldersIn(t, q) \ Gone(op, D)
<1>1. t \in Trees /\ lists \in Trees
  BY FeasibleIs DEF Half
<1>2. ASSUME NEW p \in AnyPath, Len(p) > 1, Front(p) = q
      PROVE  /\ p \in DOMAIN lists.files <=> p \in DOMAIN t.files \ Gone(op, F)
             /\ p \in lists.folders <=> p \in t.folders \ Gone(op, D)
  BY <1>2, InsideIsMet, HalfIs
<1>3. /\ DOMAIN t.files \subseteq AnyPath /\ t.folders \subseteq AnyPath
      /\ DOMAIN lists.files \subseteq AnyPath /\ lists.folders \subseteq AnyPath
  BY <1>1, TreeIs
<1> QED BY <1>2, <1>3 DEF GetFiles, GetFolders, FilesIn, FoldersIn

(* One of the files of a folder.                                            *)
FileStep(m, t, op, o, n, F, D, p) ==
    \E G \in {F, F \cup {p}} :
       /\ p \in Docs(t, op, o, n) => p \in G
       /\ Orderly(t, op, o, n, G, D) /\ Half(m, t, op, o, n, G, D)

LEMMA FileDone ==
    ASSUME NEW t, NEW op, NEW o, NEW n, Feasible(t, op, o, n),
           NEW F, NEW D, Orderly(t, op, o, n, F, D), Half(lists, t, op, o, n, F, D),
           NEW q \in {o} \cup Dirs(t, op, o, n), NEW p \in FilesIn(t, q)
    PROVE  /\ op # "delete" =>
                 MayTakeFile(p, Moved(p, o, n)) <=> p \in Docs(t, op, o, n) \ F
           /\ p \in Docs(t, op, o, n) /\ p \notin F =>
                 FileStep(Take(op, p, Moved(p, o, n)), t, op, o, n, F, D, p)
           /\ p \notin Docs(t, op, o, n) \/ p \in F => FileStep(lists, t, op, o, n, F, D, p)
           /\ op = "delete" => /\ p \in Docs(t, op, o, n)
                               /\ p \in F => Take(op, p, Moved(p, o, n)) = lists
<1>1. /\ t \in Trees /\ lists \in Trees /\ p \in AnyPath /\ op \in Operations
      /\ o \in FullPaths /\ n \in FullPaths
  BY FeasibleIs, TreeIs DEF Half, FilesIn
<1>2. p \in DOMAIN t.files /\ p \in Met(t, op, o, n)
  BY <1>1, InsideIsMet DEF FilesIn
<1>3. Tree!Within(o, p) /\ Front(p) \in {o} \cup Dirs(t, op, o, n)
  BY <1>2 DEF Met
<1>4. p \in Docs(t, op, o, n) <=> (op # "delete" => Moved(p, o, n) \notin Entries(t))
  BY <1>1, <1>2, <1>3, DocsAre
<1>5. Entries(t) = DOMAIN t.files \cup t.folders
  BY DEF Entries, Tree!Entries
<1>6. ASSUME op # "delete", p \notin Docs(t, op, o, n) \/ p \in F
      PROVE  ~MayTakeFile(p, Moved(p, o, n))
  BY <1>2, <1>4, <1>5, <1>6, HalfIs DEF MayTakeFile
<1>7. ASSUME p \in Docs(t, op, o, n), p \notin F
      PROVE  /\ op # "delete" => MayTakeFile(p, Moved(p, o, n))
             /\ FileStep(Take(op, p, Moved(p, o, n)), t, op, o, n, F, D, p)
  <2>1. p \notin D
    BY <1>7 DEF Orderly
  <2>2. /\ op # "delete" => MayTakeFile(p, Moved(p, o, n))
        /\ Orderly(t, op, o, n, F \cup {p}, D)
        /\ Half(Take(op, p, Moved(p, o, n)), t, op, o, n, F \cup {p}, D)
    BY <1>7, <2>1, FileTaken
  <2> QED BY <2>2 DEF FileStep
<1>8. ASSUME op = "delete", p \in F PROVE Take(op, p, Moved(p, o, n)) = lists
  <2>1. p \notin DOMAIN lists.files
    BY <1>2, <1>8, HalfIs DEF Gone
  <2>2. Restrict(lists.files, DOMAIN lists.files \ {p}) = lists.files
    <3>1. DOMAIN lists.files \ {p} = DOMAIN lists.files
      BY <2>1
    <3>2. [x \in DOMAIN lists.files |-> lists.files[x]] = lists.files
      BY <1>1, TreeIs
    <3> QED BY <3>1, <3>2 DEF Restrict
  <2>3. WithoutFile(p) = [lists EXCEPT !.files = lists.files]
    BY <2>2 DEF WithoutFile
  <2>4. WithoutFile(p) = lists
    BY <1>1, <2>3, TreeIs
  <2> QED BY <1>8, <2>4 DEF Take
<1>9. p \notin Docs(t, op, o, n) \/ p \in F => FileStep(lists, t, op, o, n, F, D, p)
  BY DEF FileStep
<1> QED BY <1>4, <1>6, <1>7, <1>8, <1>9

(* One of the folders of a folder: whether a call for it is made.           *)
LEMMA FolderMet ==
    ASSUME NEW t, NEW op, NEW o, NEW n, Feasible(t, op, o, n),
           NEW F, NEW D, Orderly(t, op, o, n, F, D), Half(lists, t, op, o, n, F, D),
           NEW q \in {o} \cup Dirs(t, op, o, n), NEW p \in FoldersIn(t, q)
    PROVE  MayBegin(op, p, Moved(p, o, n)) <=> p \in Dirs(t, op, o, n) \ D
<1>1. /\ t \in Trees /\ lists \in Trees /\ p \in AnyPath /\ op \in Operations
      /\ o \in FullPaths /\ n \in FullPaths
  BY FeasibleIs, TreeIs DEF Half, FoldersIn
<1>2. p \in t.folders /\ p \in Met(t, op, o, n)
  BY <1>1, InsideIsMet DEF FoldersIn
<1>3. Tree!Within(o, p) /\ Front(p) \in {o} \cup Dirs(t, op, o, n)
  BY <1>2 DEF Met
<1>4. p \in Dirs(t, op, o, n) <=> (op # "delete" => Moved(p, o, n) \notin t.folders)
  BY <1>1, <1>2, <1>3, DirsAre
<1>5. /\ p \in lists.folders <=> p \notin Gone(op, D)
      /\ op # "delete" => /\ Moved(p, o, n) # p
                          /\ Moved(p, o, n) \in lists.folders
                                <=> Moved(p, o, n) \in t.folders \/ p \in D
  BY <1>2, HalfIs
<1>6. CASE op = "delete"
  BY <1>4, <1>5, <1>6 DEF MayBegin, Gone
<1>7. CASE op # "delete"
  BY <1>4, <1>5, <1>7 DEF MayBegin, Gone
<1> QED BY <1>6, <1>7

(* A folder, when all that is in it is done.                                *)
LEMMA FolderFinished ==
    ASSUME NEW t, NEW op, NEW o, NEW n, Feasible(t, op, o, n),
           NEW F, NEW D, Orderly(t, op, o, n, F, D), Half(lists, t, op, o, n, F, D),
           NEW q \in Dirs(t, op, o, n) \ D,
           \A p \in Docs(t, op, o, n) : Front(p) = q \/ p = q => p \in F,
           \A x \in Dirs(t, op, o, n) : Front(x) = q => x \in D
    PROVE  /\ Orderly(t, op, o, n, F, D \cup {q})
           /\ Half(Close(op, q, Moved(q, o, n)), t, op, o, n, F, D \cup {q})
<1> DEFINE x == Moved(q, o, n)
<1> DEFINE r == Close(op, q, x)
<1>1. Orderly(t, op, o, n, F, D \cup {q})
  BY DEF Orderly
<1>2. /\ lists \in Trees /\ op \in Operations /\ x \in FullPaths /\ q \in t.folders
      /\ q \in Met(t, op, o, n) /\ D \subseteq Met(t, op, o, n)
  BY FeasibleIs DEF Half, Feasible, Orderly
<1>3. /\ lists = [files |-> lists.files, folders |-> lists.folders]
      /\ lists.folders \subseteq FullPaths
      /\ lists.files \in [DOMAIN lists.files -> FullPaths \cup {Broken}]
      /\ DOMAIN lists.files \subseteq FullPaths
  BY <1>2, TreeIs
<1>4. lists.folders = (t.folders \ Gone(op, D)) \cup Come(op, o, n, D)
  BY DEF Half
<1>5. q \notin Come(op, o, n, D)
  BY <1>2, PlacesApart DEF Come
<1>6. Come(op, o, n, D \cup {q}) = IF op = "delete" THEN {} ELSE Come(op, o, n, D) \cup {x}
  BY DEF Come
<1>7. r = [files |-> lists.files,
           folders |-> (t.folders \ Gone(op, D \cup {q})) \cup Come(op, o, n, D \cup {q})]
  <2>1. CASE op = "delete"
    <3>1. r = [files |-> lists.files, folders |-> lists.folders \ {q}]
      BY <1>3, <2>1 DEF Close, WithoutFolder
    <3> QED BY <1>4, <1>6, <2>1, <3>1 DEF Gone, Come
  <2>2. CASE op = "rename"
    <3>1. r = [files |-> lists.files, folders |-> (lists.folders \ {q}) \cup {x}]
      BY <1>3, <2>2 DEF Close, FolderRenamed
    <3>2. (lists.folders \ {q}) \cup {x}
             = (t.folders \ (D \cup {q})) \cup Come(op, o, n, D \cup {q})
      BY <1>4, <1>5, <1>6, <2>2 DEF Gone
    <3> QED BY <2>2, <3>1, <3>2 DEF Gone
  <2>3. CASE op = "copy"
    <3>1. r = [files |-> lists.files, folders |-> lists.folders \cup {x}]
      BY <1>3, <2>3 DEF Close, WithFolder
    <3>2. lists.folders \cup {x} = t.folders \cup Come(op, o, n, D \cup {q})
      BY <1>4, <1>6, <2>3 DEF Gone
    <3> QED BY <2>3, <3>1, <3>2 DEF Gone
  <2> QED BY <1>2, <2>1, <2>2, <2>3 DEF Operations
<1> HIDE DEF r
<1>8. r.folders \subseteq FullPaths
  <2>1. t.folders \subseteq FullPaths /\ Come(op, o, n, D) \subseteq lists.folders
    BY <1>4, FeasibleIs, TreeIs
  <2> QED BY <1>2, <1>3, <1>6, <1>7, <2>1
<1>9. r.files = lists.files
  BY <1>7
<1>10. r \in Trees
  BY <1>3, <1>7, <1>8, IsATree
<1>11. Half(r, t, op, o, n, F, D \cup {q})
  BY <1>7, <1>9, <1>10 DEF Half
<1> QED BY <1>1, <1>11 DEF r

-----------------------------------------------------------------------------
(* The folder calls under way.                                              *)
Frames == [op : Operations, old : FullPaths, new : FullPaths,
           files : SUBSET FullPaths, folders : SUBSET FullPaths]

Level(f, k, t, op, o, n, D) ==
    /\ f \in Frames
    /\ f.op = op /\ f.old \in ({o} \cup Dirs(t, op, o, n)) \ D
    /\ f.new = Moved(f.old, o, n) /\ Len(f.old) = Len(o) + k - 1
    /\ f.files \subseteq FilesIn(t, f.old) /\ f.folders \subseteq FoldersIn(t, f.old)

(* What is in the folder is done, or listed, or it is under way.            *)
Covered(f, inner, t, op, o, n, F, D) ==
    /\ \A p \in Docs(t, op, o, n) : Front(p) = f.old => p \in F \cup f.files
    /\ \A q \in Dirs(t, op, o, n) : Front(q) = f.old => q \in D \cup f.folders \cup inner

Inner(s, i) == IF i < Len(s) THEN {s[i + 1].old} ELSE {}

Stacked(s, t, op, o, n, F, D) ==
    /\ s \in Seq(Frames) /\ s # <<>> /\ s[1].old = o
    /\ \A i \in 1 .. Len(s) : /\ Level(s[i], i, t, op, o, n, D)
                              /\ Covered(s[i], Inner(s, i), t, op, o, n, F, D)
    /\ \A i \in 1 .. (Len(s) - 1) : s[i].files = {} /\ Front(s[i + 1].old) = s[i].old

(* A call when it begins.                                                   *)
LEMMA FrameBegins ==
    ASSUME NEW t, NEW op, NEW o, NEW n, Feasible(t, op, o, n),
           NEW F, NEW D, Orderly(t, op, o, n, F, D), Half(lists, t, op, o, n, F, D),
           NEW q \in ({o} \cup Dirs(t, op, o, n)) \ D,
           NEW k, Len(q) = Len(o) + k - 1
    PROVE  /\ Level(Frame(op, q, Moved(q, o, n)), k, t, op, o, n, D)
           /\ Covered(Frame(op, q, Moved(q, o, n)), {}, t, op, o, n, F, D)
<1> DEFINE f == Frame(op, q, Moved(q, o, n))
<1>1. /\ f = [op |-> op, old |-> q, new |-> Moved(q, o, n),
              files |-> GetFiles(q), folders |-> GetFolders(q)]
  BY DEF Frame
<1>2. /\ GetFiles(q) = FilesIn(t, q) \ Gone(op, F)
      /\ GetFolders(q) = FoldersIn(t, q) \ Gone(op, D)
  BY FilesFound
<1>3. /\ t \in Trees /\ op \in Operations /\ o \in FullPaths /\ n \in FullPaths
      /\ o \in AnyPath /\ n \in AnyPath
      /\ Dirs(t, op, o, n) \subseteq t.folders \cap Met(t, op, o, n)
      /\ Docs(t, op, o, n) \subseteq DOMAIN t.files \cap Met(t, op, o, n)
      /\ \A x \in {o} \cup Met(t, op, o, n) : x \in AnyPath /\ Under(o, x)
      /\ Len(o) \in Nat \ {0}
  BY FeasibleIs
<1>4. /\ DOMAIN t.files \subseteq FullPaths /\ t.folders \subseteq FullPaths
      /\ q \in FullPaths
  BY <1>3, TreeIs
<1>5. Moved(q, o, n) \in FullPaths
  <2>1. CASE q = o
    BY <1>3, <2>1, MovedSelf
  <2>2. CASE q # o
    BY <2>2 DEF Feasible
  <2> QED BY <2>1, <2>2
<1>6. f \in Frames
  BY <1>1, <1>2, <1>3, <1>4, <1>5 DEF Frames, FilesIn, FoldersIn
<1>7. ASSUME NEW p \in Met(t, op, o, n) PROVE Len(p) > 1
  <2>1. Under(o, p) /\ Len(o) < Len(p) /\ Len(p) \in Nat
    BY <1>3, WithinIs DEF Met
  <2> QED BY <1>3, <2>1
<1>8. ASSUME NEW p \in Docs(t, op, o, n), Front(p) = q
      PROVE  p \in F \cup GetFiles(q)
  BY <1>2, <1>3, <1>7, <1>8 DEF FilesIn, Gone
<1>9. ASSUME NEW p \in Dirs(t, op, o, n), Front(p) = q
      PROVE  p \in D \cup GetFolders(q)
  BY <1>2, <1>3, <1>7, <1>9 DEF FoldersIn, Gone
<1> HIDE DEF f
<1>10. Level(f, k, t, op, o, n, D)
  BY <1>1, <1>2, <1>6 DEF Level
<1>11. Covered(f, {}, t, op, o, n, F, D)
  BY <1>1, <1>8, <1>9 DEF Covered
<1> QED BY <1>10, <1>11 DEF f

LEMMA CallBegins ==
    ASSUME NEW op, NEW o, NEW n, Feasible(lists, op, o, n)
    PROVE  /\ Orderly(lists, op, o, n, {}, {})
           /\ Half(lists, lists, op, o, n, {}, {})
           /\ Stacked(<<Frame(op, o, n)>>, lists, op, o, n, {}, {})
<1> DEFINE f == Frame(op, o, n)
<1> DEFINE s == <<f>>
<1>1. lists \in Trees /\ o \in AnyPath /\ n \in AnyPath /\ Len(o) \in Nat
  BY FeasibleIs
<1>2. Orderly(lists, op, o, n, {}, {})
  BY DEF Orderly
<1>3. Half(lists, lists, op, o, n, {}, {})
  BY <1>1, TreeIs DEF Half, Gone, Come
<1>4. Moved(o, o, n) = n /\ Len(o) = Len(o) + 1 - 1
  BY <1>1, MovedSelf
<1>5. /\ Level(f, 1, lists, op, o, n, {})
      /\ Covered(f, {}, lists, op, o, n, {}, {})
  BY <1>2, <1>3, <1>4, FrameBegins
<1>6. f \in Frames /\ f.old = o
  BY <1>5 DEF Level, Frame
<1> HIDE DEF f
<1>7. /\ s \in Seq(Frames) /\ Len(s) = 1 /\ s[1] = f /\ s # <<>>
  BY <1>6
<1> HIDE DEF s
<1>8. Inner(s, 1) = {}
  BY <1>7 DEF Inner
<1>9. Stacked(s, lists, op, o, n, {}, {})
  <2>1. \A i \in 1 .. Len(s) : i = 1
    BY <1>7
  <2>2. 1 .. (Len(s) - 1) = {}
    BY <1>7
  <2> QED BY <1>5, <1>6, <1>7, <1>8, <2>1, <2>2, Zenon DEF Stacked
<1> QED BY <1>2, <1>3, <1>9 DEF f, s

LEMMA TopOf ==
    ASSUME NEW S, NEW s \in Seq(S), s # <<>>
    PROVE  /\ Front(s) \in Seq(S) /\ Len(Front(s)) = Len(s) - 1
           /\ \A i \in 1 .. (Len(s) - 1) : Front(s)[i] = s[i]
           /\ Last(s) = s[Len(s)] /\ Last(s) \in S /\ Len(s) \in Nat \ {0}
<1>1. Len(s) \in Nat \ {0}
  BY EmptySeq, LenProperties
<1>2. \A i \in 1 .. (Len(s) - 1) : s[i] \in S
  BY <1>1, ElementOfSeq
<1>3. Last(s) = s[Len(s)] /\ Last(s) \in S
  BY <1>1, ElementOfSeq DEF Last
<1> DEFINE k == Len(s) - 1
<1>4. Front(s) = SubSeq(s, 1, k) /\ k \in Nat
  BY <1>1 DEF Front
<1> HIDE DEF k
<1>5. Front(s) \in Seq(S) /\ Len(Front(s)) = k /\ \A i \in 1 .. k : Front(s)[i] = s[i]
  <2>1. CASE k = 0
    BY <1>4, <2>1, SubSeqEmpty, EmptySeq
  <2>2. CASE k # 0
    <3>1. \A i \in 1 .. k : s[i] \in S
      BY <1>2 DEF k
    <3> QED BY <1>4, <2>2, <3>1, SubSeqProperties
  <2> QED BY <2>1, <2>2
<1> QED BY <1>1, <1>3, <1>5 DEF k

LEMMA TopChanged ==
    ASSUME NEW S, NEW s \in Seq(S), s # <<>>, NEW g \in S
    PROVE  LET r == Append(Front(s), g)
           IN  /\ r \in Seq(S) /\ Len(r) = Len(s) /\ r # <<>>
               /\ r[Len(s)] = g /\ \A i \in 1 .. (Len(s) - 1) : r[i] = s[i]
<1>1. /\ Front(s) \in Seq(S) /\ Len(Front(s)) = Len(s) - 1
      /\ \A i \in 1 .. (Len(s) - 1) : Front(s)[i] = s[i]
      /\ Len(s) \in Nat \ {0}
  BY TopOf
<1>2. Len(Front(s)) + 1 = Len(s)
  BY <1>1
<1> QED BY <1>1, <1>2, AppendProperties

LEMMA TopIs ==
    ASSUME NEW t, NEW op, NEW o, NEW n, NEW F, NEW D, NEW s,
           Stacked(s, t, op, o, n, F, D)
    PROVE  /\ Last(s) = s[Len(s)] /\ Len(s) \in Nat \ {0}
           /\ Level(Last(s), Len(s), t, op, o, n, D)
           /\ Covered(Last(s), {}, t, op, o, n, F, D)
<1>1. s \in Seq(Frames) /\ s # <<>>
  BY DEF Stacked
<1>2. Last(s) = s[Len(s)] /\ Len(s) \in Nat \ {0}
  BY <1>1, TopOf
<1>3. Len(s) \in 1 .. Len(s) /\ ~(Len(s) < Len(s))
  BY <1>2
<1>4. Inner(s, Len(s)) = {}
  BY <1>3 DEF Inner
<1> QED BY <1>2, <1>3, <1>4 DEF Stacked

(* The innermost call goes on.                                              *)
LEMMA StackChanged ==
    ASSUME NEW t, NEW op, NEW o, NEW n, NEW F, NEW D, NEW s,
           Stacked(s, t, op, o, n, F, D), NEW G, F \subseteq G, NEW g,
           g.old = Last(s).old, Level(g, Len(s), t, op, o, n, D),
           Covered(g, {}, t, op, o, n, G, D)
    PROVE  Stacked(Append(Front(s), g), t, op, o, n, G, D)
<1> DEFINE r == Append(Front(s), g)
<1>1. s \in Seq(Frames) /\ s # <<>> /\ s[1].old = o /\ g \in Frames
  BY DEF Stacked, Level
<1>2. Last(s) = s[Len(s)] /\ Len(s) \in Nat \ {0}
  BY TopIs
<1>3. /\ r \in Seq(Frames) /\ Len(r) = Len(s) /\ r # <<>>
      /\ r[Len(s)] = g /\ \A i \in 1 .. (Len(s) - 1) : r[i] = s[i]
  BY <1>1, TopChanged
<1> HIDE DEF r
<1>4. \A i \in 1 .. Len(s) : r[i].old = s[i].old
  <2>1. \A i \in 1 .. Len(s) : i = Len(s) \/ i \in 1 .. (Len(s) - 1)
    BY <1>2
  <2> QED BY <1>2, <1>3, <2>1
<1>5. ASSUME NEW i \in 1 .. Len(s)
      PROVE  /\ Level(r[i], i, t, op, o, n, D)
             /\ Covered(r[i], Inner(r, i), t, op, o, n, G, D)
  <2>1. CASE i = Len(s)
    <3>1. Inner(r, i) = {}
      BY <1>2, <1>3, <2>1 DEF Inner
    <3> QED BY <1>3, <2>1, <3>1
  <2>2. CASE i # Len(s)
    <3>1. i \in 1 .. (Len(s) - 1) /\ i + 1 \in 1 .. Len(s)
      BY <1>2, <2>2
    <3>2. r[i] = s[i] /\ Inner(r, i) = Inner(s, i)
      BY <1>3, <1>4, <3>1 DEF Inner
    <3>3. Level(s[i], i, t, op, o, n, D) /\ Covered(s[i], Inner(s, i), t, op, o, n, F, D)
      BY DEF Stacked
    <3>4. Covered(s[i], Inner(s, i), t, op, o, n, G, D)
      BY <3>3 DEF Covered
    <3> QED BY <3>2, <3>3, <3>4
  <2> QED BY <2>1, <2>2
<1>6. ASSUME NEW i \in 1 .. (Len(s) - 1)
      PROVE  r[i].files = {} /\ Front(r[i + 1].old) = r[i].old
  <2>1. i \in 1 .. Len(s) /\ i + 1 \in 1 .. Len(s)
    BY <1>2
  <2>2. s[i].files = {} /\ Front(s[i + 1].old) = s[i].old
    BY DEF Stacked
  <2> QED BY <1>3, <1>4, <2>1, <2>2
<1>7. r[1].old = o
  <2>1. 1 \in 1 .. Len(s)
    BY <1>2
  <2> QED BY <1>1, <1>4, <2>1
<1>8. Stacked(r, t, op, o, n, G, D)
  BY <1>3, <1>5, <1>6, <1>7 DEF Stacked
<1> QED BY <1>8 DEF r

WithoutItsFile(f, p) == [f EXCEPT !.files = @ \ {p}]
WithoutItsFolder(f, q) == [f EXCEPT !.folders = @ \ {q}]

LEMMA StackFile ==
    ASSUME NEW t, NEW op, NEW o, NEW n, NEW F, NEW D, NEW s,
           Stacked(s, t, op, o, n, F, D), NEW p \in Last(s).files,
           NEW G, G = F \/ G = F \cup {p}, p \in Docs(t, op, o, n) => p \in G
    PROVE  Stacked(Append(Front(s), WithoutItsFile(Last(s), p)),
                   t, op, o, n, G, D)
<1> DEFINE f == Last(s)
<1> DEFINE g == WithoutItsFile(f, p)
<1>1. Level(f, Len(s), t, op, o, n, D) /\ Covered(f, {}, t, op, o, n, F, D)
  BY TopIs
<1>2. f \in Frames
  BY <1>1 DEF Level
<1> HIDE DEF f
<1>3. /\ g \in Frames /\ g.op = f.op /\ g.old = f.old /\ g.new = f.new
      /\ g.files = f.files \ {p} /\ g.folders = f.folders
  BY <1>2 DEF Frames, WithoutItsFile
<1> HIDE DEF g
<1>4. Level(g, Len(s), t, op, o, n, D)
  BY <1>1, <1>3 DEF Level
<1>5. Covered(g, {}, t, op, o, n, G, D)
  BY <1>1, <1>3 DEF Covered
<1>6. g.old = Last(s).old /\ F \subseteq G
  BY <1>3 DEF f
<1>7. Stacked(Append(Front(s), g), t, op, o, n, G, D)
  BY <1>4, <1>5, <1>6, StackChanged
<1> QED BY <1>7 DEF f, g

LEMMA StackSkip ==
    ASSUME NEW t, NEW op, NEW o, NEW n, NEW F, NEW D, NEW s,
           Stacked(s, t, op, o, n, F, D), NEW q \in Last(s).folders,
           q \notin Dirs(t, op, o, n) \ D
    PROVE  Stacked(Append(Front(s), WithoutItsFolder(Last(s), q)),
                   t, op, o, n, F, D)
<1> DEFINE f == Last(s)
<1> DEFINE g == WithoutItsFolder(f, q)
<1>1. Level(f, Len(s), t, op, o, n, D) /\ Covered(f, {}, t, op, o, n, F, D)
  BY TopIs
<1>2. f \in Frames
  BY <1>1 DEF Level
<1> HIDE DEF f
<1>3. /\ g \in Frames /\ g.op = f.op /\ g.old = f.old /\ g.new = f.new
      /\ g.folders = f.folders \ {q} /\ g.files = f.files
  BY <1>2 DEF Frames, WithoutItsFolder
<1> HIDE DEF g
<1>4. Level(g, Len(s), t, op, o, n, D)
  BY <1>1, <1>3 DEF Level
<1>5. Covered(g, {}, t, op, o, n, F, D)
  BY <1>1, <1>3 DEF Covered
<1>6. g.old = Last(s).old
  BY <1>3 DEF f
<1>7. Stacked(Append(Front(s), g), t, op, o, n, F, D)
  BY <1>4, <1>5, <1>6, StackChanged
<1> QED BY <1>7 DEF f, g

(* A call is made for one of the folders.                                   *)
LEMMA StackEnter ==
    ASSUME NEW t, NEW op, NEW o, NEW n, NEW F, NEW D, NEW s,
           Stacked(s, t, op, o, n, F, D), Last(s).files = {},
           NEW q \in Last(s).folders, NEW h, h.old = q,
           Level(h, Len(s) + 1, t, op, o, n, D), Covered(h, {}, t, op, o, n, F, D)
    PROVE  Stacked(Append(Append(Front(s), WithoutItsFolder(Last(s), q)), h),
                   t, op, o, n, F, D)
<1> DEFINE f == Last(s)
<1> DEFINE g == WithoutItsFolder(f, q)
<1> DEFINE k == Len(s)
<1> DEFINE r == Append(Append(Front(s), g), h)
<1>1. /\ Level(f, k, t, op, o, n, D) /\ Covered(f, {}, t, op, o, n, F, D)
      /\ f = s[k] /\ k \in Nat \ {0}
  BY TopIs
<1>2. f \in Frames /\ h \in Frames /\ Front(q) = f.old
  BY <1>1 DEF Level, FoldersIn
<1>3. s \in Seq(Frames) /\ s # <<>> /\ s[1].old = o
  BY DEF Stacked
<1> HIDE DEF f
<1>4. /\ g \in Frames /\ g.op = f.op /\ g.old = f.old /\ g.new = f.new
      /\ g.folders = f.folders \ {q} /\ g.files = f.files
  BY <1>2 DEF Frames, WithoutItsFolder
<1> HIDE DEF g
<1>5. Level(g, k, t, op, o, n, D) /\ Covered(g, {q}, t, op, o, n, F, D)
  BY <1>1, <1>4 DEF Level, Covered
<1>6. /\ Append(Front(s), g) \in Seq(Frames) /\ Len(Append(Front(s), g)) = k
      /\ Append(Front(s), g)[k] = g
      /\ \A i \in 1 .. (k - 1) : Append(Front(s), g)[i] = s[i]
  BY <1>3, <1>4, TopChanged
<1>7. /\ r \in Seq(Frames) /\ Len(r) = k + 1 /\ r # <<>> /\ r[k + 1] = h
      /\ r[k] = g /\ \A i \in 1 .. (k - 1) : r[i] = s[i]
  BY <1>1, <1>2, <1>6, AppendProperties
<1> HIDE DEF r, k
<1>8. \A i \in 1 .. k : r[i].old = s[i].old
  <2>1. \A i \in 1 .. k : i = k \/ i \in 1 .. (k - 1)
    BY <1>1
  <2> QED BY <1>1, <1>4, <1>7, <2>1
<1>9. ASSUME NEW i \in 1 .. k + 1
      PROVE  /\ Level(r[i], i, t, op, o, n, D)
             /\ Covered(r[i], Inner(r, i), t, op, o, n, F, D)
  <2>1. CASE i = k + 1
    <3>1. Inner(r, i) = {}
      BY <1>1, <1>7, <2>1 DEF Inner
    <3> QED BY <1>7, <2>1, <3>1 DEF k
  <2>2. CASE i = k
    <3>1. Inner(r, i) = {q}
      BY <1>1, <1>7, <2>2 DEF Inner
    <3> QED BY <1>5, <1>7, <2>2, <3>1
  <2>3. CASE i # k /\ i # k + 1
    <3>1. i \in 1 .. (k - 1) /\ i + 1 \in 1 .. k /\ i < k /\ i < k + 1 /\ i \in 1 .. k
      BY <1>1, <2>3
    <3>2. r[i] = s[i] /\ Inner(r, i) = Inner(s, i)
      BY <1>7, <1>8, <3>1 DEF Inner, k
    <3> QED BY <3>1, <3>2 DEF Stacked, k
  <2> QED BY <2>1, <2>2, <2>3
<1>10. ASSUME NEW i \in 1 .. k
       PROVE  r[i].files = {} /\ Front(r[i + 1].old) = r[i].old
  <2>1. CASE i = k
    BY <1>2, <1>4, <1>7, <2>1 DEF f
  <2>2. CASE i # k
    <3>1. i \in 1 .. (k - 1) /\ i + 1 \in 1 .. k
      BY <1>1, <2>2
    <3>2. s[i].files = {} /\ Front(s[i + 1].old) = s[i].old
      BY <3>1 DEF Stacked, k
    <3> QED BY <1>7, <1>8, <3>1, <3>2
  <2> QED BY <2>1, <2>2
<1>11. r[1].old = o /\ k + 1 - 1 = k
  BY <1>1, <1>3, <1>8
<1>12. Stacked(r, t, op, o, n, F, D)
  <2>1. 1 .. Len(r) = 1 .. k + 1 /\ 1 .. (Len(r) - 1) = 1 .. k
    <3>1. Len(r) = k + 1 /\ Len(r) - 1 = k
      BY <1>1, <1>7
    <3> QED BY <3>1
  <2> QED BY <1>7, <1>9, <1>10, <1>11, <2>1, Zenon DEF Stacked
<1> QED BY <1>12 DEF f, g, r

(* A call for a folder within returns: the folder can be done.              *)
LEMMA StackReturn ==
    ASSUME NEW t, NEW op, NEW o, NEW n, NEW F, NEW D, NEW s,
           Stacked(s, t, op, o, n, F, D), NothingLeft(Last(s)), Len(s) # 1,
           Feasible(t, op, o, n)
    PROVE  LET q == Last(s).old
           IN  /\ q \in Dirs(t, op, o, n) \ D
               /\ \A p \in Docs(t, op, o, n) : Front(p) = q \/ p = q => p \in F
               /\ \A x \in Dirs(t, op, o, n) : Front(x) = q => x \in D
               /\ Stacked(Front(s), t, op, o, n, F, D \cup {q})
<1> DEFINE f == Last(s)
<1> DEFINE k == Len(s)
<1> DEFINE q == f.old
<1> DEFINE r == Front(s)
<1>1. /\ Level(f, k, t, op, o, n, D) /\ Covered(f, {}, t, op, o, n, F, D)
      /\ f = s[k] /\ k \in Nat \ {0}
  BY TopIs
<1>2. f.files = {} /\ f.folders = {} /\ k # 1 /\ Len(o) \in Nat
  BY FeasibleIs DEF NothingLeft
<1>3. s \in Seq(Frames) /\ s # <<>> /\ s[1].old = o
  BY DEF Stacked
<1>4. /\ r \in Seq(Frames) /\ Len(r) = k - 1 /\ \A i \in 1 .. (k - 1) : r[i] = s[i]
  BY <1>3, TopOf
<1>a. \A i \in 1 .. (k - 1) : /\ s[i].files = {} /\ Front(s[i + 1].old) = s[i].old
  BY DEF Stacked
<1>b. \A i \in 1 .. k : /\ Level(s[i], i, t, op, o, n, D)
                        /\ Covered(s[i], Inner(s, i), t, op, o, n, F, D)
  BY DEF Stacked
<1> HIDE DEF f, k, r
<1>5. q \in Dirs(t, op, o, n) \ D /\ Len(q) = Len(o) + k - 1
  <2>1. q \in ({o} \cup Dirs(t, op, o, n)) \ D /\ Len(q) = Len(o) + k - 1
    BY <1>1 DEF Level
  <2>2. q # o
    BY <1>1, <1>2, <2>1
  <2> QED BY <2>1, <2>2
<1>6. k - 1 \in 1 .. (k - 1) /\ (k - 1) + 1 = k /\ k - 1 \in 1 .. k
  BY <1>1, <1>2
<1>7. Front(q) = s[k - 1].old /\ s[k - 1].files = {}
  BY <1>1, <1>6, <1>a
<1>8. \A p \in Docs(t, op, o, n) : Front(p) = q \/ p = q => p \in F
  <2>1. Covered(s[k - 1], Inner(s, k - 1), t, op, o, n, F, D)
    BY <1>6, <1>b
  <2> QED BY <1>1, <1>2, <1>7, <2>1 DEF Covered
<1>9. \A x \in Dirs(t, op, o, n) : Front(x) = q => x \in D
  BY <1>1, <1>2 DEF Covered
<1>10. ASSUME NEW i \in 1 .. (k - 1)
       PROVE  /\ Level(r[i], i, t, op, o, n, D \cup {q})
              /\ Covered(r[i], Inner(r, i), t, op, o, n, F, D \cup {q})
  <2>1. i \in 1 .. k /\ i < k /\ i \in Nat
    BY <1>1
  <2>2. Level(s[i], i, t, op, o, n, D) /\ Covered(s[i], Inner(s, i), t, op, o, n, F, D)
    BY <2>1, <1>b
  <2>3. s[i].old # q
    <3>1. Len(s[i].old) = Len(o) + i - 1
      BY <2>2 DEF Level
    <3> QED BY <1>1, <1>2, <1>5, <2>1, <3>1
  <2>4. Level(s[i], i, t, op, o, n, D \cup {q})
    BY <2>2, <2>3 DEF Level
  <2>5. Inner(s, i) \subseteq Inner(r, i) \cup {q}
    <3>1. CASE i = k - 1
      BY <1>1, <1>6, <3>1 DEF Inner, k
    <3>2. CASE i # k - 1
      <4>1. i < k - 1 /\ i + 1 \in 1 .. (k - 1) /\ i < k
        BY <1>1, <3>2
      <4> QED BY <1>4, <4>1 DEF Inner, k
    <3> QED BY <3>1, <3>2
  <2>6. Covered(s[i], Inner(r, i), t, op, o, n, F, D \cup {q})
    BY <2>2, <2>5 DEF Covered
  <2> QED BY <1>4, <2>4, <2>6
<1>11. ASSUME NEW i \in 1 .. (k - 1 - 1)
       PROVE  r[i].files = {} /\ Front(r[i + 1].old) = r[i].old
  <2>1. i \in 1 .. (k - 1) /\ i + 1 \in 1 .. (k - 1)
    BY <1>1
  <2> QED BY <1>4, <1>a, <2>1
<1>12. r # <<>> /\ r[1].old = o
  <2>1. 1 \in 1 .. (k - 1)
    BY <1>1, <1>2
  <2>2. Len(r) # 0
    BY <1>1, <1>2, <1>4
  <2> QED BY <1>3, <1>4, <2>1, <2>2, EmptySeq
<1>13. Stacked(r, t, op, o, n, F, D \cup {q})
  BY <1>4, <1>10, <1>11, <1>12 DEF Stacked
<1> QED BY <1>5, <1>8, <1>9, <1>13 DEF f, r

(* The outermost call comes to its end.                                     *)
LEMMA StackEnd ==
    ASSUME NEW t, NEW op, NEW o, NEW n, NEW F, NEW D, NEW s,
           Stacked(s, t, op, o, n, F, D), NothingLeft(Last(s)), Len(s) = 1,
           Feasible(t, op, o, n), Orderly(t, op, o, n, F, D)
    PROVE  F = Docs(t, op, o, n) /\ D = Dirs(t, op, o, n) /\ Last(s).old = o
           /\ Last(s).op = op /\ Last(s).new = n
<1> DEFINE f == Last(s)
<1> DEFINE TD == Dirs(t, op, o, n)
<1>1. /\ Level(f, 1, t, op, o, n, D) /\ Covered(f, {}, t, op, o, n, F, D) /\ f = s[1]
  BY TopIs
<1>2. f.files = {} /\ f.folders = {} /\ f.old = o
  BY <1>1 DEF NothingLeft, Stacked
<1>3. /\ o \in AnyPath /\ n \in AnyPath /\ TD \subseteq Met(t, op, o, n)
      /\ Docs(t, op, o, n) \subseteq Met(t, op, o, n)
      /\ \A q \in TD : q \in AnyPath /\ Under(o, q)
  BY FeasibleIs
<1>4. f.op = op /\ f.new = n
  BY <1>1, <1>2, <1>3, MovedSelf DEF Level
<1>5. TD \ D = {}
  <2>1. SUFFICES ASSUME TD \ D # {} PROVE FALSE
    OBVIOUS
  <2>2. PICK x \in TD \ D : \A y \in TD \ D : Len(x) <= Len(y)
    BY <1>3, <2>1, ShortestPath
  <2>3. Front(x) \in {o} \cup TD /\ Tree!Within(o, x)
    BY <1>3, <2>2 DEF Met
  <2>4. Front(x) # o
    BY <1>1, <1>2, <2>2 DEF Covered
  <2>5. Front(x) \notin D
    BY <2>2 DEF Orderly
  <2>6. Len(Front(x)) = Len(x) - 1 /\ Len(x) \in Nat
    <3>1. Under(o, x) /\ Len(o) < Len(x) /\ Len(x) \in Nat /\ Len(o) \in Nat
      BY <1>3, <2>2, <2>3, WithinIs
    <3>2. Len(x) # 0
      BY <3>1
    <3> QED BY <1>3, <2>2, <3>1, <3>2, FrontIs
  <2> QED BY <2>2, <2>3, <2>4, <2>5, <2>6
<1>6. D = TD
  BY <1>5 DEF Orderly
<1>7. F = Docs(t, op, o, n)
  <2>1. ASSUME NEW p \in Docs(t, op, o, n) PROVE p \in F
    <3>1. Front(p) \in {o} \cup TD
      BY <1>3 DEF Met
    <3>2. CASE Front(p) = o
      BY <1>1, <1>2, <3>2 DEF Covered
    <3>3. CASE Front(p) \in D
      BY <3>3 DEF Orderly
    <3> QED BY <1>6, <3>1, <3>2, <3>3
  <2> QED BY <2>1 DEF Orderly
<1> QED BY <1>2, <1>4, <1>6, <1>7

-----------------------------------------------------------------------------
(* What single files and folders do to the lists.                           *)
LEMMA FileAdded ==
    ASSUME lists \in Trees, NEW p \in FullPaths, NEW c \in FullPaths \cup {Broken}
    PROVE  LET r == WithFile(p, c)
           IN  /\ r \in Trees /\ r = Tree!With(lists, p, c)
               /\ DOMAIN r.files = DOMAIN lists.files \cup {p}
               /\ r.folders = lists.folders /\ r.files[p] = c
               /\ \A q \in DOMAIN lists.files \ {p} : r.files[q] = lists.files[q]
<1> DEFINE g == [q \in DOMAIN lists.files \cup {p} |-> IF q = p THEN c ELSE lists.files[q]]
<1>1. /\ lists = [files |-> lists.files, folders |-> lists.folders]
      /\ DOMAIN lists.files \subseteq FullPaths /\ lists.folders \subseteq FullPaths
      /\ lists.files \in [DOMAIN lists.files -> FullPaths \cup {Broken}]
  BY TreeIs
<1>2. WithFile(p, c) = [lists EXCEPT !.files = g] /\ Tree!With(lists, p, c) = WithFile(p, c)
  BY DEF WithFile, Tree!With
<1>3. g \in [DOMAIN lists.files \cup {p} -> FullPaths \cup {Broken}]
  BY <1>1
<1>4. DOMAIN g = DOMAIN lists.files \cup {p} /\ g[p] = c
      /\ \A q \in DOMAIN lists.files \ {p} : g[q] = lists.files[q]
  OBVIOUS
<1> HIDE DEF g
<1>5. WithFile(p, c) = [files |-> g, folders |-> lists.folders]
  BY <1>1, <1>2
<1>6. WithFile(p, c) \in Trees
  BY <1>1, <1>3, <1>5, IsATree
<1> QED BY <1>2, <1>4, <1>5, <1>6

LEMMA FileRemoved ==
    ASSUME lists \in Trees, NEW p \in DOMAIN lists.files
    PROVE  LET r == WithoutFile(p)
           IN  /\ r \in Trees
               /\ r = [lists EXCEPT !.files = Tree!Restrict(@, DOMAIN @ \ {p})]
               /\ DOMAIN r.files = DOMAIN lists.files \ {p}
               /\ r.folders = lists.folders
               /\ \A q \in DOMAIN lists.files \ {p} : r.files[q] = lists.files[q]
<1> DEFINE g == [q \in DOMAIN lists.files \ {p} |-> lists.files[q]]
<1>1. /\ lists = [files |-> lists.files, folders |-> lists.folders]
      /\ DOMAIN lists.files \subseteq FullPaths /\ lists.folders \subseteq FullPaths
      /\ lists.files \in [DOMAIN lists.files -> FullPaths \cup {Broken}]
  BY TreeIs
<1>2. /\ WithoutFile(p) = [lists EXCEPT !.files = g]
      /\ [lists EXCEPT !.files = Tree!Restrict(@, DOMAIN @ \ {p})] = [lists EXCEPT !.files = g]
  BY DEF WithoutFile, Restrict, Tree!Restrict
<1>3. g \in [DOMAIN lists.files \ {p} -> FullPaths \cup {Broken}]
  BY <1>1
<1>4. DOMAIN g = DOMAIN lists.files \ {p}
      /\ \A q \in DOMAIN lists.files \ {p} : g[q] = lists.files[q]
  OBVIOUS
<1> HIDE DEF g
<1>5. WithoutFile(p) = [files |-> g, folders |-> lists.folders]
  BY <1>1, <1>2
<1>6. WithoutFile(p) \in Trees
  BY <1>1, <1>3, <1>5, IsATree
<1> QED BY <1>2, <1>4, <1>5, <1>6

LEMMA FileMoved ==
    ASSUME lists \in Trees, NEW p \in DOMAIN lists.files, NEW x \in FullPaths,
           MayTakeFile(p, x)
    PROVE  LET r == FileRenamed(p, x)
           IN  /\ r \in Trees
               /\ r = [lists EXCEPT !.files =
                         [q \in (DOMAIN @ \cup {x}) \ {p} |->
                            IF q = x THEN @[p] ELSE @[q]]]
               /\ DOMAIN r.files = (DOMAIN lists.files \cup {x}) \ {p}
               /\ r.folders = lists.folders /\ r.files[x] = lists.files[p]
               /\ \A q \in DOMAIN lists.files \ {p} : r.files[q] = lists.files[q]
<1> DEFINE g == [q \in (DOMAIN lists.files \cup {x}) \ {p} |->
                    IF q = x THEN lists.files[p] ELSE lists.files[q]]
<1>1. /\ lists = [files |-> lists.files, folders |-> lists.folders]
      /\ DOMAIN lists.files \subseteq FullPaths /\ lists.folders \subseteq FullPaths
      /\ lists.files \in [DOMAIN lists.files -> FullPaths \cup {Broken}]
      /\ x # p /\ x \notin DOMAIN lists.files
  BY TreeIs DEF MayTakeFile
<1>2. /\ FileRenamed(p, x) = [lists EXCEPT !.files = g]
      /\ [lists EXCEPT !.files =
            [q \in (DOMAIN @ \cup {x}) \ {p} |-> IF q = x THEN @[p] ELSE @[q]]]
           = FileRenamed(p, x)
  BY DEF FileRenamed
<1>3. g \in [(DOMAIN lists.files \cup {x}) \ {p} -> FullPaths \cup {Broken}]
  BY <1>1
<1>4. DOMAIN g = (DOMAIN lists.files \cup {x}) \ {p} /\ g[x] = lists.files[p]
      /\ \A q \in DOMAIN lists.files \ {p} : g[q] = lists.files[q]
  BY <1>1
<1> HIDE DEF g
<1>5. FileRenamed(p, x) = [files |-> g, folders |-> lists.folders]
  BY <1>1, <1>2
<1>6. FileRenamed(p, x) \in Trees
  BY <1>1, <1>3, <1>5, IsATree
<1> QED BY <1>2, <1>4, <1>5, <1>6

LEMMA FolderAdded ==
    ASSUME lists \in Trees, NEW p \in FullPaths
    PROVE  LET r == WithFolder(p)
           IN  /\ r \in Trees /\ r = Tree!WithFolder(lists, p)
               /\ r.files = lists.files /\ r.folders = lists.folders \cup {p}
<1>1. /\ lists = [files |-> lists.files, folders |-> lists.folders]
      /\ DOMAIN lists.files \subseteq FullPaths /\ lists.folders \subseteq FullPaths
      /\ lists.files \in [DOMAIN lists.files -> FullPaths \cup {Broken}]
  BY TreeIs
<1>2. /\ WithFolder(p) = [files |-> lists.files, folders |-> lists.folders \cup {p}]
      /\ WithFolder(p) = Tree!WithFolder(lists, p)
  BY <1>1 DEF WithFolder, Tree!WithFolder
<1>3. WithFolder(p) \in Trees
  BY <1>1, <1>2, IsATree
<1> QED BY <1>2, <1>3

-----------------------------------------------------------------------------
(* The invariant.  What the user saw last, half done by the call under way, *)
(* is what is in memory.                                                    *)
UnderWay(op, o, n, F, D) ==
    /\ Feasible(seen.tree, op, o, n)
    /\ Orderly(seen.tree, op, o, n, F, D)
    /\ Half(lists, seen.tree, op, o, n, F, D)
    /\ Stacked(calls, seen.tree, op, o, n, F, D)
    /\ copy # None => /\ op = "copy" /\ lists.files[copy.to] = Broken
                      /\ \E p \in F : copy = [from |-> p, to |-> Moved(p, o, n)]

Running(op, o, n) ==
    \E F \in SUBSET Docs(seen.tree, op, o, n), D \in SUBSET Dirs(seen.tree, op, o, n) :
       UnderWay(op, o, n, F, D)

FoldersTypes ==
    /\ lists \in Trees /\ table \in Trees
    /\ seen \in [tree : Trees, answer : {"none", "ok", "failed"}]
    /\ copy \in [from : FullPaths, to : FullPaths] \cup {None}
    /\ faults \in 0 .. MaxFaults /\ astray \in BOOLEAN
    /\ doomed \subseteq FullPaths \cup {Broken}

IdleKept ==
    calls = <<>> =>
       /\ copy = None => lists = seen.tree
       /\ copy # None =>
             /\ copy.from \in DOMAIN seen.tree.files
             /\ copy.to \in FullPaths \ Entries(seen.tree)
             /\ lists = Tree!With(seen.tree, copy.to, Broken)
             /\ table = lists /\ goal = None

CallsKept == calls # <<>> => Running(calls[1].op, calls[1].old, calls[1].new)

(* The call that was begun can be made again, on what is in memory and on   *)
(* what is on the disk.                                                     *)
Resumable(m, g) ==
    /\ Feasible(m, g.op, g.old, g.new)
    /\ Achieved(g.op, m, g.old, g.new) = g.tree

GoalKept ==
    goal # None =>
       /\ goal.op \in {"rename", "delete"}
       /\ Resumable(lists, goal) /\ Resumable(table, goal) /\ Resumable(seen.tree, goal)
       /\ calls # <<>> => /\ goal.op = calls[1].op
                          /\ goal.old = calls[1].old /\ goal.new = calls[1].new

ContentsKept ==
    /\ Range(table.files) \subseteq Range(lists.files) \cup doomed \cup {Broken}
    /\ calls # <<>> /\ calls[1].op = "delete" =>
          \A p \in Docs(seen.tree, "delete", calls[1].old, calls[1].new) :
             seen.tree.files[p] \in doomed

ClosedKept ==
    ~astray =>
       /\ Tree!Closed(seen.tree)
       /\ (calls # <<>> => calls[1].op = "delete") => Tree!Closed(table)
       /\ calls # <<>> /\ calls[1].op # "delete" =>
             /\ ~Tree!Within(calls[1].old, calls[1].new)
             /\ Len(calls[1].new) > 1 => Front(calls[1].new) \in seen.tree.folders

FoldersInv ==
    /\ FoldersTypes /\ IdleKept /\ CallsKept
    /\ GoalKept /\ ContentsKept /\ ClosedKept

LEMMA RootIs ==
    ASSUME NEW t, NEW op, NEW o, NEW n, Feasible(t, op, o, n), NEW F, NEW D, NEW s,
           Stacked(s, t, op, o, n, F, D)
    PROVE  s # <<>> /\ s[1].op = op /\ s[1].old = o /\ s[1].new = n
<1>1. /\ s \in Seq(Frames) /\ s # <<>> /\ s[1].old = o
      /\ \A i \in 1 .. Len(s) : Level(s[i], i, t, op, o, n, D)
  BY DEF Stacked
<1>2. 1 \in 1 .. Len(s)
  BY <1>1, TopOf
<1>3. o \in AnyPath /\ n \in AnyPath
  BY FeasibleIs
<1>4. s[1].op = op /\ s[1].new = Moved(o, o, n)
  BY <1>1, <1>2 DEF Level
<1> QED BY <1>1, <1>3, <1>4, MovedSelf

LEMMA CallIs ==
    ASSUME CallsKept, calls # <<>>
    PROVE  \E op, o, n, F, D :
              /\ UnderWay(op, o, n, F, D)
              /\ calls[1].op = op /\ calls[1].old = o /\ calls[1].new = n
  BY DEF CallsKept, Running

LEMMA RangeIs ==
    ASSUME NEW t \in Trees
    PROVE  /\ Range(t.files) = {t.files[p] : p \in DOMAIN t.files}
           /\ Range(t.files) \subseteq FullPaths \cup {Broken}
<1>1. t.files \in [DOMAIN t.files -> FullPaths \cup {Broken}]
  BY TreeIs
<1> QED BY <1>1 DEF Range

-----------------------------------------------------------------------------
(* What the steps show: to the caller, on the disk, and of a call made      *)
(* again.                                                                   *)
LeavesContents == Range(table.files) \subseteq Range(table'.files) \cup doomed' \cup {Broken}

Retried ==
    calls # <<>> /\ calls' = <<>> /\ goal # None /\ seen'.answer = "ok"
       => lists' = goal.tree

StepKeeps == FoldersInv' /\ LeavesContents /\ Retried

(* A call on a single file or folder.                                       *)
LEMMA SingleKeeps ==
    ASSUME FoldersInv, NoCall, NEW r \in Trees, NEW ok \in BOOLEAN,
           Save(r, ok), Returned(ok), UNCHANGED <<calls, copy>>, goal' = None,
           NEW P \in SUBSET DOMAIN lists.files, Doom(P),
           \A q \in DOMAIN lists.files \ P : lists.files[q] \in Range(r.files),
           astray' \in BOOLEAN, astray => astray',
           ~astray' /\ Tree!Closed(lists) => Tree!Closed(r)
    PROVE  StepKeeps
<1>1. /\ calls = <<>> /\ copy = None /\ lists = seen.tree
      /\ lists \in Trees /\ table \in Trees /\ faults \in 0 .. MaxFaults
      /\ doomed \subseteq FullPaths \cup {Broken}
  BY DEF FoldersInv, FoldersTypes, IdleKept, NoCall
<1>2. /\ lists' = r /\ table' = (IF ok THEN r ELSE table)
      /\ (ok \/ faults < MaxFaults) /\ faults' = (IF ok THEN faults ELSE faults + 1)
  BY DEF Save
<1>3. seen' = [tree |-> r, answer |-> IF ok THEN "ok" ELSE "failed"]
  BY <1>2 DEF Returned
<1>4. doomed' = (doomed \cap Range(table.files)) \cup {lists.files[p] : p \in P}
  BY DEF Doom
<1>5. MaxFaults \in Nat
  BY FoldersAssumption
<1>6. /\ Range(lists.files) = {lists.files[p] : p \in DOMAIN lists.files}
      /\ Range(lists.files) \subseteq FullPaths \cup {Broken}
  BY <1>1, RangeIs
<1>7. FoldersTypes'
  <2>1. faults' \in 0 .. MaxFaults
    BY <1>1, <1>2, <1>5
  <2>2. doomed' \subseteq FullPaths \cup {Broken}
    BY <1>1, <1>4, <1>6
  <2> QED BY <1>1, <1>2, <1>3, <2>1, <2>2 DEF FoldersTypes
<1>8. IdleKept' /\ CallsKept' /\ GoalKept'
  BY <1>1, <1>2, <1>3 DEF IdleKept, CallsKept, GoalKept
<1>9. Range(table.files) \subseteq Range(r.files) \cup doomed' \cup {Broken}
  <2>1. Range(table.files) \subseteq Range(lists.files) \cup doomed \cup {Broken}
    BY DEF FoldersInv, ContentsKept
  <2> QED BY <1>4, <1>6, <2>1
<1>10. Range(table.files) \subseteq Range(table'.files) \cup doomed' \cup {Broken}
       /\ Range(table'.files) \subseteq Range(lists'.files) \cup doomed' \cup {Broken}
  BY <1>2, <1>9
<1>11. ContentsKept' /\ LeavesContents
  BY <1>1, <1>10 DEF ContentsKept, LeavesContents
<1>12. ClosedKept'
  <2>1. SUFFICES ASSUME ~astray' PROVE Tree!Closed(seen'.tree) /\ Tree!Closed(table')
    BY <1>1 DEF ClosedKept
  <2>2. Tree!Closed(lists) /\ Tree!Closed(table)
    BY <1>1, <2>1 DEF FoldersInv, ClosedKept
  <2> QED BY <1>2, <1>3, <2>1, <2>2
<1> QED BY <1>1, <1>7, <1>8, <1>11, <1>12 DEF StepKeeps, FoldersInv, Retried

LEMMA NotStray ==
    ASSUME lists \in Trees, NEW r, NEW p \in FullPaths, ~Stray(p), Tree!Closed(lists),
           Tree!Entries(r) \subseteq Entries(lists) \cup {p}, lists.folders \subseteq r.folders
    PROVE  Tree!Closed(r)
<1>1. p \in AnyPath /\ Len(p) # 0
  BY FullPathIs
<1>2. Tree!Front(p) = Front(p)
  BY <1>1, FrontIs
<1> QED BY <1>2 DEF Tree!Closed, Stray, Entries

(* What the user sees of it.                                                *)
Seen == [Tree!Next]_(Tree!vars)

LEMMA SeenChanged ==
    ASSUME NEW r, NEW ok \in BOOLEAN, Save(r, ok), Returned(ok)
    PROVE  Tree!Changed(r) /\ lists' = r /\ seen' = [tree |-> r, answer |-> seen'.answer]
  BY DEF Save, Returned, Tree!Changed

LEMMA CreateFileStep ==
    ASSUME FoldersInv, NoCall, NEW p \in FullPaths, CallCreateFile(p), goal' = None
    PROVE  StepKeeps /\ Seen
<1>1. /\ calls = <<>> /\ copy = None /\ lists = seen.tree /\ lists \in Trees
      /\ astray \in BOOLEAN
  BY DEF FoldersInv, FoldersTypes, IdleKept, NoCall
<1>2. PICK ok \in BOOLEAN : Save(WithFile(p, p), ok) /\ Returned(ok)
  BY DEF CallCreateFile
<1>3. /\ p \notin DOMAIN lists.files /\ Doom({}) /\ astray' = (astray \/ Stray(p))
      /\ UNCHANGED <<calls, copy>>
  BY DEF CallCreateFile, NoteStray
<1> DEFINE r == WithFile(p, p)
<1>4. /\ r \in Trees /\ r = Tree!With(lists, p, p)
      /\ DOMAIN r.files = DOMAIN lists.files \cup {p} /\ r.folders = lists.folders
      /\ \A q \in DOMAIN lists.files \ {p} : r.files[q] = lists.files[q]
  BY <1>1, FileAdded
<1> HIDE DEF r
<1>5. \A q \in DOMAIN lists.files \ {} : lists.files[q] \in Range(r.files)
  BY <1>3, <1>4 DEF Range
<1>6. ~astray' /\ Tree!Closed(lists) => Tree!Closed(r)
  BY <1>1, <1>3, <1>4, NotStray DEF Entries, Tree!Entries
<1>7. Stray(p) \in BOOLEAN
  BY DEF Stray
<1>8. astray' \in BOOLEAN /\ (astray => astray')
  BY <1>1, <1>3, <1>7
<1>9. StepKeeps
  BY <1>2, <1>3, <1>4, <1>5, <1>6, <1>8, SingleKeeps DEF r
<1>10. Tree!CreateFile(p)
  BY <1>1, <1>2, <1>3, <1>4, SeenChanged DEF r, Tree!CreateFile
<1> QED BY <1>9, <1>10 DEF Seen, Tree!Next, Tree!Calls

LEMMA CreateFolderStep ==
    ASSUME FoldersInv, NoCall, NEW p \in FullPaths, CallCreateFolder(p), goal' = None
    PROVE  StepKeeps /\ Seen
<1>1. /\ calls = <<>> /\ copy = None /\ lists = seen.tree /\ lists \in Trees
      /\ astray \in BOOLEAN
  BY DEF FoldersInv, FoldersTypes, IdleKept, NoCall
<1>2. PICK ok \in BOOLEAN : Save(WithFolder(p), ok) /\ Returned(ok)
  BY DEF CallCreateFolder
<1>3. /\ p \notin lists.folders /\ Doom({}) /\ astray' = (astray \/ Stray(p))
      /\ UNCHANGED <<calls, copy>>
  BY DEF CallCreateFolder, NoteStray
<1> DEFINE r == WithFolder(p)
<1>4. /\ r \in Trees /\ r = Tree!WithFolder(lists, p)
      /\ r.files = lists.files /\ r.folders = lists.folders \cup {p}
  BY <1>1, FolderAdded
<1> HIDE DEF r
<1>5. \A q \in DOMAIN lists.files \ {} : lists.files[q] \in Range(r.files)
  BY <1>4 DEF Range
<1>6. ~astray' /\ Tree!Closed(lists) => Tree!Closed(r)
  BY <1>1, <1>3, <1>4, NotStray DEF Entries, Tree!Entries
<1>7. Stray(p) \in BOOLEAN
  BY DEF Stray
<1>8. astray' \in BOOLEAN /\ (astray => astray')
  BY <1>1, <1>3, <1>7
<1>9. StepKeeps
  BY <1>2, <1>3, <1>4, <1>5, <1>6, <1>8, SingleKeeps DEF r
<1>10. Tree!CreateFolder(p)
  BY <1>1, <1>2, <1>3, <1>4, SeenChanged DEF r, Tree!CreateFolder
<1> QED BY <1>9, <1>10 DEF Seen, Tree!Next, Tree!Calls

LEMMA DeleteFileStep ==
    ASSUME FoldersInv, NoCall, NEW p \in FullPaths, CallDeleteFile(p), goal' = None
    PROVE  StepKeeps /\ Seen
<1>1. /\ calls = <<>> /\ copy = None /\ lists = seen.tree /\ lists \in Trees
      /\ astray \in BOOLEAN
  BY DEF FoldersInv, FoldersTypes, IdleKept, NoCall
<1>2. PICK ok \in BOOLEAN : Save(WithoutFile(p), ok) /\ Returned(ok)
  BY DEF CallDeleteFile
<1>3. /\ p \in DOMAIN lists.files /\ Doom({p})
      /\ UNCHANGED <<calls, copy, astray>>
  BY DEF CallDeleteFile
<1> DEFINE r == WithoutFile(p)
<1>4. /\ r \in Trees /\ r = [lists EXCEPT !.files = Tree!Restrict(@, DOMAIN @ \ {p})]
      /\ DOMAIN r.files = DOMAIN lists.files \ {p} /\ r.folders = lists.folders
      /\ \A q \in DOMAIN lists.files \ {p} : r.files[q] = lists.files[q]
  BY <1>1, <1>3, FileRemoved
<1> HIDE DEF r
<1>5. \A q \in DOMAIN lists.files \ {p} : lists.files[q] \in Range(r.files)
  BY <1>4 DEF Range
<1>6. Tree!Closed(lists) => Tree!Closed(r)
  BY <1>4 DEF Tree!Closed, Tree!Entries
<1>7. {p} \in SUBSET DOMAIN lists.files
  BY <1>3
<1>9. StepKeeps
  BY <1>1, <1>2, <1>3, <1>4, <1>5, <1>6, <1>7, SingleKeeps DEF r
<1>10. Tree!DeleteFile(p)
  BY <1>1, <1>2, <1>3, <1>4, SeenChanged DEF r, Tree!DeleteFile
<1> QED BY <1>1, <1>3, <1>9, <1>10 DEF Seen, Tree!Next, Tree!Calls

LEMMA RenameFileStep ==
    ASSUME FoldersInv, NoCall, NEW p \in FullPaths, NEW x \in FullPaths,
           CallRenameFile(p, x), goal' = None
    PROVE  StepKeeps /\ Seen
<1>1. /\ calls = <<>> /\ copy = None /\ lists = seen.tree /\ lists \in Trees
      /\ astray \in BOOLEAN
  BY DEF FoldersInv, FoldersTypes, IdleKept, NoCall
<1>2. PICK ok \in BOOLEAN : Save(FileRenamed(p, x), ok) /\ Returned(ok)
  BY DEF CallRenameFile
<1>3. /\ MayTakeFile(p, x) /\ Doom({}) /\ astray' = (astray \/ Stray(x))
      /\ UNCHANGED <<calls, copy>>
  BY DEF CallRenameFile, NoteStray
<1>a. p \in DOMAIN lists.files /\ x # p /\ x \notin Entries(lists)
  BY <1>3 DEF MayTakeFile, Entries, Tree!Entries
<1> DEFINE r == FileRenamed(p, x)
<1>4. /\ r \in Trees
      /\ r = [lists EXCEPT !.files =
                [q \in (DOMAIN @ \cup {x}) \ {p} |-> IF q = x THEN @[p] ELSE @[q]]]
      /\ DOMAIN r.files = (DOMAIN lists.files \cup {x}) \ {p}
      /\ r.folders = lists.folders /\ r.files[x] = lists.files[p]
      /\ \A q \in DOMAIN lists.files \ {p} : r.files[q] = lists.files[q]
  BY <1>1, <1>3, <1>a, FileMoved
<1> HIDE DEF r
<1>5. \A q \in DOMAIN lists.files \ {} : lists.files[q] \in Range(r.files)
  BY <1>4, <1>a DEF Range
<1>6. ~astray' /\ Tree!Closed(lists) => Tree!Closed(r)
  BY <1>1, <1>3, <1>4, NotStray DEF Entries, Tree!Entries
<1>7. Stray(x) \in BOOLEAN
  BY DEF Stray
<1>8. astray' \in BOOLEAN /\ (astray => astray')
  BY <1>1, <1>3, <1>7
<1>9. StepKeeps
  BY <1>2, <1>3, <1>4, <1>5, <1>6, <1>8, SingleKeeps DEF r
<1>10. Tree!RenameFile(p, x)
  <2>1. Tree!Changed(r) /\ lists' = r
    BY <1>2, SeenChanged DEF r
  <2> QED BY <1>1, <1>4, <2>1 DEF Tree!RenameFile
<1>11. x \in FullPaths \ Tree!Entries(seen.tree) /\ p \in DOMAIN seen.tree.files
  BY <1>1, <1>a DEF Entries
<1> QED BY <1>9, <1>10, <1>11 DEF Seen, Tree!Next, Tree!Calls

(* CopyFile: its first half, when the file could not be made, and when it   *)
(* could.                                                                   *)
LEMMA CopyFileStep ==
    ASSUME FoldersInv, NoCall, NEW p \in FullPaths, NEW x \in FullPaths,
           CallCopyFile(p, x), goal' = None
    PROVE  StepKeeps /\ Seen
<1>1. /\ calls = <<>> /\ copy = None /\ lists = seen.tree /\ lists \in Trees
      /\ astray \in BOOLEAN /\ faults \in 0 .. MaxFaults
      /\ doomed \subseteq FullPaths \cup {Broken}
      /\ seen \in [tree : Trees, answer : {"none", "ok", "failed"}]
  BY DEF FoldersInv, FoldersTypes, IdleKept, NoCall
<1>2. PICK ok \in BOOLEAN :
         /\ Save(WithFile(x, Broken), ok)
         /\ IF ok THEN copy' = [from |-> p, to |-> x] /\ UNCHANGED seen
            ELSE Returned(FALSE) /\ UNCHANGED copy
  BY DEF CallCopyFile
<1>3. /\ MayTakeFile(p, x) /\ Doom({}) /\ astray' = (astray \/ Stray(x))
      /\ UNCHANGED calls
  BY DEF CallCopyFile, NoteStray
<1>a. p \in DOMAIN lists.files /\ x # p /\ x \notin Entries(lists)
  BY <1>3 DEF MayTakeFile, Entries, Tree!Entries
<1> DEFINE r == WithFile(x, Broken)
<1>4. /\ r \in Trees /\ r = Tree!With(lists, x, Broken)
      /\ DOMAIN r.files = DOMAIN lists.files \cup {x} /\ r.folders = lists.folders
      /\ \A q \in DOMAIN lists.files \ {x} : r.files[q] = lists.files[q]
  BY <1>1, FileAdded
<1> HIDE DEF r
<1>5. \A q \in DOMAIN lists.files \ {} : lists.files[q] \in Range(r.files)
  BY <1>4, <1>a DEF Range, Entries, Tree!Entries
<1>6. ~astray' /\ Tree!Closed(lists) => Tree!Closed(r)
  BY <1>1, <1>3, <1>4, NotStray DEF Entries, Tree!Entries
<1>7. Stray(x) \in BOOLEAN
  BY DEF Stray
<1>8. astray' \in BOOLEAN /\ (astray => astray')
  BY <1>1, <1>3, <1>7
<1>9. x \in FullPaths \ Tree!Entries(seen.tree) /\ p \in DOMAIN seen.tree.files
  BY <1>1, <1>a DEF Entries
<1>10. CASE ~ok
  <2>1. Save(r, FALSE) /\ Returned(FALSE) /\ UNCHANGED <<calls, copy>>
    BY <1>2, <1>3, <1>10 DEF r
  <2>2. StepKeeps
    BY <1>3, <1>4, <1>5, <1>6, <1>8, <2>1, SingleKeeps
  <2>3. Tree!CopyFile(p, x)
    <3>1. seen'.tree = r /\ seen'.answer = "failed"
      BY <2>1 DEF Save, Returned
    <3> QED BY <1>1, <1>4, <3>1 DEF Tree!CopyFile
  <2> QED BY <1>9, <2>2, <2>3 DEF Seen, Tree!Next, Tree!Calls
<1>11. CASE ok
  <2>1. /\ lists' = r /\ table' = r /\ faults' = faults
        /\ copy' = [from |-> p, to |-> x] /\ seen' = seen /\ calls' = <<>>
    BY <1>1, <1>2, <1>3, <1>11 DEF r, Save
  <2>2. copy' \in [from : FullPaths, to : FullPaths] /\ copy' # None
    <3>1. copy' \in [from : FullPaths, to : FullPaths]
      BY <2>1
    <3> QED BY <3>1, FoldersAssumption
  <2>3. doomed' = doomed \cap Range(table.files)
    BY <1>3 DEF Doom
  <2>4. FoldersTypes'
    BY <1>1, <1>4, <1>8, <2>1, <2>2, <2>3 DEF FoldersTypes
  <2>5. IdleKept'
    <3>1. copy'.from = p /\ copy'.to = x
      BY <2>1
    <3> QED BY <1>1, <1>4, <1>9, <2>1, <2>2, <3>1 DEF IdleKept, Entries
  <2>6. CallsKept' /\ GoalKept'
    BY <2>1 DEF CallsKept, GoalKept
  <2>7. ContentsKept' /\ LeavesContents
    <3>1. Range(table.files) \subseteq Range(lists.files) \cup doomed \cup {Broken}
      BY DEF FoldersInv, ContentsKept
    <3>2. Range(lists.files) \subseteq Range(r.files)
      BY <1>1, <1>5, RangeIs
    <3> QED BY <2>1, <2>3, <3>1, <3>2 DEF ContentsKept, LeavesContents
  <2>8. ClosedKept'
    <3>1. ~astray => Tree!Closed(lists)
      BY <1>1 DEF FoldersInv, ClosedKept
    <3> QED BY <1>1, <1>6, <1>8, <2>1, <3>1 DEF ClosedKept
  <2>9. Seen
    BY <2>1 DEF Seen, Tree!Next, Tree!Saving
  <2> QED BY <1>1, <2>4, <2>5, <2>6, <2>7, <2>8, <2>9 DEF StepKeeps, FoldersInv, Retried
<1> QED BY <1>10, <1>11

LEMMA RefusedStep ==
    ASSUME FoldersInv, NoCall, Refused, goal' = None
    PROVE  StepKeeps /\ Seen
<1>1. /\ calls = <<>> /\ copy = None /\ lists = seen.tree /\ lists \in Trees
      /\ seen \in [tree : Trees, answer : {"none", "ok", "failed"}]
  BY DEF FoldersInv, FoldersTypes, IdleKept, NoCall
<1>2. /\ seen' = [tree |-> seen.tree, answer |-> "failed"]
      /\ doomed' = doomed \cap Range(table.files)
      /\ UNCHANGED <<lists, table, calls, copy, faults, astray>>
  BY <1>1 DEF Refused, Doom
<1>3. FoldersTypes' /\ IdleKept' /\ CallsKept' /\ GoalKept'
  BY <1>1, <1>2 DEF FoldersInv, FoldersTypes, IdleKept, CallsKept, GoalKept
<1>4. ContentsKept' /\ LeavesContents
  <2>1. Range(table.files) \subseteq Range(lists.files) \cup doomed \cup {Broken}
    BY DEF FoldersInv, ContentsKept
  <2> QED BY <1>1, <1>2, <2>1 DEF ContentsKept, LeavesContents
<1>5. ClosedKept'
  BY <1>1, <1>2 DEF FoldersInv, ClosedKept
<1>6. Seen
  BY <1>1, <1>2 DEF Seen, Tree!Next, Tree!Refused
<1> QED BY <1>1, <1>3, <1>4, <1>5, <1>6 DEF StepKeeps, FoldersInv, Retried

(* The call on a folder is begun.                                           *)
LEMMA ToBeDone ==
    ASSUME lists \in Trees, NEW op \in Operations, NEW o \in lists.folders,
           NEW n \in FullPaths, op = "delete" => n = o, Fits(op, o, n), MayBegin(op, o, n)
    PROVE  Feasible(lists, op, o, n)
<1>1. o \in AnyPath
  BY TreeIs
<1>2. ASSUME NEW p \in Dirs(lists, op, o, n) \cup Docs(lists, op, o, n)
      PROVE  Moved(p, o, n) \in FullPaths
  <2>1. o \in FullPaths
    BY TreeIs
  <2>2. p \in FullPaths /\ p \in AnyPath /\ Tree!Within(o, p)
    <3>1. Dirs(lists, op, o, n) \subseteq lists.folders
      BY <2>1, DirsAre
    <3>2. Docs(lists, op, o, n) \subseteq DOMAIN lists.files
      BY <2>1, DocsAre
    <3>3. Tree!Within(o, p)
      BY <2>1, <1>2, DirsAre, DocsAre
    <3> QED BY <1>2, <3>1, <3>2, <3>3, TreeIs
  <2>3. CASE op = "delete"
    BY <1>1, <2>2, <2>3, WithinIs, MovedNowhere
  <2>4. CASE op # "delete"
    <3>1. p \in Tree!Below(lists, o)
      <4>1. Len(p) # 0 /\ Len(p) \in Nat /\ Under(o, p) /\ o # p
        BY <1>1, <2>2, FullPathIs, WithinIs, UnderSelf DEF Tree!Within, Tree!IsStrictPrefix
      <4>2. /\ Tree!Way(o, p) = Tree!Way(o, Front(p)) \cup {p}
            /\ Tree!Front(p) = Front(p)
        BY <1>1, <2>2, <4>1, WayIs, FrontIs
      <4>3. p \in Tree!Entries(lists)
        <5>1. p \in lists.folders \/ p \in DOMAIN lists.files
          BY <1>2, <2>1, DirsAre, DocsAre
        <5> QED BY <5>1 DEF Tree!Entries
      <4>4. \A q \in Tree!TakenFolders(lists, o, n) : Tree!Way(o, q) \subseteq lists.folders
        BY DEF Tree!TakenFolders
      <4>5. CASE p \in Tree!TakenFolders(lists, o, n)
        BY <2>2, <4>2, <4>3, <4>4, <4>5 DEF Tree!Below
      <4>6. CASE p \in Tree!TakenFiles(lists, o, n)
        <5>1. Front(p) \in {o} \cup Tree!TakenFolders(lists, o, n)
          BY <4>2, <4>6 DEF Tree!TakenFiles
        <5>2. Tree!Way(o, o) = {}
          BY <1>1, UnderSelf, WayIs
        <5> QED BY <2>2, <4>2, <4>3, <4>4, <5>1, <5>2 DEF Tree!Below
      <4> QED BY <1>2, <2>4, <4>5, <4>6 DEF Dirs, Docs
    <3> QED BY <2>4, <3>1 DEF Fits
  <2> QED BY <2>3, <2>4
<1> QED BY <1>2 DEF Feasible, MayBegin

LEMMA CallFolderStep ==
    ASSUME FoldersInv, NoCall, NEW op \in Operations, NEW o \in lists.folders,
           NEW n \in FullPaths, op = "delete" => n = o, Fits(op, o, n),
           CallFolder(op, o, n)
    PROVE  StepKeeps /\ Seen
<1>1. /\ calls = <<>> /\ copy = None /\ lists = seen.tree /\ lists \in Trees
      /\ astray \in BOOLEAN /\ table \in Trees
      /\ doomed \subseteq FullPaths \cup {Broken}
  BY DEF FoldersInv, FoldersTypes, IdleKept, NoCall
<1>2. /\ MayBegin(op, o, n) /\ calls' = <<Frame(op, o, n)>>
      /\ UNCHANGED <<lists, table, copy, seen, faults>>
      /\ astray' = (astray \/ (op # "delete" /\ (Stray(n) \/ IsStrictPrefix(o, n))))
      /\ goal' = IF Again(op, o, n) THEN goal
                 ELSE IF op # "copy" /\ table = lists THEN Wanted(op, o, n) ELSE None
  BY DEF CallFolder
<1>3. Feasible(lists, op, o, n)
  BY <1>1, <1>2, ToBeDone
<1>4. /\ Orderly(lists, op, o, n, {}, {})
      /\ Half(lists, lists, op, o, n, {}, {})
      /\ Stacked(<<Frame(op, o, n)>>, lists, op, o, n, {}, {})
  BY <1>3, CallBegins
<1>5. /\ calls' # <<>> /\ calls'[1].op = op /\ calls'[1].old = o /\ calls'[1].new = n
  BY <1>2, <1>3, <1>4, RootIs
<1>6. UnderWay(op, o, n, {}, {})'
  BY <1>1, <1>2, <1>3, <1>4 DEF UnderWay
<1>7. CallsKept'
  BY <1>5, <1>6 DEF CallsKept, Running
<1>8. doomed' = (doomed \cap Range(table.files))
                   \cup {lists.files[p] : p \in
                           (IF op = "delete" THEN Tree!Below(lists, o) ELSE {})
                              \cap DOMAIN lists.files}
  BY DEF CallFolder, Doom
<1>9. FoldersTypes'
  <2>1. /\ lists.files \in [DOMAIN lists.files -> FullPaths \cup {Broken}]
    BY <1>1, TreeIs
  <2>2. doomed' \subseteq FullPaths \cup {Broken}
    BY <1>1, <1>8, <2>1
  <2>3. astray' \in BOOLEAN
    <3>1. Stray(n) \in BOOLEAN /\ IsStrictPrefix(o, n) \in BOOLEAN
      BY DEF Stray, IsStrictPrefix
    <3> QED BY <1>1, <1>2, <3>1
  <2> QED BY <1>2, <2>2, <2>3 DEF FoldersInv, FoldersTypes
<1>10. IdleKept'
  BY <1>5 DEF IdleKept
<1>11. GoalKept'
  <2>1. CASE Again(op, o, n)
    <3>1. goal' = goal /\ goal # None /\ goal.op = op /\ goal.old = o /\ goal.new = n
      BY <1>2, <2>1 DEF Again
    <3> QED BY <1>2, <1>5, <3>1 DEF FoldersInv, GoalKept
  <2>2. CASE ~Again(op, o, n) /\ op # "copy" /\ table = lists
    <3>1. goal' = Wanted(op, o, n)
      BY <1>2, <2>2
    <3>2. /\ goal'.op = op /\ goal'.old = o /\ goal'.new = n
          /\ goal'.tree = Achieved(op, lists, o, n)
      BY <3>1 DEF Wanted, Achieved
    <3>3. Resumable(lists, goal')
      BY <1>3, <3>2 DEF Resumable
    <3> QED BY <1>1, <1>2, <1>5, <2>2, <3>2, <3>3 DEF GoalKept, Operations
  <2>3. CASE ~Again(op, o, n) /\ ~(op # "copy" /\ table = lists)
    BY <1>2, <2>3 DEF GoalKept
  <2> QED BY <2>1, <2>2, <2>3
<1>12. ContentsKept' /\ LeavesContents
  <2>1. Range(table.files) \subseteq Range(lists.files) \cup doomed \cup {Broken}
    BY DEF FoldersInv, ContentsKept
  <2>2. ASSUME op = "delete", NEW p \in Docs(lists, op, o, n)
        PROVE  lists.files[p] \in doomed'
    BY <1>8, <2>2 DEF Docs
  <2> QED BY <1>1, <1>2, <1>5, <1>8, <2>1, <2>2 DEF ContentsKept, LeavesContents
<1>13. ClosedKept'
  <2>1. SUFFICES ASSUME ~astray'
        PROVE  /\ Tree!Closed(seen.tree) /\ Tree!Closed(table)
               /\ op # "delete" => /\ ~Tree!Within(o, n)
                                   /\ Len(n) > 1 => Front(n) \in seen.tree.folders
    BY <1>2, <1>5 DEF ClosedKept
  <2>2. Tree!Closed(seen.tree) /\ Tree!Closed(table)
    BY <1>1, <1>2, <2>1 DEF FoldersInv, ClosedKept
  <2>3. Tree!Within(o, n) <=> IsStrictPrefix(o, n)
    BY DEF Tree!Within, Tree!IsStrictPrefix, Tree!IsPrefix, IsStrictPrefix, IsPrefix
  <2> QED BY <1>1, <1>2, <2>1, <2>2, <2>3 DEF Stray
<1>14. Seen
  BY <1>2 DEF Seen, Tree!vars
<1> QED BY <1>5, <1>7, <1>9, <1>10, <1>11, <1>12, <1>13, <1>14 DEF StepKeeps, FoldersInv, Retried

LEMMA AskStep ==
    ASSUME FoldersInv, Ask
    PROVE  StepKeeps /\ Seen
<1>1. NoCall
  BY DEF Ask
<1>2. CASE /\ goal' = None
           /\ \/ \E p \in FullPaths :
                    \/ Room /\ (CallCreateFile(p) \/ CallCreateFolder(p))
                    \/ CallDeleteFile(p)
                    \/ \E new \in FullPaths :
                          CallRenameFile(p, new) \/ (Room /\ CallCopyFile(p, new))
              \/ Refused
  <2>1. CASE Refused
    BY <1>1, <1>2, <2>1, RefusedStep
  <2>2. ASSUME NEW p \in FullPaths, CallCreateFile(p)
        PROVE  StepKeeps /\ Seen
    BY <1>1, <1>2, <2>2, CreateFileStep
  <2>3. ASSUME NEW p \in FullPaths, CallCreateFolder(p)
        PROVE  StepKeeps /\ Seen
    BY <1>1, <1>2, <2>3, CreateFolderStep
  <2>4. ASSUME NEW p \in FullPaths, CallDeleteFile(p)
        PROVE  StepKeeps /\ Seen
    BY <1>1, <1>2, <2>4, DeleteFileStep
  <2>5. ASSUME NEW p \in FullPaths, NEW new \in FullPaths, CallRenameFile(p, new)
        PROVE  StepKeeps /\ Seen
    BY <1>1, <1>2, <2>5, RenameFileStep
  <2>6. ASSUME NEW p \in FullPaths, NEW new \in FullPaths, CallCopyFile(p, new)
        PROVE  StepKeeps /\ Seen
    BY <1>1, <1>2, <2>6, CopyFileStep
  <2> QED BY <1>2, <2>1, <2>2, <2>3, <2>4, <2>5, <2>6
<1>3. CASE \E op \in Operations : \E old \in lists.folders, new \in FullPaths :
              /\ op = "delete" => new = old
              /\ Fits(op, old, new)
              /\ CallFolder(op, old, new)
  BY <1>1, <1>3, CallFolderStep
<1> QED BY <1>2, <1>3 DEF Ask

-----------------------------------------------------------------------------
(* A step of the call under way.                                            *)
LEMMA CallKept ==
    ASSUME FoldersInv, calls # <<>>, NEW op, NEW o, NEW n, NEW F, NEW D,
           UnderWay(op, o, n, F, D), NEW G, NEW E, UnderWay(op, o, n, G, E)',
           UNCHANGED <<seen, doomed, goal>>, table' \in {table, lists'},
           faults' \in 0 .. MaxFaults, astray' \in BOOLEAN, astray => astray',
           copy' \in [from : FullPaths, to : FullPaths] \cup {None},
           Range(lists.files) \subseteq Range(lists'.files) \cup doomed \cup {Broken}
    PROVE  StepKeeps /\ Seen
<1> DEFINE t == seen.tree
<1>1. /\ Feasible(t, op, o, n) /\ Stacked(calls, t, op, o, n, F, D)
      /\ Orderly(t, op, o, n, G, E) /\ Half(lists', t, op, o, n, G, E)
      /\ Stacked(calls', t, op, o, n, G, E)
  BY DEF UnderWay
<1> HIDE DEF t
<1>2. /\ calls[1].op = op /\ calls[1].old = o /\ calls[1].new = n
      /\ calls'[1].op = op /\ calls'[1].old = o /\ calls'[1].new = n /\ calls' # <<>>
  BY <1>1, RootIs
<1>3. CallsKept' /\ IdleKept'
  <2>1. G \in SUBSET Docs(t, op, o, n) /\ E \in SUBSET Dirs(t, op, o, n)
    BY <1>1 DEF Orderly
  <2> QED BY <1>2, <2>1 DEF CallsKept, IdleKept, Running, t
<1>4. lists' \in Trees /\ table' \in Trees
  BY <1>1 DEF Half, FoldersInv, FoldersTypes
<1>5. FoldersTypes'
  BY <1>4 DEF FoldersInv, FoldersTypes
<1>6. GoalKept'
  <2>1. SUFFICES ASSUME goal # None
        PROVE  /\ goal.op \in {"rename", "delete"}
               /\ Resumable(lists', goal) /\ Resumable(table', goal) /\ Resumable(t, goal)
               /\ goal.op = op /\ goal.old = o /\ goal.new = n
    BY <1>2 DEF GoalKept, t
  <2>2. /\ goal.op \in {"rename", "delete"} /\ goal.op = op /\ goal.old = o /\ goal.new = n
        /\ Resumable(table, goal) /\ Resumable(t, goal)
    BY <1>2, <2>1 DEF FoldersInv, GoalKept, t
  <2>3. Resumable(lists', goal)
    <3>1. Feasible(lists', op, o, n)
      BY <1>1, <2>2, LeftToDo
    <3>2. Achieved(op, lists', o, n) = Achieved(op, t, o, n)
      <4>1. op \in {"rename", "delete"}
        BY <2>2
      <4>2. /\ Feasible(t, op, o, n) /\ Orderly(t, op, o, n, G, E)
            /\ Half(lists', t, op, o, n, G, E)
        BY <1>1
      <4> QED BY <4>1, <4>2, SameEnd
    <3> QED BY <2>2, <3>1, <3>2 DEF Resumable
  <2> QED BY <2>2, <2>3
<1>7. /\ Range(table.files) \subseteq Range(lists.files) \cup doomed \cup {Broken}
      /\ op = "delete" => \A p \in Docs(t, "delete", o, n) : t.files[p] \in doomed
  BY <1>2 DEF FoldersInv, ContentsKept, t
<1>8. ContentsKept' /\ LeavesContents
  BY <1>2, <1>7 DEF ContentsKept, LeavesContents, t
<1>9. ClosedKept'
  <2>1. SUFFICES ASSUME ~astray'
        PROVE  /\ Tree!Closed(t)
               /\ op = "delete" => Tree!Closed(table')
               /\ op # "delete" => /\ ~Tree!Within(o, n)
                                   /\ Len(n) > 1 => Front(n) \in t.folders
    BY <1>2 DEF ClosedKept, t
  <2>2. /\ Tree!Closed(t)
        /\ op = "delete" => Tree!Closed(table)
        /\ op # "delete" => /\ ~Tree!Within(o, n)
                            /\ Len(n) > 1 => Front(n) \in t.folders
    BY <1>2, <2>1 DEF FoldersInv, ClosedKept, t
  <2>3. ASSUME op = "delete" PROVE Tree!Closed(lists')
    BY <1>1, <2>2, <2>3, HalfDeletedIsClosed
  <2> QED BY <2>2, <2>3
<1>10. Seen
  BY DEF Seen, Tree!Next, Tree!Saving
<1> QED BY <1>2, <1>3, <1>5, <1>6, <1>8, <1>9, <1>10 DEF StepKeeps, FoldersInv, Retried

LEMMA NextFileStep ==
    ASSUME FoldersInv, NextFile
    PROVE  StepKeeps /\ Seen
<1>1. /\ calls # <<>> /\ copy = None /\ CallsKept
      /\ UNCHANGED <<seen, asked, doomed, goal>>
      /\ lists \in Trees /\ faults \in 0 .. MaxFaults /\ astray \in BOOLEAN
      /\ MaxFaults \in Nat
  BY FoldersAssumption DEF NextFile, FoldersInv, FoldersTypes
<1>2. PICK op, o, n, F, D : /\ UnderWay(op, o, n, F, D)
                            /\ calls[1].op = op /\ calls[1].old = o /\ calls[1].new = n
  BY <1>1, CallIs
<1> DEFINE t == seen.tree
<1>3. /\ Feasible(t, op, o, n) /\ Orderly(t, op, o, n, F, D)
      /\ Half(lists, t, op, o, n, F, D) /\ Stacked(calls, t, op, o, n, F, D)
  BY <1>2 DEF UnderWay
<1>4. PICK p \in Top.files :
         LET new == Moved(p, Top.old, Top.new) IN
         /\ ChangeTop([Top EXCEPT !.files = @ \ {p}])
         /\ IF Top.op # "delete" /\ ~MayTakeFile(p, new)
            THEN UNCHANGED <<lists, table, copy, faults>>
            ELSE \E ok \in BOOLEAN :
                    /\ Save(CASE Top.op = "delete" -> WithoutFile(p)
                              [] Top.op = "rename" -> FileRenamed(p, new)
                              [] Top.op = "copy"   -> WithFile(new, Broken), ok)
                    /\ copy' = IF Top.op = "copy" /\ ok
                               THEN [from |-> p, to |-> new] ELSE None
  BY DEF NextFile
<1> DEFINE q == Top.old
<1> DEFINE x == Moved(p, o, n)
<1>5. Level(Top, Len(calls), t, op, o, n, D)
  BY <1>3, TopIs DEF Top
<1>6. /\ Top.op = op /\ q \in {o} \cup Dirs(t, op, o, n) /\ Top.new = Moved(q, o, n)
      /\ p \in FilesIn(t, q)
  BY <1>4, <1>5 DEF Level
<1>7. /\ t \in Trees /\ op \in Operations /\ o \in FullPaths /\ n \in FullPaths
  BY <1>3, FeasibleIs
<1>8. p \in DOMAIN t.files /\ Len(p) > 1 /\ Front(p) = q /\ p \in AnyPath
  BY <1>6, <1>7, TreeIs DEF FilesIn
<1>9. Moved(p, q, Top.new) = x /\ p \in Met(t, op, o, n)
  BY <1>3, <1>6, <1>8, InsideIsMet
<1> HIDE DEF x, q, t
<1>10. calls' = Append(Front(calls), WithoutItsFile(Last(calls), p))
       /\ p \in Last(calls).files
  BY <1>4 DEF ChangeTop, Top, WithoutItsFile
<1>11. /\ op # "delete" => (MayTakeFile(p, x) <=> p \in Docs(t, op, o, n) \ F)
       /\ p \in Docs(t, op, o, n) /\ p \notin F => FileStep(Take(op, p, x), t, op, o, n, F, D, p)
       /\ p \notin Docs(t, op, o, n) \/ p \in F => FileStep(lists, t, op, o, n, F, D, p)
       /\ op = "delete" => /\ p \in Docs(t, op, o, n)
                           /\ p \in F => Take(op, p, x) = lists
  BY <1>3, <1>6, FileDone DEF x
<1>12. astray' \in BOOLEAN /\ (astray => astray')
  <2>1. astray' = (astray \/ (faults' # faults /\ calls[1].op # "delete"))
    BY DEF NextFile, NoteFault
  <2> QED BY <1>1, <2>1
<1>13. CASE op # "delete" /\ ~MayTakeFile(p, x)
  <2>1. UNCHANGED <<lists, table, copy, faults>>
    BY <1>4, <1>6, <1>9, <1>13 DEF q
  <2>2. PICK G \in {F, F \cup {p}} : /\ p \in Docs(t, op, o, n) => p \in G
                                     /\ Orderly(t, op, o, n, G, D)
                                     /\ Half(lists, t, op, o, n, G, D)
    BY <1>11, <1>13 DEF FileStep
  <2>3. Stacked(calls', t, op, o, n, G, D)
    <3>1. Stacked(calls, t, op, o, n, F, D) /\ p \in Last(calls).files
      BY <1>3, <1>10
    <3>2. (G = F \/ G = F \cup {p}) /\ (p \in Docs(t, op, o, n) => p \in G)
      BY <2>2
    <3>3. Stacked(Append(Front(calls), WithoutItsFile(Last(calls), p)),
                  t, op, o, n, G, D)
      BY <3>1, <3>2, StackFile
    <3> QED BY <1>10, <3>3
  <2>4. UnderWay(op, o, n, G, D)'
    BY <1>1, <1>3, <2>1, <2>2, <2>3 DEF UnderWay, t
  <2> QED BY <1>1, <1>2, <1>12, <2>1, <2>4, CallKept
<1>14. CASE op = "delete" \/ MayTakeFile(p, x)
  <2>1. PICK ok \in BOOLEAN :
           /\ Save(Take(op, p, x), ok)
           /\ copy' = IF op = "copy" /\ ok THEN [from |-> p, to |-> x] ELSE None
    BY <1>4, <1>6, <1>9, <1>14 DEF Take, q
  <2>2. /\ lists' = Take(op, p, x) /\ table' \in {table, lists'}
        /\ faults' \in 0 .. MaxFaults
    BY <1>1, <2>1 DEF Save
  <2>3. p \in Docs(t, op, o, n) /\ FileStep(lists', t, op, o, n, F, D, p)
    BY <1>11, <1>14, <2>2
  <2>4. PICK G \in {F, F \cup {p}} : /\ p \in G
                                     /\ Orderly(t, op, o, n, G, D)
                                     /\ Half(lists', t, op, o, n, G, D)
    BY <2>3 DEF FileStep
  <2>5. Stacked(calls', t, op, o, n, G, D)
    <3>1. Stacked(calls, t, op, o, n, F, D) /\ p \in Last(calls).files
      BY <1>3, <1>10
    <3>2. (G = F \/ G = F \cup {p}) /\ (p \in Docs(t, op, o, n) => p \in G)
      BY <2>4
    <3>3. Stacked(Append(Front(calls), WithoutItsFile(Last(calls), p)),
                  t, op, o, n, G, D)
      BY <3>1, <3>2, StackFile
    <3> QED BY <1>10, <3>3
  <2>6. x \in FullPaths
    BY <1>3, <2>3 DEF Feasible, x
  <2>7. op # "delete" => /\ p \in DOMAIN lists.files /\ x # p
                         /\ x \notin DOMAIN lists.files
    BY <1>14 DEF MayTakeFile
  <2>8. Range(lists.files) \subseteq Range(lists'.files) \cup doomed \cup {Broken}
    <3>1. Range(lists.files) = {lists.files[y] : y \in DOMAIN lists.files}
      BY <1>1, RangeIs
    <3>2. CASE op = "delete" /\ p \in F
      BY <1>11, <2>2, <3>2
    <3>3. CASE op = "delete" /\ p \notin F
      <4>1. p \in DOMAIN lists.files /\ lists.files[p] = t.files[p]
        BY <1>3, <1>8, <1>9, <3>3, HalfIs DEF Gone
      <4>2. t.files[p] \in doomed
        BY <1>1, <1>2, <2>3, <3>3 DEF FoldersInv, ContentsKept, t
      <4>3. lists' = WithoutFile(p)
        BY <2>2, <3>3 DEF Take
      <4>4. /\ DOMAIN lists'.files = DOMAIN lists.files \ {p}
            /\ \A y \in DOMAIN lists.files \ {p} : lists'.files[y] = lists.files[y]
        BY <1>1, <4>1, <4>3, FileRemoved
      <4>5. \A y \in DOMAIN lists.files \ {p} : lists.files[y] \in Range(lists'.files)
        BY <4>4 DEF Range
      <4> QED BY <3>1, <4>1, <4>2, <4>5
    <3>4. CASE op = "rename"
      <4>1. lists' = FileRenamed(p, x)
        BY <2>2, <3>4 DEF Take
      <4>2. /\ DOMAIN lists'.files = (DOMAIN lists.files \cup {x}) \ {p}
            /\ lists'.files[x] = lists.files[p]
            /\ \A y \in DOMAIN lists.files \ {p} : lists'.files[y] = lists.files[y]
        <5>1. p \in DOMAIN lists.files /\ MayTakeFile(p, x)
          BY <1>14, <2>7, <3>4
        <5> DEFINE r == FileRenamed(p, x)
        <5>2. /\ DOMAIN r.files = (DOMAIN lists.files \cup {x}) \ {p}
              /\ r.files[x] = lists.files[p]
              /\ \A y \in DOMAIN lists.files \ {p} : r.files[y] = lists.files[y]
          BY <1>1, <2>6, <5>1, FileMoved
        <5> HIDE DEF r
        <5>3. lists' = r
          BY <4>1 DEF r
        <5> QED BY <5>2, <5>3
      <4>3. \A y \in DOMAIN lists.files : lists.files[y] \in Range(lists'.files)
        BY <2>7, <3>4, <4>2 DEF Range
      <4> QED BY <3>1, <4>3
    <3>5. CASE op = "copy"
      <4>1. lists' = WithFile(x, Broken)
        BY <2>2, <3>5 DEF Take
      <4>2. /\ DOMAIN lists'.files = DOMAIN lists.files \cup {x}
            /\ \A y \in DOMAIN lists.files \ {x} : lists'.files[y] = lists.files[y]
        BY <1>1, <2>6, <4>1, FileAdded
      <4>3. \A y \in DOMAIN lists.files : lists.files[y] \in Range(lists'.files)
        BY <2>7, <3>5, <4>2 DEF Range
      <4> QED BY <3>1, <4>3
    <3> QED BY <1>7, <3>2, <3>3, <3>4, <3>5 DEF Operations
  <2>9. copy' # None => /\ op = "copy" /\ copy' = [from |-> p, to |-> x]
                        /\ lists'.files[copy'.to] = Broken
    <3>1. SUFFICES ASSUME copy' # None
          PROVE  op = "copy" /\ copy' = [from |-> p, to |-> x] /\ lists'.files[x] = Broken
      OBVIOUS
    <3>2. op = "copy" /\ copy' = [from |-> p, to |-> x]
      BY <2>1, <3>1
    <3>3. lists' = WithFile(x, Broken)
      BY <2>2, <3>2 DEF Take
    <3> QED BY <1>1, <2>6, <3>2, <3>3, FileAdded
  <2>10. copy' \in [from : FullPaths, to : FullPaths] \cup {None}
    <3>1. p \in FullPaths
      BY <1>7, <1>8, TreeIs
    <3> QED BY <2>1, <2>6, <3>1
  <2>11. UnderWay(op, o, n, G, D)'
    BY <1>1, <1>3, <2>4, <2>5, <2>9 DEF UnderWay, t, x
  <2> QED BY <1>1, <1>2, <1>12, <2>2, <2>8, <2>10, <2>11, CallKept
<1> QED BY <1>13, <1>14

IsWith(r, t, p, c) ==
    /\ r = [files |-> r.files, folders |-> t.folders] /\ r.folders = t.folders
    /\ r.files = [q \in DOMAIN r.files |-> r.files[q]]
    /\ DOMAIN r.files = DOMAIN t.files \cup {p}
    /\ r.files[p] = c /\ \A q \in DOMAIN t.files \ {p} : r.files[q] = t.files[q]

LEMMA WithIs ==
    ASSUME NEW t \in Trees, NEW p, NEW c
    PROVE  IsWith(Tree!With(t, p, c), t, p, c)
<1> DEFINE g == [q \in DOMAIN t.files \cup {p} |-> IF q = p THEN c ELSE t.files[q]]
<1> DEFINE r == Tree!With(t, p, c)
<1>1. t = [files |-> t.files, folders |-> t.folders]
  BY TreeIs
<1>2. r = [t EXCEPT !.files = g]
  BY DEF Tree!With
<1>3. DOMAIN g = DOMAIN t.files \cup {p} /\ g = [q \in DOMAIN g |-> g[q]]
      /\ g[p] = c /\ \A q \in DOMAIN t.files \ {p} : g[q] = t.files[q]
  OBVIOUS
<1> HIDE DEF g, r
<1>4. r = [files |-> g, folders |-> t.folders]
  BY <1>1, <1>2
<1>5. r.files = g /\ r.folders = t.folders
  BY <1>4
<1>6. IsWith(r, t, p, c)
  BY <1>3, <1>4, <1>5 DEF IsWith
<1> QED BY <1>6 DEF r

(* A single file gets its contents.                                         *)
LEMMA CopyEndStep ==
    ASSUME FoldersInv, CopyContents, calls = <<>>
    PROVE  StepKeeps /\ Seen
<1> DEFINE t == seen.tree
<1> DEFINE p == copy.from
<1> DEFINE x == copy.to
<1>1. /\ copy # None /\ lists \in Trees /\ t \in Trees /\ faults \in 0 .. MaxFaults
      /\ astray \in BOOLEAN /\ MaxFaults \in Nat /\ table \in Trees
      /\ p \in DOMAIN t.files /\ x \in FullPaths \ Entries(t)
      /\ lists = Tree!With(t, x, Broken)
      /\ table = lists /\ goal = None
  BY FoldersAssumption DEF FoldersInv, FoldersTypes, IdleKept, CopyContents
<1>2. /\ copy' = None /\ Returned(TRUE)
      /\ UNCHANGED <<calls, asked, doomed, goal, astray>>
  BY DEF CopyContents
<1>3. Entries(t) = DOMAIN t.files \cup t.folders
  BY DEF Entries, Tree!Entries
<1> HIDE DEF t, p, x
<1>4. /\ DOMAIN lists.files = DOMAIN t.files \cup {x} /\ lists.folders = t.folders
      /\ lists.files[x] = Broken /\ lists.files[p] = t.files[p]
      /\ \A q \in DOMAIN t.files : lists.files[q] = t.files[q]
  <2>1. IsWith(lists, t, x, Broken)
    BY <1>1, WithIs
  <2> QED BY <1>1, <1>3, <2>1 DEF IsWith
<1> DEFINE c == t.files[p]
<1> DEFINE r == WithFile(x, c)
<1>5. c \in FullPaths \cup {Broken}
  <2>1. t.files \in [DOMAIN t.files -> FullPaths \cup {Broken}] /\ p \in DOMAIN t.files
    BY <1>1, TreeIs
  <2> QED BY <2>1
<1>6. /\ r \in Trees /\ r = Tree!With(lists, x, c)
      /\ DOMAIN r.files = DOMAIN lists.files /\ r.folders = lists.folders
      /\ \A q \in DOMAIN lists.files \ {x} : r.files[q] = lists.files[q]
  <2>1. DOMAIN lists.files \cup {x} = DOMAIN lists.files
    BY <1>4
  <2> HIDE DEF c
  <2> QED BY <1>1, <1>5, <2>1, FileAdded
<1>7. r = Tree!With(t, x, c)
  <2> HIDE DEF c
  <2> DEFINE w == Tree!With(t, x, c)
  <2>1. IsWith(r, lists, x, c) /\ IsWith(w, t, x, c)
    BY <1>1, <1>6, WithIs
  <2> HIDE DEF r, w
  <2>2. r.files = w.files
    <3>1. DOMAIN r.files = DOMAIN w.files
      BY <1>4, <2>1 DEF IsWith
    <3>2. \A q \in DOMAIN r.files : r.files[q] = w.files[q]
      BY <1>4, <2>1, <3>1 DEF IsWith
    <3> QED BY <2>1, <3>1, <3>2 DEF IsWith
  <2>3. r = w
    BY <1>4, <2>1, <2>2 DEF IsWith
  <2> QED BY <2>3 DEF w
<1>8. \/ \E ok \in BOOLEAN : Save(r, ok)
      \/ Save(lists, FALSE)
  BY <1>4 DEF CopyContents, p, x
<1> HIDE DEF r, c
<1>9. /\ lists' \in {r, lists} /\ table' \in {lists', table} /\ faults' \in 0 .. MaxFaults
      /\ seen' = [tree |-> lists', answer |-> "ok"]
  BY <1>1, <1>2, <1>8 DEF Save, Returned
<1>10. /\ lists' \in Trees /\ DOMAIN lists'.files = DOMAIN lists.files
       /\ lists'.folders = lists.folders
       /\ \A q \in DOMAIN lists.files \ {x} : lists'.files[q] = lists.files[q]
  BY <1>1, <1>6, <1>9
<1>11. FoldersTypes' /\ IdleKept' /\ CallsKept' /\ GoalKept'
  BY <1>1, <1>2, <1>9, <1>10
     DEF FoldersInv, FoldersTypes, IdleKept, CallsKept, GoalKept
<1>12. Range(table.files) \subseteq Range(lists'.files) \cup {Broken}
  <2>1. Range(table.files) = {lists.files[q] : q \in DOMAIN lists.files}
    BY <1>1, RangeIs
  <2>2. Range(lists'.files) = {lists'.files[q] : q \in DOMAIN lists'.files}
    BY <1>10, RangeIs
  <2> QED BY <1>4, <1>10, <2>1, <2>2
<1>13. ContentsKept' /\ LeavesContents
  BY <1>2, <1>9, <1>12 DEF ContentsKept, LeavesContents
<1>14. ClosedKept'
  <2>1. ~astray => Tree!Closed(lists)
    BY <1>1 DEF FoldersInv, ClosedKept
  <2>2. Tree!Closed(lists) => Tree!Closed(lists')
    BY <1>10 DEF Tree!Closed, Tree!Entries
  <2> QED BY <1>1, <1>2, <1>9, <2>1, <2>2 DEF ClosedKept
<1>15. Tree!CopyFile(p, x)
  <2>1. lists' \in {Tree!With(t, x, c), Tree!With(t, x, Broken)}
        /\ table' \in {Tree!With(t, x, c), Tree!With(t, x, Broken)}
    BY <1>1, <1>7, <1>9
  <2>2. seen'.tree = lists' /\ seen'.answer = "ok"
    BY <1>9
  <2> QED BY <2>1, <2>2 DEF Tree!CopyFile, c, t
<1>16. Seen
  <2>1. x \in FullPaths \ Tree!Entries(t) /\ p \in DOMAIN t.files
    BY <1>1 DEF Entries
  <2> QED BY <1>15, <2>1 DEF Seen, Tree!Next, Tree!Calls, t
<1> QED BY <1>2, <1>11, <1>13, <1>14, <1>16 DEF StepKeeps, FoldersInv, Retried

LEMMA CopyInCallStep ==
    ASSUME FoldersInv, CopyContents, calls # <<>>
    PROVE  StepKeeps /\ Seen
<1> DEFINE t == seen.tree
<1>1. /\ copy # None /\ CallsKept /\ lists \in Trees /\ faults \in 0 .. MaxFaults
      /\ astray \in BOOLEAN /\ MaxFaults \in Nat
  BY FoldersAssumption DEF FoldersInv, FoldersTypes, CopyContents
<1>2. /\ copy' = None /\ UNCHANGED <<seen, calls, asked, doomed, goal>>
      /\ astray' = (astray \/ (faults' # faults /\ calls[1].op # "delete"))
  BY DEF CopyContents, NoteFault
<1>3. PICK op, o, n, F, D : UnderWay(op, o, n, F, D)
  BY <1>1, CallIs
<1>4. /\ Feasible(t, op, o, n) /\ Orderly(t, op, o, n, F, D)
      /\ Half(lists, t, op, o, n, F, D) /\ Stacked(calls, t, op, o, n, F, D)
      /\ op = "copy" /\ lists.files[copy.to] = Broken
  BY <1>1, <1>3 DEF UnderWay
<1>5. PICK p \in F : copy = [from |-> p, to |-> Moved(p, o, n)]
  BY <1>1, <1>3 DEF UnderWay
<1> DEFINE x == Moved(p, o, n)
<1>6. copy.from = p /\ copy.to = x
  BY <1>5
<1> HIDE DEF t, x
<1>7. /\ t \in Trees /\ o \in FullPaths /\ n \in FullPaths /\ o \in AnyPath /\ n \in AnyPath
      /\ F \subseteq Docs(t, op, o, n) /\ F \subseteq DOMAIN t.files
      /\ F \subseteq Met(t, op, o, n) /\ op \in Operations
      /\ \A y \in Met(t, op, o, n) : y \in AnyPath /\ Under(o, y)
  BY <1>4, FeasibleIs DEF Orderly
<1>8. x \in FullPaths /\ x \notin DOMAIN t.files
  <2>1. x \in FullPaths
    BY <1>4, <1>7 DEF Feasible, x
  <2>2. x \notin Entries(t)
    BY <1>4, <1>7, DocsAre DEF x
  <2> QED BY <2>1, <2>2 DEF Entries, Tree!Entries
<1>9. /\ DOMAIN lists.files = DOMAIN t.files \cup Come(op, o, n, F)
      /\ lists.folders = t.folders \cup Come(op, o, n, D)
      /\ \A y \in DOMAIN t.files : lists.files[y] = t.files[y]
      /\ \A y \in F : lists.files[Moved(y, o, n)] \in {t.files[y], Broken}
  BY <1>4 DEF Half, Gone
<1>10. x \in DOMAIN lists.files /\ lists.files[p] = t.files[p]
  BY <1>4, <1>7, <1>9 DEF Come, x
<1> DEFINE c == t.files[p]
<1> DEFINE r == WithFile(x, c)
<1>11. c \in FullPaths \cup {Broken}
  BY <1>7, TreeIs
<1>12. /\ r \in Trees /\ DOMAIN r.files = DOMAIN lists.files /\ r.folders = lists.folders
       /\ r.files[x] = c
       /\ \A q \in DOMAIN lists.files \ {x} : r.files[q] = lists.files[q]
  <2>1. DOMAIN lists.files \cup {x} = DOMAIN lists.files
    BY <1>10
  <2> HIDE DEF c
  <2> QED BY <1>1, <1>8, <1>11, <2>1, FileAdded
<1>13. \/ \E ok \in BOOLEAN : Save(r, ok)
       \/ Save(lists, FALSE)
  BY <1>6, <1>10 DEF CopyContents
<1> HIDE DEF r
<1>14. Half(r, t, op, o, n, F, D)
  <2>1. \A y \in DOMAIN t.files : r.files[y] = t.files[y]
    BY <1>8, <1>9, <1>12
  <2>2. ASSUME NEW y \in F PROVE r.files[Moved(y, o, n)] \in {t.files[y], Broken}
    <3>1. CASE Moved(y, o, n) = x
      <4>1. y = p
        BY <1>7, <3>1, MovedApart DEF x
      <4> QED BY <1>12, <3>1, <4>1
    <3>2. CASE Moved(y, o, n) # x
      <4>1. Moved(y, o, n) \in DOMAIN lists.files
        BY <1>4, <1>9 DEF Come
      <4> QED BY <1>9, <1>12, <3>2, <4>1
    <3> QED BY <3>1, <3>2
  <2> QED BY <1>4, <1>9, <1>12, <2>1, <2>2 DEF Half, Gone
<1> HIDE DEF c
<1>15. /\ lists' \in {r, lists} /\ table' \in {table, lists'} /\ faults' \in 0 .. MaxFaults
  BY <1>1, <1>13 DEF Save
<1>16. UnderWay(op, o, n, F, D)'
  <2>1. Half(lists', t, op, o, n, F, D)
    BY <1>4, <1>14, <1>15
  <2> QED BY <1>2, <1>4, <2>1 DEF UnderWay, t
<1>17. Range(lists.files) \subseteq Range(lists'.files) \cup doomed \cup {Broken}
  <2>1. Range(lists.files) = {lists.files[q] : q \in DOMAIN lists.files}
    BY <1>1, RangeIs
  <2>2. Range(r.files) = {r.files[q] : q \in DOMAIN r.files}
    BY <1>12, RangeIs
  <2>3. lists.files[x] = Broken
    BY <1>4, <1>6
  <2> QED BY <1>12, <1>15, <2>1, <2>2, <2>3
<1>18. astray' \in BOOLEAN /\ (astray => astray')
  BY <1>1, <1>2
<1> QED BY <1>2, <1>3, <1>15, <1>16, <1>17, <1>18, CallKept

LEMMA NextFolderStep ==
    ASSUME FoldersInv, NextFolder
    PROVE  StepKeeps /\ Seen
<1> DEFINE t == seen.tree
<1>1. /\ calls # <<>> /\ copy = None /\ Top.files = {} /\ CallsKept /\ lists \in Trees
      /\ UNCHANGED <<lists, table, copy, seen, asked, faults, doomed, goal, astray>>
      /\ faults \in 0 .. MaxFaults /\ astray \in BOOLEAN
  BY DEF FoldersInv, FoldersTypes, NextFolder
<1>2. PICK op, o, n, F, D : UnderWay(op, o, n, F, D)
  BY <1>1, CallIs
<1>3. /\ Feasible(t, op, o, n) /\ Orderly(t, op, o, n, F, D)
      /\ Half(lists, t, op, o, n, F, D) /\ Stacked(calls, t, op, o, n, F, D)
  BY <1>2 DEF UnderWay
<1>4. PICK q \in Top.folders :
         calls' = Append(Front(calls), WithoutItsFolder(Top, q)) \o
                     (IF MayBegin(Top.op, q, Moved(q, Top.old, Top.new))
                      THEN <<Frame(Top.op, q, Moved(q, Top.old, Top.new))>> ELSE <<>>)
  BY DEF NextFolder, WithoutItsFolder
<1> DEFINE d == Top.old
<1> DEFINE x == Moved(q, o, n)
<1> DEFINE k == Len(calls)
<1> DEFINE s == Append(Front(calls), WithoutItsFolder(Top, q))
<1>5. /\ Level(Top, k, t, op, o, n, D) /\ k \in Nat \ {0}
      /\ calls \in Seq(Frames) /\ calls # <<>>
  BY <1>3, TopIs DEF Top, Stacked
<1>6. /\ Top.op = op /\ d \in {o} \cup Dirs(t, op, o, n) /\ Top.new = Moved(d, o, n)
      /\ q \in FoldersIn(t, d) /\ Len(d) = Len(o) + k - 1 /\ Top \in Frames
  BY <1>4, <1>5 DEF Level
<1>7. t \in Trees /\ Len(o) \in Nat
  BY <1>3, FeasibleIs
<1>8. q \in t.folders /\ Len(q) > 1 /\ Front(q) = d /\ q \in AnyPath
  BY <1>6, <1>7, TreeIs DEF FoldersIn
<1>9. Moved(q, d, Top.new) = x /\ Len(q) = Len(o) + (k + 1) - 1
  BY <1>3, <1>5, <1>6, <1>7, <1>8, InsideIsMet
<1>10. WithoutItsFolder(Top, q) \in Frames
  BY <1>6 DEF WithoutItsFolder, Frames
<1>11. s \in Seq(Frames)
  BY <1>5, <1>10, TopChanged
<1>12. MayBegin(op, q, x) <=> q \in Dirs(t, op, o, n) \ D
  BY <1>3, <1>6, FolderMet
<1> HIDE DEF d, x, k, s, t
<1>13. Stacked(calls', t, op, o, n, F, D)
  <2>1. CASE ~MayBegin(op, q, x)
    <3>1. calls' = s \o <<>>
      BY <1>4, <1>6, <1>9, <2>1 DEF d, s
    <3>2. calls' = s
      BY <1>11, <3>1, ConcatEmptySeq
    <3>3. q \in Last(calls).folders /\ q \notin Dirs(t, op, o, n) \ D
      BY <1>4, <1>12, <2>1 DEF Top
    <3>4. Stacked(Append(Front(calls), WithoutItsFolder(Last(calls), q)), t, op, o, n, F, D)
      BY <1>3, <3>3, StackSkip
    <3> QED BY <3>2, <3>4 DEF s, Top
  <2>2. CASE MayBegin(op, q, x)
    <3> DEFINE h == Frame(op, q, x)
    <3>1. calls' = s \o <<h>>
      BY <1>4, <1>6, <1>9, <2>2 DEF d, s
    <3>2. q \in ({o} \cup Dirs(t, op, o, n)) \ D
      BY <1>12, <2>2
    <3>3. /\ Level(h, k + 1, t, op, o, n, D) /\ Covered(h, {}, t, op, o, n, F, D)
      BY <1>3, <1>9, <3>2, FrameBegins DEF x
    <3>4. h.old = q /\ h \in Frames
      BY <3>3 DEF Frame, Level
    <3> HIDE DEF h
    <3>5. calls' = Append(s, h)
      BY <1>11, <3>1, <3>4, AppendIsConcat
    <3>6. q \in Last(calls).folders /\ Last(calls).files = {}
      BY <1>1, <1>4 DEF Top
    <3>7. Stacked(Append(Append(Front(calls), WithoutItsFolder(Last(calls), q)), h),
                  t, op, o, n, F, D)
      BY <1>3, <3>3, <3>4, <3>6, StackEnter DEF k
    <3> QED BY <3>5, <3>7 DEF s, Top
  <2> QED BY <2>1, <2>2
<1>14. UnderWay(op, o, n, F, D)'
  BY <1>1, <1>3, <1>13 DEF UnderWay, t
<1>15. copy' \in [from : FullPaths, to : FullPaths] \cup {None}
  BY <1>1
<1> QED BY <1>1, <1>2, <1>14, <1>15, CallKept

(* Everything in memory is lost.                                            *)
LEMMA PowerLossStep ==
    ASSUME FoldersInv, PowerLoss
    PROVE  StepKeeps /\ Seen
<1>1. /\ faults < MaxFaults /\ faults' = faults + 1 /\ lists' = table
      /\ calls' = <<>> /\ copy' = None
      /\ seen' = [tree |-> table, answer |-> "none"]
      /\ goal' = (IF calls = <<>> THEN None ELSE goal)
      /\ astray' = (astray \/ (calls # <<>> /\ calls[1].op # "delete"))
      /\ doomed' = {} /\ table' = table
  BY DEF PowerLoss
<1>2. /\ table \in Trees /\ faults \in 0 .. MaxFaults /\ astray \in BOOLEAN
      /\ MaxFaults \in Nat
  BY FoldersAssumption DEF FoldersInv, FoldersTypes
<1>3. FoldersTypes'
  BY <1>1, <1>2 DEF FoldersTypes
<1>4. IdleKept' /\ CallsKept' /\ GoalKept'
  BY <1>1 DEF FoldersInv, IdleKept, CallsKept, GoalKept
<1>5. ContentsKept' /\ LeavesContents
  BY <1>1 DEF ContentsKept, LeavesContents
<1>6. ClosedKept'
  BY <1>1 DEF FoldersInv, ClosedKept
<1>7. Seen
  BY <1>1 DEF Seen, Tree!Next, Tree!PowerLoss
<1> QED BY <1>1, <1>3, <1>4, <1>5, <1>6, <1>7 DEF StepKeeps, FoldersInv, Retried

LEMMA ClosesFolderOnly ==
    ASSUME lists \in Trees, NEW op \in Operations, NEW q, NEW x
    PROVE  Close(op, q, x) =
              [files   |-> lists.files,
               folders |-> IF op = "copy" THEN lists.folders \cup {x}
                           ELSE IF op = "rename" THEN (lists.folders \ {q}) \cup {x}
                           ELSE lists.folders \ {q}]
<1>1. lists = [files |-> lists.files, folders |-> lists.folders]
  BY TreeIs
<1>2. CASE op = "delete"
  BY <1>1, <1>2 DEF Close, WithoutFolder
<1>3. CASE op = "rename"
  BY <1>1, <1>3 DEF Close, FolderRenamed
<1>4. CASE op = "copy"
  BY <1>1, <1>4 DEF Close, WithFolder
<1> QED BY <1>2, <1>3, <1>4 DEF Operations

LEMMA ReturnStep ==
    ASSUME FoldersInv, FolderDone, Len(calls) # 1
    PROVE  StepKeeps /\ Seen
<1> DEFINE t == seen.tree
<1>q. PICK q : q = Last(calls).old
  OBVIOUS
<1>1. /\ calls # <<>> /\ copy = None /\ NothingLeft(Last(calls)) /\ CallsKept
      /\ lists \in Trees /\ faults \in 0 .. MaxFaults /\ astray \in BOOLEAN
      /\ calls' = Front(calls) /\ UNCHANGED <<copy, asked, doomed, seen, goal>>
      /\ astray' = (astray \/ (faults' # faults /\ calls[1].op # "delete"))
      /\ MaxFaults \in Nat
  BY FoldersAssumption DEF FoldersInv, FoldersTypes, FolderDone, NoteFault, Top
<1>2. PICK op, o, n, F, D : UnderWay(op, o, n, F, D)
  BY <1>1, CallIs
<1>3. /\ Feasible(t, op, o, n) /\ Orderly(t, op, o, n, F, D)
      /\ Half(lists, t, op, o, n, F, D) /\ Stacked(calls, t, op, o, n, F, D)
  BY <1>2 DEF UnderWay
<1>4. PICK ok \in BOOLEAN :
         Save(CASE Last(calls).op = "delete" -> WithoutFolder(q)
                [] Last(calls).op = "rename" -> FolderRenamed(q, Last(calls).new)
                [] Last(calls).op = "copy"   -> WithFolder(Last(calls).new), ok)
  BY <1>q DEF FolderDone, Top
<1>5. Last(calls).op = op /\ Last(calls).new = Moved(q, o, n)
  BY <1>3, <1>q, TopIs DEF Level
<1>6. /\ q \in Dirs(t, op, o, n) \ D
      /\ \A p \in Docs(t, op, o, n) : Front(p) = q \/ p = q => p \in F
      /\ \A x \in Dirs(t, op, o, n) : Front(x) = q => x \in D
      /\ Stacked(Front(calls), t, op, o, n, F, D \cup {q})
  BY <1>1, <1>3, <1>q, StackReturn
<1> DEFINE r == Close(op, q, Moved(q, o, n))
<1>7. Save(r, ok)
  BY <1>4, <1>5 DEF Close
<1>8. op \in Operations
  BY <1>3, FeasibleIs
<1> HIDE DEF t
<1>9. /\ Orderly(t, op, o, n, F, D \cup {q}) /\ Half(r, t, op, o, n, F, D \cup {q})
  BY <1>3, <1>6, FolderFinished
<1>10. r.files = lists.files
  BY <1>1, <1>8, ClosesFolderOnly
<1> HIDE DEF r
<1>11. /\ lists' = r /\ table' \in {table, lists'} /\ faults' \in 0 .. MaxFaults
  BY <1>1, <1>7 DEF Save
<1>12. UnderWay(op, o, n, F, D \cup {q})'
  BY <1>1, <1>3, <1>6, <1>9, <1>11 DEF UnderWay, t
<1>13. astray' \in BOOLEAN /\ (astray => astray')
  BY <1>1
<1>14. copy' \in [from : FullPaths, to : FullPaths] \cup {None}
  BY <1>1
<1>15. Range(lists.files) \subseteq Range(lists'.files) \cup doomed \cup {Broken}
  BY <1>10, <1>11
<1> QED BY <1>1, <1>2, <1>11, <1>12, <1>13, <1>14, <1>15, CallKept

LEMMA EndStep ==
    ASSUME FoldersInv, FolderDone, Len(calls) = 1
    PROVE  StepKeeps /\ Seen
<1> DEFINE t == seen.tree
<1> DEFINE q == Last(calls).old
<1>1. /\ calls # <<>> /\ copy = None /\ NothingLeft(Last(calls)) /\ CallsKept
      /\ lists \in Trees /\ faults \in 0 .. MaxFaults /\ astray \in BOOLEAN
      /\ table \in Trees /\ doomed \subseteq FullPaths \cup {Broken}
      /\ calls' = Front(calls) /\ UNCHANGED <<copy, asked, doomed>> /\ goal' = None
      /\ astray' = (astray \/ (faults' # faults /\ calls[1].op # "delete"))
      /\ MaxFaults \in Nat
  BY FoldersAssumption DEF FoldersInv, FoldersTypes, FolderDone, NoteFault, Top
<1>2. PICK op, o, n, F, D : /\ UnderWay(op, o, n, F, D)
                            /\ calls[1].op = op /\ calls[1].old = o /\ calls[1].new = n
  BY <1>1, CallIs
<1>3. /\ Feasible(t, op, o, n) /\ Orderly(t, op, o, n, F, D)
      /\ Half(lists, t, op, o, n, F, D) /\ Stacked(calls, t, op, o, n, F, D)
  BY <1>2 DEF UnderWay
<1>4. PICK ok \in BOOLEAN :
         /\ Save(CASE Last(calls).op = "delete" -> WithoutFolder(q)
                   [] Last(calls).op = "rename" -> FolderRenamed(q, Last(calls).new)
                   [] Last(calls).op = "copy"   -> WithFolder(Last(calls).new), ok)
         /\ Returned(ok)
  BY DEF FolderDone, Top
<1>5. /\ F = Docs(t, op, o, n) /\ D = Dirs(t, op, o, n) /\ q = o
      /\ Last(calls).op = op /\ Last(calls).new = n
  BY <1>1, <1>3, StackEnd
<1>6. calls' = <<>>
  <2>1. calls \in Seq(Frames)
    BY <1>3 DEF Stacked
  <2>2. Front(calls) \in Seq(Frames) /\ Len(Front(calls)) = 1 - 1
    BY <1>1, <2>1, TopOf
  <2> QED BY <1>1, <2>2, EmptySeq
<1> DEFINE r == Closing(lists, op, o, n)
<1>7. op \in Operations /\ o \in FullPaths /\ n \in FullPaths /\ t \in Trees
  BY <1>3, FeasibleIs
<1>8. Save(r, ok)
  <2>1. Save(Close(op, o, n), ok)
    BY <1>4, <1>5 DEF Close
  <2>2. Close(op, o, n) = r
    <3>1. op = "delete" \/ op = "rename" \/ op = "copy"
      BY <1>7 DEF Operations
    <3> QED BY <1>1, <1>7, <3>1, ClosesFolderOnly DEF Closing, NewRoot
  <2> QED BY <2>1, <2>2
<1> HIDE DEF q, t
<1>9. r.files = lists.files /\ r \in Trees
  <2>1. /\ DOMAIN lists.files \subseteq FullPaths /\ lists.folders \subseteq FullPaths
        /\ lists.files \in [DOMAIN lists.files -> FullPaths \cup {Broken}]
    BY <1>1, TreeIs
  <2>2. r = [files |-> lists.files, folders |-> r.folders] /\ r.folders \subseteq FullPaths
    BY <1>7, <2>1 DEF Closing, NewRoot
  <2> QED BY <2>1, <2>2, IsATree DEF Closing
<1>10. op \in {"rename", "delete"} => r = Achieved(op, t, o, n)
  BY <1>3, <1>5, EndReached
<1> HIDE DEF r
<1>11. /\ lists' = r /\ table' = (IF ok THEN r ELSE table) /\ faults' \in 0 .. MaxFaults
       /\ (~ok => faults' # faults)
       /\ seen' = [tree |-> r, answer |-> IF ok THEN "ok" ELSE "failed"]
  <2>1. /\ lists' = r /\ table' = (IF ok THEN r ELSE table)
        /\ (ok \/ faults < MaxFaults) /\ faults' = (IF ok THEN faults ELSE faults + 1)
    BY <1>8 DEF Save
  <2>2. seen' = [tree |-> r, answer |-> IF ok THEN "ok" ELSE "failed"]
    BY <1>4, <2>1 DEF Returned
  <2>3. faults' \in 0 .. MaxFaults /\ (~ok => faults' # faults)
    BY <1>1, <2>1
  <2> QED BY <2>1, <2>2, <2>3
<1>12. FoldersTypes'
  BY <1>1, <1>9, <1>11 DEF FoldersTypes
<1>13. IdleKept' /\ CallsKept' /\ GoalKept'
  BY <1>1, <1>6, <1>11 DEF IdleKept, CallsKept, GoalKept
<1>14. ContentsKept' /\ LeavesContents
  <2>1. Range(table.files) \subseteq Range(lists.files) \cup doomed \cup {Broken}
    BY DEF FoldersInv, ContentsKept
  <2> QED BY <1>1, <1>6, <1>9, <1>11, <2>1 DEF ContentsKept, LeavesContents
<1>15. ClosedKept'
  <2>1. SUFFICES ASSUME ~astray' PROVE Tree!Closed(r) /\ Tree!Closed(table')
    BY <1>6, <1>11 DEF ClosedKept
  <2>2. ~astray /\ (op # "delete" => ok)
    BY <1>1, <1>2, <1>11, <2>1
  <2>3. /\ Tree!Closed(t) /\ (op = "delete" => Tree!Closed(table))
        /\ op # "delete" => /\ ~Tree!Within(o, n)
                            /\ Len(n) > 1 => Front(n) \in t.folders
    BY <1>1, <1>2, <2>2 DEF FoldersInv, ClosedKept, t
  <2>4. Tree!Closed(r)
    <3>1. CASE op = "copy"
      BY <1>3, <1>5, <2>3, <3>1, CopyIsClosed DEF r
    <3>2. CASE op \in {"rename", "delete"}
      BY <1>3, <1>10, <2>3, <3>2, EndIsClosed
    <3> QED BY <1>7, <3>1, <3>2 DEF Operations
  <2> QED BY <1>11, <2>2, <2>3, <2>4
<1>16. Retried
  <2>1. SUFFICES ASSUME goal # None PROVE lists' = goal.tree
    BY DEF Retried
  <2>2. /\ goal.op \in {"rename", "delete"} /\ Resumable(t, goal)
        /\ goal.op = op /\ goal.old = o /\ goal.new = n
    BY <1>1, <1>2, <2>1 DEF FoldersInv, GoalKept, t
  <2> QED BY <1>10, <1>11, <2>2 DEF Resumable
<1>17. Tree!Changed(r)
  BY <1>11 DEF Tree!Changed
<1>18. Seen
  <2>1. o \in t.folders /\ (op # "delete" => n \in FullPaths \ t.folders)
    BY <1>3, <1>7 DEF Feasible
  <2>2. CASE op = "delete"
    <3>1. Tree!DeleteFolder(o)
      BY <1>10, <1>17, <2>2 DEF Achieved, Tree!DeleteFolder, t
    <3> QED BY <2>1, <3>1 DEF Seen, Tree!Next, Tree!Calls, t
  <2>3. CASE op = "rename"
    <3>1. Tree!RenameFolder(o, n)
      BY <1>10, <1>17, <2>3 DEF Achieved, Tree!RenameFolder, t
    <3> QED BY <2>1, <2>3, <3>1 DEF Seen, Tree!Next, Tree!Calls, t
  <2>4. CASE op = "copy"
    <3>1. \E broken \in SUBSET Tree!Copies(Tree!TakenFiles(t, o, n), o, n) :
             LET c == Tree!Copied(t, o, n) IN
             r = [c EXCEPT !.files =
                    [p \in DOMAIN @ |-> IF p \in broken THEN Broken ELSE @[p]]]
      BY <1>3, <1>5, <2>4, CopyEndReached DEF r
    <3>2. Tree!CopyFolder(o, n)
      BY <1>17, <3>1 DEF Tree!CopyFolder, t
    <3> QED BY <2>1, <2>4, <3>2 DEF Seen, Tree!Next, Tree!Calls, t
  <2> QED BY <1>7, <2>2, <2>3, <2>4 DEF Operations
<1> QED BY <1>12, <1>13, <1>14, <1>15, <1>16, <1>18 DEF StepKeeps, FoldersInv

LEMMA StackBounded ==
    ASSUME NEW t, NEW op, NEW o, NEW n, Feasible(t, op, o, n), NEW F, NEW D, NEW s,
           Stacked(s, t, op, o, n, F, D)
    PROVE  Len(s) <= Cardinality(FullPaths)
<1>1. /\ s \in Seq(Frames) /\ s # <<>>
      /\ \A i \in 1 .. Len(s) : Level(s[i], i, t, op, o, n, D)
  BY DEF Stacked
<1>2. Len(s) \in Nat /\ Len(o) \in Nat
  BY <1>1, LenProperties, FeasibleIs
<1> DEFINE g == [i \in 1 .. Len(s) |-> s[i].old]
<1>3. \A i \in 1 .. Len(s) : s[i].old \in FullPaths /\ Len(s[i].old) = Len(o) + i - 1
  BY <1>1 DEF Level, Frames
<1>4. g \in [1 .. Len(s) -> FullPaths]
  BY <1>3
<1>5. \A i, j \in 1 .. Len(s) : g[i] = g[j] => i = j
  <2>1. ASSUME NEW i \in 1 .. Len(s), NEW j \in 1 .. Len(s), s[i].old = s[j].old
        PROVE  i = j
    BY <1>2, <1>3, <2>1
  <2> QED BY <2>1
<1> HIDE DEF g
<1>6. g \in Injection(1 .. Len(s), FullPaths)
  BY <1>4, <1>5 DEF Injection, IsInjective
<1>7. IsFiniteSet(FullPaths)
  BY FoldersAssumption
<1>8. Cardinality(1 .. Len(s)) <= Cardinality(FullPaths)
  BY <1>6, <1>7, FS_Injection
<1>9. Cardinality(1 .. Len(s)) = Len(s)
  <2>1. Len(s) \in Int /\ 1 \in Int /\ Len(s) >= 1
    BY <1>1, <1>2, LenProperties
  <2>2. Cardinality(1 .. Len(s)) = IF 1 > Len(s) THEN 0 ELSE Len(s) - 1 + 1
    BY <2>1, FS_Interval
  <2> QED BY <2>1, <2>2
<1> QED BY <1>8, <1>9

LEMMA TreeTyped ==
    ASSUME NEW t \in Trees
    PROVE  IsTree(t)
  BY TreeIs, RangeIs DEF IsTree

LEMMA TypedKept ==
    ASSUME FoldersInv
    PROVE  FoldersTyped /\ SavedIsClosed
<1>1. /\ lists \in Trees /\ table \in Trees /\ seen.tree \in Trees
      /\ faults \in 0 .. MaxFaults /\ astray \in BOOLEAN
      /\ doomed \subseteq FullPaths \cup {Broken}
  BY DEF FoldersInv, FoldersTypes
<1>2. IsTree(lists) /\ IsTree(table) /\ IsTree(seen.tree)
  BY <1>1, TreeTyped
<1>3. /\ Len(calls) <= Cardinality(FullPaths)
      /\ \A i \in DOMAIN calls :
            /\ calls[i].op \in Operations
            /\ calls[i].files \cup calls[i].folders \subseteq FullPaths
  <2>1. CASE calls = <<>>
    <3>1. Cardinality(FullPaths) \in Nat
      BY FoldersAssumption, FS_CardinalityType
    <3>2. Len(calls) = 0 /\ DOMAIN calls = {}
      BY <2>1
    <3> QED BY <3>1, <3>2
  <2>2. CASE calls # <<>>
    <3>1. PICK op, o, n, F, D : UnderWay(op, o, n, F, D)
      BY <2>2, CallIs DEF FoldersInv
    <3>2. Feasible(seen.tree, op, o, n) /\ Stacked(calls, seen.tree, op, o, n, F, D)
      BY <3>1 DEF UnderWay
    <3>3. Len(calls) <= Cardinality(FullPaths)
      BY <3>2, StackBounded
    <3>4. calls \in Seq(Frames)
      BY <3>2 DEF Stacked
    <3>5. \A i \in DOMAIN calls : calls[i] \in Frames
      BY <3>4
    <3> QED BY <3>3, <3>5 DEF Frames
  <2> QED BY <2>1, <2>2
<1>4. FoldersTyped
  BY <1>1, <1>2, <1>3 DEF FoldersTyped
<1>5. SavedIsClosed
  BY DEF FoldersInv, ClosedKept, SavedIsClosed
<1> QED BY <1>4, <1>5

LEMMA FoldersBegin ==
    ASSUME FoldersInit
    PROVE  FoldersInv /\ Tree!Init
<1>1. PICK files, folders \in SUBSET FullPaths :
         /\ lists = [files |-> [p \in files |-> p], folders |-> folders]
         /\ Tree!Closed(lists)
  BY DEF FoldersInit
<1>2. /\ table = lists /\ calls = <<>> /\ copy = None
      /\ seen = [tree |-> lists, answer |-> "none"]
      /\ faults = 0 /\ doomed = {} /\ goal = None /\ astray = FALSE /\ MaxFaults \in Nat
  BY FoldersAssumption DEF FoldersInit
<1>3. lists \in Trees
  <2>1. [p \in files |-> p] \in [files -> FullPaths \cup {Broken}]
    OBVIOUS
  <2> QED BY <1>1, <2>1, IsATree
<1>4. FoldersTypes
  <2>1. seen \in [tree : Trees, answer : {"none", "ok", "failed"}]
    BY <1>2, <1>3
  <2>2. copy \in [from : FullPaths, to : FullPaths] \cup {None}
    BY <1>2
  <2>3. faults \in 0 .. MaxFaults
    BY <1>2
  <2>4. astray \in BOOLEAN
    <3>1. astray = FALSE
      BY <1>2, Zenon
    <3> QED BY <3>1, Zenon
  <2>5. doomed \subseteq FullPaths \cup {Broken} /\ table \in Trees
    BY <1>2, <1>3
  <2> QED BY <1>3, <2>1, <2>2, <2>3, <2>4, <2>5 DEF FoldersTypes
<1>5. IdleKept /\ CallsKept /\ GoalKept /\ ContentsKept /\ ClosedKept
  BY <1>1, <1>2 DEF IdleKept, CallsKept, GoalKept, ContentsKept, ClosedKept
<1> QED BY <1>2, <1>4, <1>5 DEF FoldersInv, Tree!Init

LEMMA FoldersStep ==
    ASSUME FoldersInv, [FoldersNext]_folderVars
    PROVE  StepKeeps /\ Seen
<1>1. CASE Ask
  BY <1>1, AskStep
<1>2. CASE NextFile
  BY <1>2, NextFileStep
<1>3. CASE CopyContents
  BY <1>3, CopyEndStep, CopyInCallStep
<1>4. CASE NextFolder
  BY <1>4, NextFolderStep
<1>5. CASE FolderDone
  BY <1>5, ReturnStep, EndStep
<1>6. CASE PowerLoss
  BY <1>6, PowerLossStep
<1>7. CASE UNCHANGED folderVars
  <2>1. /\ lists' = lists /\ table' = table /\ calls' = calls /\ copy' = copy
        /\ seen' = seen /\ faults' = faults /\ doomed' = doomed /\ goal' = goal
        /\ astray' = astray
    BY <1>7 DEF folderVars
  <2>2. FoldersTypes' /\ IdleKept' /\ GoalKept' /\ ContentsKept' /\ ClosedKept'
    BY <2>1 DEF FoldersInv, FoldersTypes, IdleKept, GoalKept, ContentsKept, ClosedKept,
                Resumable
  <2>3. CallsKept'
    BY <2>1 DEF FoldersInv, CallsKept, Running, UnderWay
  <2>4. Range(table.files) \subseteq Range(lists.files) \cup doomed \cup {Broken}
    BY DEF FoldersInv, ContentsKept
  <2>5. LeavesContents /\ Retried
    BY <2>1 DEF LeavesContents, Retried
  <2>6. Seen
    BY <2>1 DEF Seen, Tree!vars
  <2> QED BY <2>2, <2>3, <2>5, <2>6 DEF StepKeeps, FoldersInv
<1> QED BY <1>1, <1>2, <1>3, <1>4, <1>5, <1>6, <1>7 DEF FoldersNext

(* The invariant holds in every reachable state.                            *)
THEOREM FoldersInvariant == FoldersSpec => []FoldersInv
<1>1. FoldersInit => FoldersInv
  BY FoldersBegin
<1>2. FoldersInv /\ [FoldersNext]_folderVars => FoldersInv'
  BY FoldersStep DEF StepKeeps
<1> QED BY <1>1, <1>2, PTL DEF FoldersSpec

(* To its caller, a call on a folder is one step on the whole of what it    *)
(* holds, whatever fails on the way.                                        *)
THEOREM FoldersImplementTree == FoldersSpec => ImplementsTree
<1>1. FoldersInit => Tree!Init
  BY FoldersBegin
<1>2. FoldersInv /\ [FoldersNext]_folderVars => [Tree!Next]_(Tree!vars)
  BY FoldersStep DEF Seen
<1> QED BY <1>1, <1>2, FoldersInvariant, PTL DEF FoldersSpec, ImplementsTree, Tree!Spec

(* Whatever fails, and wherever the power goes, a file that is in the table *)
(* on the disk stays in it until a user asks to delete it, and is reached   *)
(* there unless a rename or a copy was broken off.                          *)
THEOREM FoldersLoseNothing == FoldersSpec => NothingLost
<1>1. FoldersInv => FoldersTyped /\ SavedIsClosed
  BY TypedKept
<1>2. FoldersInv /\ [FoldersNext]_folderVars
        => [Range(table.files) \subseteq
               Range(table'.files) \cup doomed' \cup {Broken}]_folderVars
  BY FoldersStep DEF StepKeeps, LeavesContents
<1> QED BY <1>1, <1>2, FoldersInvariant, PTL DEF FoldersSpec, NothingLost

(* A delete or a rename that the power cut off is not turned away when it   *)
(* is made again, and then achieves what it was to achieve at first.        *)
THEOREM FolderCallsRetried == FoldersSpec => RetryCompletes
<1>1. FoldersInv => (NoCall /\ goal # None => MayBegin(goal.op, goal.old, goal.new))
  BY DEF FoldersInv, GoalKept, Resumable, Feasible, MayBegin
<1>2. FoldersInv /\ [FoldersNext]_folderVars
        => [calls # <<>> /\ calls' = <<>> /\ goal # None /\ seen'.answer = "ok"
               => lists' = goal.tree]_folderVars
  BY FoldersStep DEF StepKeeps, Retried
<1> QED BY <1>1, <1>2, FoldersInvariant, PTL DEF FoldersSpec, RetryCompletes
====
