--------------------------- MODULE SequenceLemmas ---------------------------
(***************************************************************************)
(* What the operators on sequences that the models use give: positions,     *)
(* lengths and elements after an insertion or a removal.                    *)
(***************************************************************************)
EXTENDS Extents, SequencesExt, SequenceTheorems, WellFoundedInduction, TLAPS

-----------------------------------------------------------------------------
(* What is in a sequence that was changed.                                  *)
LEMMA RangeOfAppend ==
    ASSUME NEW S, NEW s \in Seq(S), NEW x
    PROVE  Range(Append(s, x)) = Range(s) \cup {x}
  BY DEF Range

LEMMA AppendedOnce ==
    ASSUME NEW S, NEW s \in Seq(S), NEW x \in S \ Range(s), IsInjective(s)
    PROVE  IsInjective(Append(s, x))
  BY DEF Range, IsInjective

LEMMA RangeOfConcat ==
    ASSUME NEW S, NEW s \in Seq(S), NEW t \in Seq(S)
    PROVE  /\ s \o t \in Seq(S)
           /\ Range(s \o t) = Range(s) \cup Range(t)
  BY ConcatProperties, RangeConcatenation

LEMMA RangeOfTail ==
    ASSUME NEW S, NEW s \in Seq(S), s # <<>>
    PROVE  /\ Head(s) \in S /\ Tail(s) \in Seq(S)
           /\ Head(s) \in Range(s)
           /\ Range(s) = {Head(s)} \cup Range(Tail(s))
<1>1. /\ Head(s) \in S /\ Tail(s) \in Seq(S) /\ Len(s) \in Nat \ {0}
      /\ Head(s) = s[1] /\ Len(Tail(s)) = Len(s) - 1
      /\ \A i \in 1 .. Len(Tail(s)) : Tail(s)[i] = s[i + 1]
  BY HeadTailProperties, EmptySeq
<1>2. Range(s) = {s[i] : i \in 1 .. Len(s)}
  BY RangeEquality
<1>3. Range(Tail(s)) = {Tail(s)[i] : i \in 1 .. Len(Tail(s))}
  BY <1>1, RangeEquality
<1>4. ASSUME NEW i \in 1 .. Len(s), i # 1
      PROVE  s[i] \in Range(Tail(s))
  <2>1. i - 1 \in 1 .. Len(Tail(s)) /\ (i - 1) + 1 = i
    BY <1>1, <1>4
  <2> QED BY <1>1, <1>3, <2>1
<1> QED BY <1>1, <1>2, <1>3, <1>4

LEMMA RangeOfOne ==
    ASSUME NEW x
    PROVE  Range(<<x>>) = {x}
  BY DEF Range

LEMMA RangeInSet ==
    ASSUME NEW S, NEW s \in Seq(S)
    PROVE  Range(s) \subseteq S
  BY DEF Range

(* A sequence of at most one element.                                       *)
LEMMA ShortSequence ==
    ASSUME NEW S, NEW s \in Seq(S), Len(s) <= 1
    PROVE  s = <<>> \/ (s = <<Head(s)>> /\ Tail(s) = <<>> /\ Head(s) \in S)
<1>1. CASE s # <<>>
  <2>1. Len(s) = 1
    <3>1. \A n \in Nat \ {0} : n <= 1 => n = 1
      OBVIOUS
    <3>2. Len(s) \in Nat \ {0}
      BY <1>1, EmptySeq
    <3> QED BY <3>1, <3>2, Zenon
  <2>2. /\ Head(s) \in S /\ Tail(s) \in Seq(S) /\ Len(Tail(s)) = 0
    BY <1>1, <2>1, HeadTailProperties
  <2>3. Head(s) = s[1]
    BY <2>1
  <2>4. s = <<Head(s)>>
    <3>1. /\ <<Head(s)>> \in Seq(S) /\ Len(<<Head(s)>>) = 1
          /\ <<Head(s)>>[1] = Head(s)
      BY <2>2
    <3>2. \A i \in 1 .. Len(s) : s[i] = <<Head(s)>>[i]
      BY <2>1, <2>3
    <3> QED BY ONLY s \in Seq(S), <3>1, <2>1, <3>2, SeqEqual
  <2> QED BY <2>2, <2>4, EmptySeq
<1> QED BY <1>1

-----------------------------------------------------------------------------
(* The elements behind a removed one move up by one.                        *)
LEMMA RemoveAtProperties ==
    ASSUME NEW S, NEW s \in Seq(S), NEW i \in 1 .. Len(s)
    PROVE  /\ RemoveAt(s, i) \in Seq(S)
           /\ Len(RemoveAt(s, i)) = Len(s) - 1
           /\ \A j \in 1 .. (Len(s) - 1) :
                 RemoveAt(s, i)[j] = IF j < i THEN s[j] ELSE s[j + 1]
<1> DEFINE a == SubSeq(s, 1, i - 1)
           b == SubSeq(s, i + 1, Len(s))
<1>0. Len(s) \in Nat /\ \A j \in 1 .. Len(s) : s[j] \in S
  BY LenProperties, ElementOfSeq
<1>1. /\ a \in Seq(S) /\ Len(a) = i - 1
      /\ \A j \in 1 .. (i - 1) : a[j] = s[j]
  <2>1. /\ a \in Seq(S) /\ Len(a) = (IF 1 <= i - 1 THEN i - 1 - 1 + 1 ELSE 0)
        /\ \A j \in 1 .. (i - 1 - 1 + 1) : a[j] = s[1 + j - 1]
    BY <1>0, SubSeqProperties
  <2> QED BY <2>1
<1>2. /\ b \in Seq(S) /\ Len(b) = Len(s) - i
      /\ \A j \in 1 .. (Len(s) - i) : b[j] = s[i + j]
  <2>1. /\ b \in Seq(S)
        /\ Len(b) = (IF i + 1 <= Len(s) THEN Len(s) - (i + 1) + 1 ELSE 0)
        /\ \A j \in 1 .. (Len(s) - (i + 1) + 1) : b[j] = s[i + 1 + j - 1]
    BY <1>0, SubSeqProperties
  <2> QED BY <1>0, <2>1
<1> HIDE DEF a, b
<1>3. /\ a \o b \in Seq(S) /\ Len(a \o b) = Len(s) - 1
      /\ \A j \in 1 .. (Len(s) - 1) :
            (a \o b)[j] = IF j <= i - 1 THEN a[j] ELSE b[j - (i - 1)]
  <2>1. Len(a) + Len(b) = Len(s) - 1
    BY <1>0, <1>1, <1>2
  <2>2. /\ a \o b \in Seq(S) /\ Len(a \o b) = Len(a) + Len(b)
        /\ \A j \in 1 .. (Len(a) + Len(b)) :
              (a \o b)[j] = IF j <= Len(a) THEN a[j] ELSE b[j - Len(a)]
    BY <1>1, <1>2, ConcatProperties
  <2> QED BY <1>1, <2>1, <2>2
<1>4. ASSUME NEW j \in 1 .. (Len(s) - 1)
      PROVE  (a \o b)[j] = IF j < i THEN s[j] ELSE s[j + 1]
  <2>1. CASE j < i
    BY <1>0, <1>1, <1>3, <2>1
  <2>2. CASE ~(j < i)
    <3>1. j - (i - 1) \in 1 .. (Len(s) - i) /\ i + (j - (i - 1)) = j + 1
      BY <1>0, <2>2
    <3>2. (a \o b)[j] = b[j - (i - 1)]
      BY <1>3, <2>2
    <3>3. b[j - (i - 1)] = s[i + (j - (i - 1))]
      BY ONLY <1>2, <3>1
    <3> QED BY <2>2, <3>1, <3>2, <3>3
  <2> QED BY <2>1, <2>2
<1>5. RemoveAt(s, i) = a \o b
  BY DEF RemoveAt, a, b
<1> QED BY <1>3, <1>4, <1>5

(* Those behind an inserted one move down.                                  *)
LEMMA InsertAtProperties ==
    ASSUME NEW S, NEW s \in Seq(S), NEW i \in 1 .. (Len(s) + 1), NEW e \in S
    PROVE  /\ InsertAt(s, i, e) \in Seq(S)
           /\ Len(InsertAt(s, i, e)) = Len(s) + 1
           /\ \A j \in 1 .. (Len(s) + 1) :
                 InsertAt(s, i, e)[j] = IF j < i THEN s[j]
                                        ELSE IF j = i THEN e ELSE s[j - 1]
<1> DEFINE a == SubSeq(s, 1, i - 1)
           c == a \o <<e>>
           b == SubSeq(s, i, Len(s))
<1>0. Len(s) \in Nat /\ \A j \in 1 .. Len(s) : s[j] \in S
  BY LenProperties, ElementOfSeq
<1>1. /\ a \in Seq(S) /\ Len(a) = i - 1
      /\ \A j \in 1 .. (i - 1) : a[j] = s[j]
  <2>1. /\ a \in Seq(S) /\ Len(a) = (IF 1 <= i - 1 THEN i - 1 - 1 + 1 ELSE 0)
        /\ \A j \in 1 .. (i - 1 - 1 + 1) : a[j] = s[1 + j - 1]
    BY <1>0, SubSeqProperties
  <2> QED BY <1>0, <2>1
<1>2. /\ b \in Seq(S) /\ Len(b) = Len(s) - i + 1
      /\ \A j \in 1 .. (Len(s) - i + 1) : b[j] = s[i + j - 1]
  <2>1. /\ b \in Seq(S)
        /\ Len(b) = (IF i <= Len(s) THEN Len(s) - i + 1 ELSE 0)
        /\ \A j \in 1 .. (Len(s) - i + 1) : b[j] = s[i + j - 1]
    BY <1>0, SubSeqProperties
  <2> QED BY <1>0, <2>1
<1> HIDE DEF a, b
<1>3. /\ c \in Seq(S) /\ Len(c) = i
      /\ \A j \in 1 .. (i - 1) : c[j] = a[j]
      /\ c[i] = e
  <2>1. c = Append(a, e)
    BY <1>1, AppendIsConcat
  <2> QED BY <1>0, <1>1, <2>1, AppendProperties
<1> HIDE DEF c
<1>4. /\ c \o b \in Seq(S) /\ Len(c \o b) = Len(s) + 1
      /\ \A j \in 1 .. (Len(s) + 1) :
            (c \o b)[j] = IF j <= i THEN c[j] ELSE b[j - i]
  <2>1. Len(c) + Len(b) = Len(s) + 1
    BY <1>0, <1>2, <1>3
  <2>2. /\ c \o b \in Seq(S) /\ Len(c \o b) = Len(c) + Len(b)
        /\ \A j \in 1 .. (Len(c) + Len(b)) :
              (c \o b)[j] = IF j <= Len(c) THEN c[j] ELSE b[j - Len(c)]
    BY <1>2, <1>3, ConcatProperties
  <2> QED BY <1>3, <2>1, <2>2
<1>5. ASSUME NEW j \in 1 .. (Len(s) + 1)
      PROVE  (c \o b)[j] = IF j < i THEN s[j] ELSE IF j = i THEN e ELSE s[j - 1]
  <2>1. CASE j < i
    BY <1>0, <1>1, <1>3, <1>4, <2>1
  <2>2. CASE j = i
    BY <1>3, <1>4, <2>2
  <2>3. CASE j > i
    <3> DEFINE k == j - i
    <3>1. k \in 1 .. (Len(s) - i + 1) /\ i + k - 1 = j - 1
      BY <1>0, <2>3
    <3>2. (c \o b)[j] = b[k]
      BY <1>4, <2>3
    <3> HIDE DEF k
    <3>3. b[k] = s[j - 1]
      BY <1>2, <3>1
    <3>4. ~(j < i) /\ j # i
      BY <2>3
    <3> QED BY <3>2, <3>3, <3>4, Zenon
  <2>4. j < i \/ j = i \/ j > i
    BY <1>0
  <2> QED BY <2>1, <2>2, <2>3, <2>4, Zenon
<1>6. InsertAt(s, i, e) = c \o b
  BY DEF InsertAt, a, b, c
<1> QED BY <1>4, <1>5, <1>6

(* An element that occurs at most once is gone when it is removed.          *)
LEMMA RemovedFirst ==
    ASSUME NEW S, NEW s \in Seq(S), IsInjective(s), NEW x
    PROVE  /\ RemoveFirst(s, x) \in Seq(S)
           /\ IsInjective(RemoveFirst(s, x))
           /\ Range(RemoveFirst(s, x)) = Range(s) \ {x}
<1>1. CASE ~\E i \in 1 .. Len(s) : s[i] = x
  BY <1>1 DEF RemoveFirst, Range
<1>2. CASE \E i \in 1 .. Len(s) : s[i] = x
  <2>1. PICK i \in 1 .. Len(s) : s[i] = x
    BY <1>2
  <2>2. SelectInSeq(s, LAMBDA v : v = x) = i
    <3>1. {j \in 1 .. Len(s) : s[j] = x} = {i}
      BY <2>1 DEF IsInjective
    <3>2. Min({i}) = i
      BY DEF Min
    <3> QED BY <3>1, <3>2 DEF SelectInSeq
  <2>3. RemoveFirst(s, x) = RemoveAt(s, i)
    BY <1>2, <2>2 DEF RemoveFirst
  <2> DEFINE t == RemoveAt(s, i)
  <2>4. /\ t \in Seq(S) /\ Len(t) = Len(s) - 1
        /\ \A j \in 1 .. (Len(s) - 1) : t[j] = IF j < i THEN s[j] ELSE s[j + 1]
    BY RemoveAtProperties
  <2> HIDE DEF t
  <2>5. IsInjective(t)
    <3>1. DOMAIN t = 1 .. (Len(s) - 1) /\ DOMAIN s = 1 .. Len(s)
      BY <2>4, LenProperties
    <3>2. SUFFICES ASSUME NEW j \in 1 .. (Len(s) - 1), NEW k \in 1 .. (Len(s) - 1),
                          j < k
                   PROVE  t[j] # t[k]
      BY <3>1 DEF IsInjective
    <3>3. \E m, n \in 1 .. Len(s) : m # n /\ t[j] = s[m] /\ t[k] = s[n]
      <4>1. CASE j < i /\ k < i
        BY <2>4, <3>2, <4>1
      <4>2. CASE j < i /\ ~(k < i)
        <5>1. j \in 1 .. Len(s) /\ k + 1 \in 1 .. Len(s) /\ j # k + 1
          BY <3>2
        <5> QED BY <2>4, <4>2, <5>1
      <4>3. CASE ~(j < i) /\ ~(k < i)
        <5>1. /\ j + 1 \in 1 .. Len(s) /\ k + 1 \in 1 .. Len(s)
              /\ j + 1 # k + 1
          BY <3>2
        <5> QED BY <2>4, <4>3, <5>1
      <4> QED BY <3>2, <4>1, <4>2, <4>3
    <3> QED BY <3>1, <3>3 DEF IsInjective
  <2>6. ASSUME NEW j \in 1 .. Len(s), j # i
        PROVE  \E k \in 1 .. Len(t) : t[k] = s[j]
    <3>1. CASE j < i
      <4>1. j \in 1 .. (Len(s) - 1)
        BY <3>1
      <4> QED BY <3>1, <4>1, <2>4
    <3>2. CASE j > i
      <4>1. j - 1 \in 1 .. (Len(s) - 1) /\ ~(j - 1 < i) /\ (j - 1) + 1 = j
        BY <3>2
      <4> QED BY <4>1, <2>4
    <3> QED BY <2>6, <3>1, <3>2
  <2>7. ASSUME NEW k \in 1 .. Len(t)
        PROVE  \E j \in 1 .. Len(s) : j # i /\ t[k] = s[j]
    <3>1. CASE k < i
      <4>1. k \in 1 .. Len(s) /\ k # i
        BY <3>1
      <4> QED BY <3>1, <4>1, <2>4
    <3>2. CASE ~(k < i)
      <4>1. k + 1 \in 1 .. Len(s) /\ k + 1 # i
        BY <3>2, <2>4
      <4> QED BY <3>2, <4>1, <2>4
    <3> QED BY <3>1, <3>2
  <2>8. /\ Range(s) = {s[j] : j \in 1 .. Len(s)}
        /\ Range(t) = {t[j] : j \in 1 .. Len(t)}
    BY <2>4, RangeEquality
  <2>9. \A j \in 1 .. Len(s) : j # i => s[j] # x
    BY <2>1 DEF IsInjective
  <2>10. Range(t) = Range(s) \ {x}
    <3>1. ASSUME NEW y \in Range(t) PROVE y \in Range(s) \ {x}
      BY <3>1, <2>7, <2>8, <2>9
    <3>2. ASSUME NEW y \in Range(s) \ {x} PROVE y \in Range(t)
      BY <3>2, <2>1, <2>6, <2>8
    <3> QED BY <3>1, <3>2
  <2> QED BY <2>3, <2>4, <2>5, <2>10 DEF t
<1> QED BY <1>1, <1>2

-----------------------------------------------------------------------------
(* FlattenSeq of a single sequence is that sequence.                        *)
LEMMA FlattenOne ==
    ASSUME NEW s
    PROVE  FlattenSeq(<<s>>) = s
<1> DEFINE Step(f) == [i \in 1 .. Len(<<s>>) |->
                          IF i = 1 THEN <<s>>[i] ELSE f[i - 1] \o <<s>>[i]]
           flatten == CHOOSE f : f = Step(f)
<1>0. Len(<<s>>) = 1
  OBVIOUS
<1>1. FlattenSeq(<<s>>) = flatten[Len(<<s>>)]
  BY <1>0 DEF FlattenSeq
<1>2. \E f : f = Step(f)
  <2> WITNESS [i \in 1 .. 1 |-> s]
  <2> QED BY <1>0
<1>3. flatten = Step(flatten)
  BY <1>2
<1>4. Step(flatten)[1] = s
  BY <1>0
<1> QED BY <1>0, <1>1, <1>3, <1>4

-----------------------------------------------------------------------------
(* A set of natural numbers has a least one.                                *)
LEMMA LeastNatural ==
    ASSUME NEW T, T \subseteq Nat, T # {}
    PROVE  \E x \in T : \A y \in T : x <= y
<1>1. PICK x \in T : \A y \in T : <<y, x>> \notin OpToRel(<, Nat)
  BY NatLessThanWellFounded, WFMin
<1>2. ASSUME NEW y \in T PROVE x <= y
  <2>1. ~(y < x)
    BY <1>1 DEF OpToRel
  <2> QED BY <2>1
<1> QED BY <1>2

LEMMA MinIsLeast ==
    ASSUME NEW T, T \subseteq Nat, T # {}
    PROVE  Min(T) \in T /\ \A y \in T : Min(T) <= y
  BY LeastNatural DEF Min

-----------------------------------------------------------------------------
(* Lists of extents that cover an area stay so when two neighbours become   *)
(* one, when one is cut in two, and when the border of two moves.           *)
ExtentsIn(S) == \A e \in S : e.loc \in Nat /\ e.size \in Nat

LEMMA TilesKept ==
    ASSUME NEW S, ExtentsIn(S), NEW s \in Seq(S), NEW t \in Seq(S), NEW n,
           Tiles(s, n), Len(t) = Len(s),
           \A j \in 1 .. Len(s) : t[j].loc = s[j].loc /\ t[j].size = s[j].size
    PROVE  Tiles(t, n)
<1>1. Len(s) \in Nat /\ Len(s) > 0 /\ (t # <<>>)
  BY EmptySeq, LenProperties DEF Tiles
<1> QED BY <1>1 DEF Tiles

LEMMA TilesMerged ==
    ASSUME NEW S, ExtentsIn(S), NEW s \in Seq(S), NEW t \in Seq(S), NEW n,
           Tiles(s, n), NEW i \in 1 .. (Len(s) - 1), Len(t) = Len(s) - 1,
           \A j \in 1 .. (Len(s) - 1) :
              /\ t[j].loc = IF j <= i THEN s[j].loc ELSE s[j + 1].loc
              /\ t[j].size = IF j < i THEN s[j].size
                             ELSE IF j = i THEN s[i].size + s[i + 1].size
                             ELSE s[j + 1].size
    PROVE  Tiles(t, n)
<1>1. /\ Len(s) \in Nat /\ Len(s) > 1 /\ t # <<>>
      /\ \A j \in 1 .. Len(s) : s[j].loc \in Nat /\ s[j].size \in Nat
  BY LenProperties, ElementOfSeq DEF ExtentsIn
<1>2. t[1].loc = 0
  BY <1>1 DEF Tiles
<1>3. ASSUME NEW j \in 1 .. (Len(t) - 1)
      PROVE  t[j + 1].loc = t[j].loc + t[j].size
  <2>1. CASE j < i
    <3>1. t[j].loc = s[j].loc /\ t[j].size = s[j].size /\ t[j + 1].loc = s[j + 1].loc
      BY <1>1, <2>1
    <3> QED BY <1>1, <2>1, <3>1 DEF Tiles
  <2>2. CASE j = i
    <3>1. /\ t[i].loc = s[i].loc /\ t[i].size = s[i].size + s[i + 1].size
          /\ t[i + 1].loc = s[(i + 1) + 1].loc
      BY <1>1, <2>2
    <3>2. /\ s[i + 1].loc = s[i].loc + s[i].size
          /\ s[(i + 1) + 1].loc = s[i + 1].loc + s[i + 1].size
      BY <1>1, <2>2 DEF Tiles
    <3> QED BY <1>1, <2>2, <3>1, <3>2
  <2>3. CASE j > i
    <3>1. /\ t[j].loc = s[j + 1].loc /\ t[j].size = s[j + 1].size
          /\ t[j + 1].loc = s[(j + 1) + 1].loc
      <4>1. /\ ~(j <= i) /\ ~(j < i) /\ j # i /\ ~(j + 1 <= i)
            /\ j \in 1 .. (Len(s) - 1) /\ j + 1 \in 1 .. (Len(s) - 1)
        BY <1>1, <2>3
      <4> QED BY <4>1
    <3>2. s[(j + 1) + 1].loc = s[j + 1].loc + s[j + 1].size
      BY <1>1 DEF Tiles
    <3> QED BY <3>1, <3>2
  <2> QED BY <1>1, <2>1, <2>2, <2>3
<1>4. t[Len(t)].loc + t[Len(t)].size = n
  <2>1. CASE i = Len(t)
    <3>1. s[i + 1].loc = s[i].loc + s[i].size
      BY <1>1 DEF Tiles
    <3> QED BY <1>1, <2>1, <3>1 DEF Tiles
  <2>2. CASE i < Len(t)
    BY <1>1, <2>2 DEF Tiles
  <2> QED BY <1>1, <2>1, <2>2
<1> QED BY <1>1, <1>2, <1>3, <1>4 DEF Tiles

LEMMA TilesCut ==
    ASSUME NEW S, ExtentsIn(S), NEW s \in Seq(S), NEW t \in Seq(S), NEW n,
           Tiles(s, n), NEW i \in 1 .. Len(s), Len(t) = Len(s) + 1,
           NEW k \in 0 .. s[i].size,
           \A j \in 1 .. (Len(s) + 1) :
              /\ t[j].loc = IF j <= i THEN s[j].loc
                            ELSE IF j = i + 1 THEN s[i].loc + k
                            ELSE s[j - 1].loc
              /\ t[j].size = IF j < i THEN s[j].size ELSE IF j = i THEN k
                             ELSE IF j = i + 1 THEN s[i].size - k
                             ELSE s[j - 1].size
    PROVE  Tiles(t, n)
<1>1. /\ Len(s) \in Nat /\ Len(s) > 0 /\ t # <<>>
      /\ \A j \in 1 .. Len(s) : s[j].loc \in Nat /\ s[j].size \in Nat
  BY LenProperties, ElementOfSeq DEF ExtentsIn
<1>2. t[1].loc = 0
  BY <1>1 DEF Tiles
<1>3. ASSUME NEW j \in 1 .. (Len(t) - 1)
      PROVE  t[j + 1].loc = t[j].loc + t[j].size
  <2>1. CASE j < i
    <3>1. t[j].loc = s[j].loc /\ t[j].size = s[j].size /\ t[j + 1].loc = s[j + 1].loc
      BY <1>1, <2>1
    <3> QED BY <1>1, <2>1, <3>1 DEF Tiles
  <2>2. CASE j = i
    <3>1. t[i].loc = s[i].loc /\ t[i].size = k /\ t[i + 1].loc = s[i].loc + k
      BY <1>1
    <3> QED BY <2>2, <3>1
  <2>3. CASE j = i + 1
    <3>1. /\ i + 1 \in 1 .. Len(s) /\ i + 2 \in 1 .. (Len(s) + 1) /\ (i + 2) - 1 = i + 1
          /\ i + 1 # i /\ i + 2 # i /\ i + 2 # i + 1 /\ i + 1 > i /\ i + 2 > i
          /\ i + 1 \in 1 .. (Len(s) + 1)
      BY <1>1, <2>3
    <3>2. /\ t[i + 1].loc = s[i].loc + k /\ t[i + 1].size = s[i].size - k
          /\ t[i + 2].loc = s[i + 1].loc
      BY <1>1, <3>1
    <3>3. s[i + 1].loc = s[i].loc + s[i].size
      BY <1>1, <3>1 DEF Tiles
    <3>4. j + 1 = i + 2
      BY <2>3
    <3> QED BY <1>1, <2>3, <3>2, <3>3, <3>4
  <2>4. CASE j > i + 1
    <3> DEFINE m == j - 1
    <3>1. /\ m \in 1 .. (Len(s) - 1) /\ m + 1 = j /\ m > i /\ (j + 1) - 1 = m + 1
          /\ j \in 1 .. (Len(s) + 1) /\ j + 1 \in 1 .. (Len(s) + 1)
      BY <1>1, <2>4
    <3>2. /\ t[j].loc = s[j - 1].loc /\ t[j].size = s[j - 1].size
          /\ t[j + 1].loc = s[(j + 1) - 1].loc
      <4>1. ~(j <= i) /\ j # i + 1 /\ ~(j < i) /\ j # i /\ ~(j + 1 <= i) /\ j + 1 # i + 1
        BY <2>4
      <4> QED BY <3>1, <4>1
    <3>3. s[m + 1].loc = s[m].loc + s[m].size
      BY <1>1, <3>1 DEF Tiles
    <3> QED BY <3>1, <3>2, <3>3
  <2> QED BY <1>1, <2>1, <2>2, <2>3, <2>4
<1>4. t[Len(t)].loc + t[Len(t)].size = n
  BY <1>1 DEF Tiles
<1> QED BY <1>1, <1>2, <1>3, <1>4 DEF Tiles

LEMMA TilesMoved ==
    ASSUME NEW S, ExtentsIn(S), NEW s \in Seq(S), NEW t \in Seq(S), NEW n,
           Tiles(s, n), NEW i \in 1 .. (Len(s) - 1), Len(t) = Len(s),
           NEW k \in 0 .. s[i + 1].size,
           \A j \in 1 .. Len(s) :
              /\ t[j].loc = IF j = i + 1 THEN s[j].loc + k ELSE s[j].loc
              /\ t[j].size = IF j = i THEN s[j].size + k
                             ELSE IF j = i + 1 THEN s[j].size - k
                             ELSE s[j].size
    PROVE  Tiles(t, n)
<1>1. /\ Len(s) \in Nat /\ Len(s) > 1 /\ t # <<>>
      /\ \A j \in 1 .. Len(s) : s[j].loc \in Nat /\ s[j].size \in Nat
  BY LenProperties, ElementOfSeq DEF ExtentsIn
<1>2. t[1].loc = 0
  BY <1>1 DEF Tiles
<1>3. ASSUME NEW j \in 1 .. (Len(t) - 1)
      PROVE  t[j + 1].loc = t[j].loc + t[j].size
  <2>1. /\ j \in 1 .. Len(s) /\ j + 1 \in 1 .. Len(s)
        /\ s[j + 1].loc = s[j].loc + s[j].size
    BY <1>1 DEF Tiles
  <2>2. CASE j = i
    <3>1. /\ t[i].loc = s[i].loc /\ t[i].size = s[i].size + k
          /\ t[i + 1].loc = s[i + 1].loc + k
      BY <1>1
    <3> QED BY <1>1, <2>1, <2>2, <3>1
  <2>3. CASE j = i + 1
    <3>1. /\ t[i + 1].loc = s[i + 1].loc + k /\ t[i + 1].size = s[i + 1].size - k
          /\ t[(i + 1) + 1].loc = s[(i + 1) + 1].loc
      BY <1>1, <2>1, <2>3
    <3> QED BY <1>1, <2>1, <2>3, <3>1
  <2>4. CASE j # i /\ j # i + 1
    <3>1. j + 1 # i + 1
      BY <2>4
    <3> QED BY <1>1, <2>1, <2>4, <3>1
  <2> QED BY <2>2, <2>3, <2>4
<1>4. t[Len(t)].loc + t[Len(t)].size = n
  BY <1>1 DEF Tiles
<1> QED BY <1>1, <1>2, <1>3, <1>4 DEF Tiles

(* Each extent ends before the next ones begin, and before the area does.   *)
LEMMA TilesOrdered ==
    ASSUME NEW S, ExtentsIn(S), NEW s \in Seq(S), NEW n, Tiles(s, n),
           NEW i \in 1 .. Len(s)
    PROVE  /\ \A j \in (i + 1) .. Len(s) : s[i].loc + s[i].size <= s[j].loc
           /\ s[i].loc + s[i].size <= n
<1>1. /\ Len(s) \in Nat /\ \A j \in 1 .. Len(s) : s[j].loc \in Nat /\ s[j].size \in Nat
  BY LenProperties, ElementOfSeq DEF ExtentsIn
<1> DEFINE T == {j \in (i + 1) .. Len(s) : ~(s[i].loc + s[i].size <= s[j].loc)}
<1>2. T = {}
  <2> SUFFICES ASSUME T # {} PROVE FALSE
    OBVIOUS
  <2>0. T \subseteq Nat
    BY <1>1
  <2> HIDE DEF T
  <2>1. PICK j \in T : \A k \in T : j <= k
    BY <2>0, LeastNatural
  <2> USE DEF T
  <2>2. j \in (i + 1) .. Len(s) /\ ~(s[i].loc + s[i].size <= s[j].loc)
    OBVIOUS
  <2> DEFINE k == j - 1
  <2>3. k \in 1 .. (Len(s) - 1) /\ k + 1 = j /\ k >= i
    BY <1>1, <2>2
  <2>4. s[j].loc = s[k].loc + s[k].size
    BY <2>3 DEF Tiles
  <2>5. CASE k = i
    <3> HIDE DEF T
    <3>1. s[j].loc = s[i].loc + s[i].size
      BY <2>4, <2>5
    <3>2. s[j].loc \in Nat /\ s[i].loc \in Nat /\ s[i].size \in Nat
      BY <1>1, <2>3
    <3> QED BY <2>2, <3>1, <3>2
  <2>6. CASE k # i
    <3>1. k \in (i + 1) .. Len(s) /\ k < j
      BY <1>1, <2>3, <2>6
    <3>2. k \notin T
      BY <1>1, <2>1, <2>2, <3>1
    <3>3. s[i].loc + s[i].size <= s[k].loc
      BY <3>1, <3>2
    <3>4. /\ s[i].loc \in Nat /\ s[i].size \in Nat
          /\ s[k].loc \in Nat /\ s[k].size \in Nat
      BY <1>1, <2>3
    <3>5. s[i].loc + s[i].size <= s[k].loc + s[k].size
      <4>1. \A x, y, z, u \in Nat : x + y <= z => x + y <= z + u
        OBVIOUS
      <4> QED BY ONLY <3>3, <3>4, <4>1
    <3> QED BY <2>2, <2>4, <3>5
  <2> QED BY <2>5, <2>6
<1>3. \A j \in (i + 1) .. Len(s) : s[i].loc + s[i].size <= s[j].loc
  BY <1>2
<1>4. s[Len(s)].loc + s[Len(s)].size = n
  BY DEF Tiles
<1>5. s[i].loc + s[i].size <= n
  <2>1. CASE i = Len(s)
    BY <1>1, <1>4, <2>1
  <2>2. CASE i # Len(s)
    <3>1. Len(s) \in (i + 1) .. Len(s) /\ Len(s) \in 1 .. Len(s)
      BY <1>1, <2>2
    <3> QED BY <1>1, <1>3, <1>4, <3>1
  <2> QED BY <2>1, <2>2
<1> QED BY <1>3, <1>5
-----------------------------------------------------------------------------
(* Concatenation, under a name that the provers leave folded.               *)
Joined(a, b) == a \o b

LEMMA JoinedType ==
    ASSUME NEW S, NEW a \in Seq(S), NEW b \in Seq(S)
    PROVE  Joined(a, b) \in Seq(S)
  BY ConcatProperties DEF Joined

LEMMA JoinedEmpty ==
    ASSUME NEW S, NEW a \in Seq(S)
    PROVE  Joined(a, <<>>) = a /\ Joined(<<>>, a) = a
  BY ConcatEmptySeq DEF Joined

(* It regroups.                                                             *)
LEMMA Regroup ==
    ASSUME NEW S, NEW a \in Seq(S)
    PROVE  \A b, c \in Seq(S) : (a \o b) \o c = a \o (b \o c)
<1>1. ASSUME NEW b \in Seq(S), NEW c \in Seq(S)
      PROVE  (a \o b) \o c = a \o (b \o c)
  BY ConcatAssociative
<1> QED BY <1>1

LEMMA JoinedRegroup ==
    ASSUME NEW S, NEW a \in Seq(S), NEW b \in Seq(S), NEW c \in Seq(S)
    PROVE  Joined(Joined(a, b), c) = Joined(a, Joined(b, c))
  BY Regroup DEF Joined

-----------------------------------------------------------------------------
(* What holds of 0 and of each number after one it holds of.                *)
LEMMA UpTo ==
    ASSUME NEW n \in Nat, NEW G, 0 \in G,
           \A m \in 1 .. n : m - 1 \in G => m \in G
    PROVE  \A m \in 0 .. n : m \in G
<1> DEFINE T == {m \in 0 .. n : m \notin G}
<1> SUFFICES ASSUME T # {} PROVE FALSE
  OBVIOUS
<1>1. T \subseteq Nat
  OBVIOUS
<1>2. PICK m \in T : \A k \in T : m <= k
  <2> HIDE DEF T
  <2> QED BY <1>1, LeastNatural
<1>3. m \in 0 .. n /\ m \notin G /\ m # 0
  BY <1>2
<1>4. m \in 1 .. n /\ m - 1 \in 0 .. n /\ ~(m <= m - 1)
  BY <1>3
<1>5. m - 1 \in G
  BY <1>2, <1>4
<1> QED BY <1>3, <1>4, <1>5

(* FlattenSeq of a sequence of sequences, by the concatenations f[i] of the *)
(* first i of them.                                                         *)
Flattens(s, S, f, n) ==
    /\ f \in [0 .. n -> Seq(S)]
    /\ f[0] = <<>>
    /\ \A i \in 1 .. n : f[i] = f[i - 1] \o s[i]

LEMMA FlattensNext ==
    ASSUME NEW S, NEW s, NEW f, NEW m \in Nat, NEW x \in Seq(S), NEW t,
           NEW k \in Nat, k = m + 1,
           Flattens(s, S, f, m), t[k] = x, \A i \in 1 .. m : t[i] = s[i]
    PROVE  \E g : Flattens(t, S, g, k) /\ g[k] = f[m] \o x
<1>1. /\ f \in [0 .. m -> Seq(S)] /\ f[0] = <<>>
      /\ \A i \in 1 .. m : f[i] = f[i - 1] \o s[i]
  BY DEF Flattens
<1>2. f[m] \in Seq(S) /\ f[m] \o x \in Seq(S)
  <2>1. f[m] \in Seq(S)
    BY <1>1
  <2> QED BY <2>1, ConcatProperties
<1> DEFINE last == f[m] \o x
<1> HIDE DEF last
<1> DEFINE g == [i \in 0 .. k |-> IF i = k THEN last ELSE f[i]]
<1>3. last = f[m] \o x /\ last \in Seq(S)
  BY <1>2 DEF last
<1>4. g \in [0 .. k -> Seq(S)] /\ g[k] = last
  BY <1>1, <1>3
<1>5. \A i \in 0 .. m : g[i] = f[i]
  OBVIOUS
<1> HIDE DEF g
<1>6. ASSUME NEW i \in 1 .. k PROVE g[i] = g[i - 1] \o t[i]
  <2>1. CASE i = k
    <3>1. i - 1 = m /\ m \in 0 .. m
      BY <2>1
    <3> QED BY <1>3, <1>4, <1>5, <2>1, <3>1
  <2>2. CASE i # k
    <3>1. i \in 1 .. m /\ i \in 0 .. m /\ i - 1 \in 0 .. m
      BY <2>2
    <3> QED BY <1>1, <1>5, <3>1
  <2> QED BY <2>1, <2>2
<1>7. g[0] = <<>>
  BY <1>1, <1>5
<1>8. Flattens(t, S, g, k)
  BY <1>4, <1>6, <1>7 DEF Flattens
<1> QED BY <1>2, <1>3, <1>4, <1>8

LEMMA FlattensExists ==
    ASSUME NEW S, NEW s \in Seq(Seq(S)), NEW n \in Nat, n = Len(s)
    PROVE  \E f : Flattens(s, S, f, n)
<1> DEFINE G == {m \in Nat : m <= n => \E f : Flattens(s, S, f, m)}
<1>1. 0 \in G
  <2> DEFINE f == [i \in 0 .. 0 |-> <<>>]
  <2>1. f \in [0 .. 0 -> Seq(S)] /\ f[0] = <<>>
    BY EmptySeq
  <2>2. \A i \in 1 .. 0 : FALSE
    OBVIOUS
  <2> HIDE DEF f
  <2>3. Flattens(s, S, f, 0)
    BY <2>1, <2>2 DEF Flattens
  <2> QED BY <2>3
<1>2. ASSUME NEW m \in 1 .. n, m - 1 \in G PROVE m \in G
  <2>1. m - 1 \in Nat /\ m - 1 <= n /\ (m - 1) + 1 = m /\ m \in Nat
    OBVIOUS
  <2>2. PICK f : Flattens(s, S, f, m - 1)
    BY <1>2, <2>1
  <2>3. s[m] \in Seq(S)
    BY ElementOfSeq
  <2> DEFINE k == m - 1
  <2>k. k \in Nat /\ k + 1 = m
    BY <2>1
  <2>4. Flattens(s, S, f, k) /\ s[m] \in Seq(S) /\ \A i \in 1 .. k : s[i] = s[i]
    BY <2>2, <2>3, <2>1
  <2> HIDE DEF k
  <2>5. \E g : Flattens(s, S, g, m)
    BY ONLY <2>1, <2>k, <2>4, FlattensNext
  <2> QED BY <2>1, <2>5, <2>k
<1> HIDE DEF G
<1>3. \A m \in 0 .. n : m \in G
  BY ONLY <1>1, <1>2, UpTo, n \in Nat
<1>4. n \in G
  BY <1>3
<1> QED BY <1>4 DEF G

LEMMA FlattenIs ==
    ASSUME NEW S, NEW s \in Seq(Seq(S)), NEW n \in Nat, n = Len(s),
           NEW f, Flattens(s, S, f, n)
    PROVE  FlattenSeq(s) = f[n]
<1>0. /\ f[0] = <<>> /\ \A i \in 0 .. n : f[i] \in Seq(S)
      /\ \A i \in 1 .. n : f[i] = f[i - 1] \o s[i] /\ s[i] \in Seq(S)
  <2>1. \A i \in 1 .. n : s[i] \in Seq(S)
    BY ElementOfSeq
  <2> QED BY <2>1 DEF Flattens
<1>1. CASE n = 0
  <2>1. s = <<>>
    BY <1>1, EmptySeq
  <2> QED BY <1>0, <1>1, <2>1 DEF FlattenSeq
<1>2. CASE n # 0
  <2> DEFINE Step(g) == [i \in 1 .. n |-> IF i = 1 THEN s[i] ELSE g[i - 1] \o s[i]]
             flatten == CHOOSE g : g = Step(g)
             h == [i \in 1 .. n |-> f[i]]
  <2>1. FlattenSeq(s) = flatten[n]
    BY <1>2 DEF FlattenSeq
  <2>2. h = Step(h)
    <3> SUFFICES ASSUME NEW i \in 1 .. n
                 PROVE  f[i] = IF i = 1 THEN s[i] ELSE h[i - 1] \o s[i]
      OBVIOUS
    <3>1. f[i] = f[i - 1] \o s[i] /\ s[i] \in Seq(S)
      BY <1>0
    <3>2. CASE i = 1
      <4>1. f[i - 1] = <<>>
        BY <1>0, <3>2
      <4>2. <<>> \o s[i] = s[i]
        BY <3>1, ConcatEmptySeq
      <4> QED BY <3>1, <3>2, <4>1, <4>2
    <3>3. CASE i # 1
      <4>1. i - 1 \in 1 .. n
        BY <3>3
      <4>2. h[i - 1] = f[i - 1]
        BY <4>1
      <4> QED BY <3>1, <3>3, <4>2
    <3> QED BY <3>2, <3>3
  <2>3. flatten = Step(flatten)
    <3>1. \E g : g = Step(g)
      BY <2>2
    <3> HIDE DEF Step
    <3> QED BY <3>1
  <2> HIDE DEF flatten
  <2>4. \A i \in 1 .. n : flatten[i] = IF i = 1 THEN s[i] ELSE flatten[i - 1] \o s[i]
    BY <2>3
  <2>5. \A i \in 1 .. n : h[i] = IF i = 1 THEN s[i] ELSE h[i - 1] \o s[i]
    <3> HIDE DEF h
    <3> QED BY <2>2
  <2>6. h[n] = f[n] /\ n \in 1 .. n
    BY <1>2
  <2> HIDE DEF h, Step
  <2> DEFINE G == {0} \cup {i \in 1 .. n : flatten[i] = h[i]}
  <2>7. ASSUME NEW m \in 1 .. n, m - 1 \in G PROVE m \in G
    <3>1. CASE m = 1
      <4>1. flatten[m] = s[m] /\ h[m] = s[m]
        BY <2>4, <2>5, <3>1
      <4> QED BY <4>1
    <3>2. CASE m # 1
      <4>1. m - 1 # 0
        BY <3>2
      <4>2. flatten[m - 1] = h[m - 1]
        BY <2>7, <4>1
      <4>3. flatten[m] = flatten[m - 1] \o s[m] /\ h[m] = h[m - 1] \o s[m]
        BY <2>4, <2>5, <3>2
      <4> QED BY <4>2, <4>3
    <3> QED BY <3>1, <3>2
  <2>8. 0 \in G
    OBVIOUS
  <2>9. \A m \in 0 .. n : m \in G
    <3> HIDE DEF G
    <3> QED BY ONLY <2>7, <2>8, UpTo, n \in Nat
  <2>10. flatten[n] = h[n]
    BY <2>6, <2>9, <1>2
  <2> QED BY <2>1, <2>6, <2>10
<1> QED BY <1>1, <1>2

LEMMA FlattenType ==
    ASSUME NEW S, NEW s \in Seq(Seq(S))
    PROVE  FlattenSeq(s) \in Seq(S)
<1>1. PICK n \in Nat : n = Len(s)
  BY LenProperties
<1>2. PICK f : Flattens(s, S, f, n)
  BY <1>1, FlattensExists
<1>3. f[n] \in Seq(S)
  BY <1>2 DEF Flattens
<1> QED BY <1>1, <1>2, <1>3, FlattenIs

LEMMA FlattenEmpty == FlattenSeq(<<>>) = <<>>
  BY DEF FlattenSeq

LEMMA FlattenAppend ==
    ASSUME NEW S, NEW s \in Seq(Seq(S)), NEW x \in Seq(S)
    PROVE  FlattenSeq(Append(s, x)) = Joined(FlattenSeq(s), x)
<1>1. PICK n \in Nat : n = Len(s)
  BY LenProperties
<1>2. PICK t : t = Append(s, x)
  OBVIOUS
<1>3. /\ t \in Seq(Seq(S)) /\ Len(t) = n + 1 /\ t[n + 1] = x
      /\ \A i \in 1 .. n : t[i] = s[i]
  BY <1>1, <1>2, AppendProperties
<1>4. PICK k \in Nat : k = n + 1
  OBVIOUS
<1>5. PICK g : Flattens(t, S, g, k)
  BY <1>3, <1>4, FlattensExists
<1>6. /\ g[0] = <<>> /\ \A i \in 0 .. n : g[i] \in Seq(S)
      /\ \A i \in 1 .. n : g[i] = g[i - 1] \o s[i]
      /\ g[k] = g[n] \o x
  <2>1. /\ g \in [0 .. k -> Seq(S)] /\ g[0] = <<>>
        /\ \A i \in 1 .. k : g[i] = g[i - 1] \o t[i]
    BY <1>5 DEF Flattens
  <2>2. g[k] = g[k - 1] \o t[k] /\ k - 1 = n
    <3>1. k \in 1 .. k /\ k - 1 = n
      BY <1>4
    <3> QED BY <2>1, <3>1
  <2>3. \A i \in 0 .. n : i \in 0 .. k
    BY <1>4
  <2>4. \A i \in 1 .. n : i \in 1 .. k
    BY <1>4
  <2> QED BY <1>3, <1>4, <2>1, <2>2, <2>3, <2>4
<1> DEFINE f == [i \in 0 .. n |-> g[i]]
<1>7. \A i \in 0 .. n : f[i] = g[i]
  OBVIOUS
<1>8. f \in [0 .. n -> Seq(S)]
  BY <1>6
<1> HIDE DEF f
<1>9. ASSUME NEW i \in 1 .. n PROVE f[i] = f[i - 1] \o s[i]
  <2>1. i \in 0 .. n /\ i - 1 \in 0 .. n
    OBVIOUS
  <2> QED BY <1>6, <1>7, <2>1
<1>10. Flattens(s, S, f, n)
  <2>1. f[0] = <<>>
    BY <1>6, <1>7
  <2> QED BY <1>8, <1>9, <2>1 DEF Flattens
<1>11. FlattenSeq(s) = f[n]
  BY <1>1, <1>10, FlattenIs
<1>12. FlattenSeq(t) = g[k]
  BY ONLY <1>3, <1>4, <1>5, FlattenIs
<1>13. f[n] = g[n]
  BY <1>7
<1> QED BY <1>2, <1>6, <1>11, <1>12, <1>13 DEF Joined

(* Taking u off the front of the first sequence that is not empty.          *)
FrontTaken(s, t, j, u) ==
    /\ Len(t) = Len(s) /\ j \in 1 .. Len(s)
    /\ \A i \in 1 .. Len(s) : i < j => s[i] = <<>> /\ t[i] = <<>>
    /\ s[j] = Joined(u, t[j])
    /\ \A i \in 1 .. Len(s) : i > j => s[i] = t[i]

LEMMA FlattenFront ==
    ASSUME NEW S, NEW s, NEW t, NEW j, NEW u, s \in Seq(Seq(S)),
           t \in Seq(Seq(S)), u \in Seq(S), FrontTaken(s, t, j, u)
    PROVE  FlattenSeq(s) = Joined(u, FlattenSeq(t))
<1>0. /\ Len(t) = Len(s) /\ j \in 1 .. Len(s)
      /\ \A i \in 1 .. Len(s) : i < j => s[i] = <<>> /\ t[i] = <<>>
      /\ s[j] = u \o t[j]
      /\ \A i \in 1 .. Len(s) : i > j => s[i] = t[i]
  BY DEF FrontTaken, Joined
<1>b. u \in Seq(S) /\ s[j] = u \o t[j]
  BY <1>0
<1>a. \A a, b \in Seq(S) : (u \o a) \o b = u \o (a \o b)
  BY ONLY <1>b, Regroup
<1>1. PICK n \in Nat : n = Len(s)
  BY LenProperties
<1>2. PICK f : Flattens(s, S, f, n)
  BY <1>1, FlattensExists
<1>3. PICK g : Flattens(t, S, g, n)
  BY <1>0, <1>1, FlattensExists
<1>4. /\ j \in 1 .. n
      /\ \A i \in 1 .. n : i < j => s[i] = <<>> /\ t[i] = <<>>
      /\ \A i \in 1 .. n : i > j => s[i] = t[i]
      /\ \A i \in 1 .. n : s[i] \in Seq(S) /\ t[i] \in Seq(S)
  BY <1>0, <1>1, ElementOfSeq
<1>5. /\ \A i \in 1 .. n : f[i] = f[i - 1] \o s[i] /\ g[i] = g[i - 1] \o t[i]
      /\ \A i \in 0 .. n : f[i] \in Seq(S) /\ g[i] \in Seq(S)
      /\ f[0] = <<>> /\ g[0] = <<>>
  BY <1>2, <1>3 DEF Flattens
<1> DEFINE Good(i) == IF i < j THEN f[i] = <<>> /\ g[i] = <<>>
                      ELSE f[i] = u \o g[i]
           G == {i \in 0 .. n : Good(i)}
<1>6. 0 \in G
  BY <1>4, <1>5
<1>7. ASSUME NEW m \in 1 .. n, m - 1 \in G PROVE m \in G
  <2>1. /\ f[m] = f[m - 1] \o s[m] /\ g[m] = g[m - 1] \o t[m]
        /\ f[m - 1] \in Seq(S) /\ g[m - 1] \in Seq(S)
        /\ s[m] \in Seq(S) /\ t[m] \in Seq(S)
    <3>1. m - 1 \in 0 .. n
      OBVIOUS
    <3> QED BY <1>4, <1>5, <3>1
  <2>2. CASE m < j
    <3>1. s[m] = <<>> /\ t[m] = <<>> /\ f[m - 1] = <<>> /\ g[m - 1] = <<>>
      <4>1. m - 1 < j
        BY <1>4, <2>2
      <4> QED BY <1>4, <1>7, <2>2, <4>1
    <3>2. f[m] = <<>> /\ g[m] = <<>>
      BY <2>1, <3>1, ConcatEmptySeq
    <3> QED BY <2>2, <3>2
  <2>3. CASE m = j
    <3>1. f[m - 1] = <<>> /\ g[m - 1] = <<>>
      <4>1. m - 1 < j
        BY <1>4, <2>3
      <4> QED BY <1>7, <4>1
    <3>2. f[m] = s[m] /\ g[m] = t[m]
      BY ONLY <2>1, <3>1, ConcatEmptySeq
    <3>3. f[m] = u \o g[m] /\ ~(m < j)
      BY <1>4, <1>b, <2>3, <3>2
    <3> QED BY <3>3
  <2>4. CASE m > j
    <3>1. f[m - 1] = u \o g[m - 1] /\ s[m] = t[m] /\ ~(m < j)
      <4>1. ~(m - 1 < j) /\ ~(m < j)
        BY <1>4, <2>4
      <4> QED BY <1>4, <1>7, <2>4, <4>1
    <3>2. f[m] = (u \o g[m - 1]) \o t[m]
      BY ONLY <2>1, <3>1
    <3>3. (u \o g[m - 1]) \o t[m] = u \o (g[m - 1] \o t[m])
      BY <1>a, <2>1
    <3>4. f[m] = u \o g[m]
      BY ONLY <2>1, <3>2, <3>3
    <3>5. m \in 0 .. n /\ Good(m)
      BY <3>1, <3>4
    <3> QED BY <3>5
  <2> QED BY <1>4, <2>2, <2>3, <2>4
<1>8. \A m \in 0 .. n : m \in G
  <2> HIDE DEF G
  <2> QED BY ONLY <1>6, <1>7, UpTo, n \in Nat
<1>9. f[n] = u \o g[n]
  BY <1>4, <1>8
<1>10. FlattenSeq(s) = f[n]
  BY <1>1, <1>2, FlattenIs
<1>11. FlattenSeq(t) = g[n]
  BY <1>0, <1>1, <1>3, FlattenIs
<1> QED BY <1>9, <1>10, <1>11 DEF Joined

(* Leaving out an empty sequence.                                           *)
LEMMA FlattenLeftOut ==
    ASSUME NEW S, NEW s \in Seq(Seq(S)), NEW t \in Seq(Seq(S)),
           NEW j \in 1 .. Len(s), s[j] = <<>>, Len(t) = Len(s) - 1,
           \A i \in 1 .. Len(t) : t[i] = IF i < j THEN s[i] ELSE s[i + 1]
    PROVE  FlattenSeq(s) = FlattenSeq(t)
<1>1. PICK n \in Nat : n = Len(t) /\ n + 1 = Len(s)
  BY LenProperties
<1>2. PICK f : Flattens(s, S, f, n + 1)
  BY <1>1, FlattensExists
<1>3. PICK g : Flattens(t, S, g, n)
  BY <1>1, FlattensExists
<1>4. /\ j \in 1 .. (n + 1)
      /\ \A i \in 1 .. n : t[i] = IF i < j THEN s[i] ELSE s[i + 1]
  BY <1>1
<1>5. /\ \A i \in 1 .. (n + 1) : f[i] = f[i - 1] \o s[i]
      /\ \A i \in 1 .. n : g[i] = g[i - 1] \o t[i]
      /\ \A i \in 0 .. (n + 1) : f[i] \in Seq(S)
      /\ f[0] = <<>> /\ g[0] = <<>>
  BY <1>2, <1>3 DEF Flattens
<1>6. f[j] = f[j - 1]
  <2>1. j - 1 \in 0 .. (n + 1)
    BY <1>4
  <2>2. f[j] = f[j - 1] \o <<>> /\ f[j - 1] \in Seq(S)
    BY <1>4, <1>5, <2>1
  <2> QED BY <2>2, ConcatEmptySeq
<1> DEFINE Good(i) == /\ i < j => g[i] = f[i]
                      /\ i >= j - 1 => g[i] = f[i + 1]
           G == {i \in 0 .. n : Good(i)}
<1>7. 0 \in G
  <2>1. g[0] = f[0]
    BY <1>5
  <2>2. ASSUME 0 >= j - 1 PROVE g[0] = f[0 + 1]
    <3>1. j = 1 /\ j - 1 = 0 /\ 0 + 1 = 1
      BY <1>4, <2>2
    <3> QED BY <1>6, <2>1, <3>1
  <2> QED BY <2>1, <2>2
<1>8. ASSUME NEW m \in 1 .. n, m - 1 \in G PROVE m \in G
  <2>1. /\ g[m] = g[m - 1] \o t[m] /\ f[m] = f[m - 1] \o s[m]
        /\ f[m + 1] = f[m] \o s[m + 1]
    <3>1. m \in 1 .. (n + 1) /\ m + 1 \in 1 .. (n + 1) /\ (m + 1) - 1 = m
      OBVIOUS
    <3> QED BY <1>5, <3>1
  <2>2. CASE m < j
    <3>1. t[m] = s[m] /\ g[m - 1] = f[m - 1]
      <4>1. m - 1 < j
        BY <1>4, <2>2
      <4> QED BY <1>4, <1>8, <2>2, <4>1
    <3>2. g[m] = f[m]
      BY <2>1, <3>1
    <3>3. ASSUME m >= j - 1 PROVE g[m] = f[m + 1]
      <4>1. m + 1 = j /\ j - 1 = m
        BY <1>4, <2>2, <3>3
      <4> QED BY <1>6, <3>2, <4>1
    <3> QED BY <3>2, <3>3
  <2>3. CASE m >= j
    <3>1. t[m] = s[m + 1] /\ g[m - 1] = f[m] /\ ~(m < j)
      <4>1. m - 1 >= j - 1 /\ (m - 1) + 1 = m /\ ~(m < j)
        BY <1>4, <2>3
      <4>2. t[m] = s[m + 1]
        BY <1>4, <4>1
      <4>3. g[m - 1] = f[(m - 1) + 1]
        BY <1>8, <4>1
      <4> QED BY <4>1, <4>2, <4>3
    <3>2. g[m] = f[m + 1]
      BY <2>1, <3>1
    <3> QED BY <3>1, <3>2
  <2> QED BY <1>4, <2>2, <2>3
<1>9. \A m \in 0 .. n : m \in G
  <2> HIDE DEF G
  <2> QED BY ONLY <1>7, <1>8, UpTo, n \in Nat
<1>10. g[n] = f[n + 1]
  <2>1. n \in G /\ n >= j - 1
    BY <1>4, <1>9
  <2> QED BY <2>1
<1>11. PICK k \in Nat : k = n + 1
  OBVIOUS
<1>12. FlattenSeq(s) = f[k]
  BY <1>1, <1>2, <1>11, FlattenIs
<1>13. FlattenSeq(t) = g[n]
  BY <1>1, <1>3, FlattenIs
<1> QED BY <1>10, <1>11, <1>12, <1>13

-----------------------------------------------------------------------------
(* Sequences put together from what a function makes of each element.       *)
(* The first of the sequences, then the others.                             *)
LEMMA FlattenHead ==
    ASSUME NEW S, NEW w, w \in Seq(Seq(S)), w # <<>>
    PROVE  /\ Tail(w) \in Seq(Seq(S))
           /\ FlattenSeq(w) = Joined(w[1], FlattenSeq(Tail(w)))
<1>1. PICK n \in Nat : n = Len(w) - 1 /\ Len(w) = n + 1
  <2>1. PICK T : T = Seq(S)
    OBVIOUS
  <2>2. w \in Seq(T)
    BY <2>1
  <2>3. Len(w) \in Nat \ {0}
    BY ONLY <2>2, w # <<>>, EmptySeq
  <2> QED BY ONLY <2>3
<1>2. PICK u : u = Tail(w)
  OBVIOUS
<1>3. /\ u \in Seq(Seq(S)) /\ Len(u) = n
      /\ \A i \in 1 .. n : u[i] = w[i + 1]
  BY <1>1, <1>2, HeadTailProperties
<1>4. \A i \in 1 .. (n + 1) : w[i] \in Seq(S)
  BY <1>1, ElementOfSeq
<1> DEFINE t == [i \in 1 .. (n + 1) |-> IF i = 1 THEN <<>> ELSE w[i]]
<1>5. /\ t \in Seq(Seq(S)) /\ Len(t) = n + 1
      /\ \A i \in 1 .. (n + 1) : t[i] = IF i = 1 THEN <<>> ELSE w[i]
  BY <1>4, IsASeq, EmptySeq
<1> HIDE DEF t
<1>6. FrontTaken(w, t, 1, w[1])
  BY <1>1, <1>4, <1>5, JoinedEmpty DEF FrontTaken
<1>7. FlattenSeq(w) = Joined(w[1], FlattenSeq(t))
  BY <1>1, <1>4, <1>5, <1>6, FlattenFront
<1>8. FlattenSeq(t) = FlattenSeq(u)
  <2>1. /\ t \in Seq(Seq(S)) /\ u \in Seq(Seq(S)) /\ 1 \in 1 .. Len(t)
        /\ t[1] = <<>> /\ Len(u) = Len(t) - 1
    BY <1>3, <1>5
  <2>2. ASSUME NEW i \in 1 .. Len(u)
        PROVE  u[i] = IF i < 1 THEN t[i] ELSE t[i + 1]
    <3>1. /\ i \in 1 .. n /\ ~(i < 1)
          /\ i + 1 \in 1 .. (n + 1) /\ i + 1 # 1
      BY <1>3
    <3>2. u[i] = w[i + 1]
      BY ONLY <1>3, <3>1
    <3>3. t[i + 1] = w[i + 1]
      BY ONLY <1>5, <3>1
    <3> QED BY ONLY <3>1, <3>2, <3>3
  <2> QED BY ONLY <2>1, <2>2, FlattenLeftOut
<1> QED BY <1>2, <1>3, <1>7, <1>8

(* What a function makes of each element of a sequence, one after another.  *)
Maps(s, f, D, S) == s \in Seq(D) /\ f \in [D -> Seq(S)]

EachImage(s, f) == [k \in DOMAIN s |-> f[s[k]]]

Images(s, f) == FlattenSeq(EachImage(s, f))

LEMMA EachImageIs ==
    ASSUME NEW S, NEW D, NEW s, NEW f, Maps(s, f, D, S), NEW t,
           t = EachImage(s, f)
    PROVE  /\ t \in Seq(Seq(S)) /\ Len(t) = Len(s) /\ Len(s) \in Nat
           /\ \A k \in 1 .. Len(s) : t[k] = f[s[k]] /\ t[k] \in Seq(S)
<1>0. s \in Seq(D) /\ f \in [D -> Seq(S)]
  BY DEF Maps
<1>1. PICK n \in Nat : n = Len(s) /\ DOMAIN s = 1 .. n
  BY ONLY <1>0, LenProperties
<1>2. \A k \in 1 .. n : f[s[k]] \in Seq(S)
  <2>1. \A k \in 1 .. n : s[k] \in D
    BY ONLY <1>0, <1>1, ElementOfSeq
  <2> QED BY ONLY <1>0, <2>1
<1>3. t = [k \in 1 .. n |-> f[s[k]]]
  BY <1>1 DEF EachImage
<1>4. /\ t \in [1 .. n -> Seq(S)]
      /\ \A k \in 1 .. n : t[k] = f[s[k]]
  BY ONLY <1>2, <1>3
<1>5. t \in Seq(Seq(S)) /\ Len(t) = n
  BY ONLY n \in Nat, <1>4
<1> QED BY ONLY n \in Nat, <1>1, <1>2, <1>4, <1>5

LEMMA ImagesType ==
    ASSUME NEW S, NEW D, NEW s, NEW f, Maps(s, f, D, S)
    PROVE  Images(s, f) \in Seq(S)
<1>1. PICK t : t = EachImage(s, f)
  OBVIOUS
<1>2. t \in Seq(Seq(S))
  BY ONLY Maps(s, f, D, S), <1>1, EachImageIs
<1>3. FlattenSeq(t) \in Seq(S)
  BY ONLY <1>2, FlattenType
<1> QED BY ONLY <1>1, <1>3 DEF Images

LEMMA ImagesEmpty == \A f : Images(<<>>, f) = <<>>
  BY FlattenEmpty DEF Images, EachImage

Appended(s, x, r) == r = Append(s, x)

LEMMA ImagesAppend ==
    ASSUME NEW S, NEW D, NEW s, NEW f, Maps(s, f, D, S), NEW x \in D,
           NEW r, Appended(s, x, r)
    PROVE  /\ Maps(r, f, D, S) /\ f[x] \in Seq(S)
           /\ Images(r, f) = Joined(Images(s, f), f[x])
<1>0. s \in Seq(D) /\ f \in [D -> Seq(S)]
  BY DEF Maps
<1>1. PICK n \in Nat : n = Len(s)
  BY ONLY <1>0, LenProperties
<1>3. /\ r \in Seq(D) /\ Len(r) = n + 1 /\ r[n + 1] = x
      /\ \A k \in 1 .. n : r[k] = s[k]
  BY <1>0, <1>1, AppendProperties DEF Appended
<1>2. Maps(r, f, D, S)
  BY ONLY <1>0, <1>3 DEF Maps
<1>4. PICK t : t = EachImage(s, f)
  OBVIOUS
<1>5. /\ t \in Seq(Seq(S)) /\ Len(t) = n /\ \A k \in 1 .. n : t[k] = f[s[k]]
  BY ONLY Maps(s, f, D, S), <1>1, <1>4, EachImageIs
<1>6. PICK u : u = EachImage(r, f)
  OBVIOUS
<1>7. /\ u \in Seq(Seq(S)) /\ Len(u) = n + 1
      /\ \A k \in 1 .. (n + 1) : u[k] = f[r[k]]
  BY ONLY <1>2, <1>3, <1>6, EachImageIs
<1>8. PICK y : y = f[x] /\ y \in Seq(S)
  BY <1>0
<1>9. PICK v : v = Append(t, y)
  OBVIOUS
<1>10. /\ v \in Seq(Seq(S)) /\ Len(v) = n + 1 /\ v[n + 1] = y
       /\ \A k \in 1 .. n : v[k] = t[k]
  BY ONLY n \in Nat, <1>5, <1>8, <1>9, AppendProperties
<1>11. \A k \in 1 .. (n + 1) : u[k] = v[k]
  <2> SUFFICES ASSUME NEW k \in 1 .. (n + 1) PROVE u[k] = v[k]
    OBVIOUS
  <2>1. CASE k = n + 1
    BY <1>3, <1>7, <1>8, <1>10, <2>1
  <2>2. CASE k # n + 1
    <3>1. k \in 1 .. n
      BY <2>2
    <3>2. u[k] = f[r[k]]
      BY ONLY <1>7, k \in 1 .. (n + 1)
    <3>3. r[k] = s[k]
      BY ONLY <1>3, <3>1
    <3>4. v[k] = f[s[k]]
      BY ONLY <1>5, <1>10, <3>1
    <3> QED BY ONLY <3>2, <3>3, <3>4
  <2> QED BY <2>1, <2>2
<1>12. u = v
  BY ONLY <1>7, <1>10, <1>11, SeqEqual
<1>13. FlattenSeq(v) = Joined(FlattenSeq(t), y)
  BY ONLY <1>5, <1>8, <1>9, FlattenAppend
<1> QED BY ONLY <1>2, <1>4, <1>6, <1>8, <1>12, <1>13 DEF Images

(* What holds of no elements, and of each sequence with one more element    *)
(* than one it holds of.                                                    *)
LEMMA SequencesGrow ==
    ASSUME NEW D, NEW s \in Seq(D), NEW G, <<>> \in G,
           \A r \in Seq(D) : \A x \in D : r \in G => Append(r, x) \in G
    PROVE  s \in G
<1>1. PICK n \in Nat : n = Len(s)
  BY LenProperties
<1> DEFINE Part(m) == SubSeq(s, 1, m)
           H == {m \in 0 .. n : Part(m) \in G}
<1>2. 0 \in H
  <2>1. Part(0) = <<>>
    BY SubSeqEmpty
  <2>2. 0 \in 0 .. n
    OBVIOUS
  <2> HIDE DEF Part
  <2> QED BY <2>1, <2>2
<1>3. ASSUME NEW m \in 1 .. n, m - 1 \in H PROVE m \in H
  <2>1. m \in 0 .. n /\ SubSeq(s, 1, m - 1) \in G
    BY <1>3
  <2>2. PICK r : r = SubSeq(s, 1, m - 1)
    OBVIOUS
  <2>3. r \in Seq(D)
    <3>1. \A i \in 1 .. (m - 1) : s[i] \in D
      BY <1>1, ElementOfSeq
    <3>2. 1 \in Int /\ m - 1 \in Int
      OBVIOUS
    <3> QED BY ONLY <2>2, <3>1, <3>2, SubSeqProperties
  <2>4. s[m] \in D
    BY <1>1, ElementOfSeq
  <2>5. SubSeq(s, 1, m) = r \o <<s[m]>>
    <3>1. 1 \in 1 .. Len(s) /\ m \in 1 .. Len(s)
      BY <1>1
    <3> QED BY ONLY s \in Seq(D), <2>2, <3>1, SubSeqRecursiveSecond
  <2>6. Append(r, s[m]) = r \o <<s[m]>>
    BY ONLY <2>3, <2>4, AppendIsConcat
  <2>7. Append(r, s[m]) \in G
    BY <2>1, <2>2, <2>3, <2>4
  <2> QED BY <2>1, <2>5, <2>6, <2>7
<1> HIDE DEF H
<1>4. \A m \in 0 .. n : m \in H
  BY ONLY n \in Nat, <1>2, <1>3, UpTo
<1>5. SubSeq(s, 1, n) \in G
  BY <1>4 DEF H
<1> QED BY <1>1, <1>5, SubSeqFull

(* An element without an image may be left out.                             *)
LEMMA ImagesLeftOut ==
    ASSUME NEW S, NEW D, NEW s, NEW f, Maps(s, f, D, S),
           NEW i \in 1 .. Len(s), NEW r, r = RemoveAt(s, i), f[s[i]] = <<>>
    PROVE  Maps(r, f, D, S) /\ Images(r, f) = Images(s, f)
<1>0. s \in Seq(D) /\ f \in [D -> Seq(S)]
  BY DEF Maps
<1>1. PICK n \in Nat : n = Len(s)
  BY ONLY <1>0, LenProperties
<1>3. /\ r \in Seq(D) /\ Len(r) = n - 1 /\ i \in 1 .. n
      /\ \A k \in 1 .. (n - 1) : r[k] = IF k < i THEN s[k] ELSE s[k + 1]
  BY <1>0, <1>1, RemoveAtProperties
<1>2. Maps(r, f, D, S)
  BY ONLY <1>0, <1>3 DEF Maps
<1>4. PICK t : t = EachImage(s, f)
  OBVIOUS
<1>5. /\ t \in Seq(Seq(S)) /\ Len(t) = n /\ \A k \in 1 .. n : t[k] = f[s[k]]
  BY ONLY Maps(s, f, D, S), <1>1, <1>4, EachImageIs
<1>6. PICK u : u = EachImage(r, f)
  OBVIOUS
<1>7. /\ u \in Seq(Seq(S)) /\ Len(u) = n - 1
      /\ \A k \in 1 .. (n - 1) : u[k] = f[r[k]]
  <2>1. /\ u \in Seq(Seq(S)) /\ Len(u) = Len(r)
        /\ \A k \in 1 .. Len(r) : u[k] = f[r[k]]
    BY ONLY <1>2, <1>6, EachImageIs
  <2> QED BY ONLY <1>3, <2>1
<1>8. ASSUME NEW k \in 1 .. Len(u)
      PROVE  u[k] = IF k < i THEN t[k] ELSE t[k + 1]
  <2>1. k \in 1 .. n /\ k + 1 \in 1 .. n /\ k \in 1 .. (n - 1)
    BY <1>1, <1>7
  <2>2. t[k] = f[s[k]] /\ t[k + 1] = f[s[k + 1]]
    BY ONLY <1>5, <2>1
  <2>3. u[k] = f[r[k]] /\ r[k] = IF k < i THEN s[k] ELSE s[k + 1]
    BY <1>3, <1>7, <2>1
  <2> QED BY ONLY <2>2, <2>3
<1>9. t[i] = <<>>
  BY <1>3, <1>5
<1>10. FlattenSeq(t) = FlattenSeq(u)
  <2>1. i \in 1 .. Len(t) /\ Len(u) = Len(t) - 1
    BY ONLY <1>3, <1>5, <1>7
  <2> QED BY ONLY <1>5, <1>7, <1>8, <1>9, <2>1, FlattenLeftOut
<1> QED BY <1>2, <1>4, <1>6, <1>10 DEF Images

(* The first image that is not empty is at the front.                       *)
LEMMA ImagesFirst ==
    ASSUME NEW S, NEW D, NEW s, NEW f, Maps(s, f, D, S),
           NEW i \in 1 .. Len(s), NEW r, r = RemoveAt(s, i), \A k \in 1 .. (i - 1) : f[s[k]] = <<>>
    PROVE  /\ Maps(r, f, D, S) /\ f[s[i]] \in Seq(S)
           /\ Images(s, f) = Joined(f[s[i]], Images(r, f))
<1>0. s \in Seq(D) /\ f \in [D -> Seq(S)]
  BY DEF Maps
<1>1. PICK n \in Nat : n = Len(s)
  BY ONLY <1>0, LenProperties
<1>3. /\ r \in Seq(D) /\ Len(r) = n - 1 /\ i \in 1 .. n
      /\ \A k \in 1 .. (n - 1) : r[k] = IF k < i THEN s[k] ELSE s[k + 1]
  BY <1>0, <1>1, RemoveAtProperties
<1>2. Maps(r, f, D, S)
  BY ONLY <1>0, <1>3 DEF Maps
<1>4. PICK t : t = EachImage(s, f)
  OBVIOUS
<1>5. /\ t \in Seq(Seq(S)) /\ Len(t) = n /\ \A k \in 1 .. n : t[k] = f[s[k]]
  BY ONLY Maps(s, f, D, S), <1>1, <1>4, EachImageIs
<1>6. PICK u : u = EachImage(r, f)
  OBVIOUS
<1>7. /\ u \in Seq(Seq(S)) /\ Len(u) = n - 1
      /\ \A k \in 1 .. (n - 1) : u[k] = f[r[k]]
  <2>1. /\ u \in Seq(Seq(S)) /\ Len(u) = Len(r)
        /\ \A k \in 1 .. Len(r) : u[k] = f[r[k]]
    BY ONLY <1>2, <1>6, EachImageIs
  <2> QED BY ONLY <1>3, <2>1
<1>8. \A k \in 1 .. n : f[s[k]] \in Seq(S)
  BY ONLY Maps(s, f, D, S), <1>1, EachImageIs
<1> DEFINE v == [k \in 1 .. n |-> IF k = i THEN <<>> ELSE f[s[k]]]
<1>9. /\ v \in Seq(Seq(S)) /\ Len(v) = n
      /\ \A k \in 1 .. n : v[k] = IF k = i THEN <<>> ELSE f[s[k]]
  <2>1. <<>> \in Seq(S)
    BY EmptySeq
  <2>2. v \in [1 .. n -> Seq(S)]
    BY <1>8, <2>1
  <2> QED BY <2>2
<1> HIDE DEF v
<1>10. /\ f[s[i]] \in Seq(S) /\ t[i] = f[s[i]] /\ v[i] = <<>>
  BY <1>3, <1>5, <1>8, <1>9
<1>11. t[i] = Joined(f[s[i]], v[i])
  BY <1>10, JoinedEmpty
<1>12. ASSUME NEW k \in 1 .. n
       PROVE  /\ k < i => t[k] = <<>> /\ v[k] = <<>>
              /\ k > i => t[k] = v[k]
  <2>1. k < i => k \in 1 .. (i - 1)
    BY <1>3
  <2>2. t[k] = f[s[k]] /\ v[k] = IF k = i THEN <<>> ELSE f[s[k]]
    BY <1>5, <1>9
  <2>3. k < i => f[s[k]] = <<>>
    BY <2>1
  <2>4. k < i \/ k > i => k # i
    BY <1>3
  <2> QED BY ONLY <2>2, <2>3, <2>4
<1>13. FrontTaken(t, v, i, f[s[i]])
  BY ONLY <1>3, <1>5, <1>9, <1>11, <1>12 DEF FrontTaken
<1>14. FlattenSeq(t) = Joined(f[s[i]], FlattenSeq(v))
  BY ONLY <1>5, <1>9, <1>10, <1>13, FlattenFront
<1>15. ASSUME NEW k \in 1 .. Len(u)
       PROVE  u[k] = IF k < i THEN v[k] ELSE v[k + 1]
  <2>0. k \in 1 .. (n - 1) /\ i \in 1 .. n
    BY <1>3, <1>7
  <2>1. /\ k \in 1 .. n /\ k + 1 \in 1 .. n /\ (k < i => k # i)
        /\ (~(k < i) => k + 1 # i) /\ k \in 1 .. (n - 1)
    BY ONLY n \in Nat, <2>0
  <2>2. /\ k < i => v[k] = f[s[k]]
        /\ ~(k < i) => v[k + 1] = f[s[k + 1]]
    BY ONLY <1>9, <2>1
  <2>3. u[k] = f[r[k]] /\ r[k] = IF k < i THEN s[k] ELSE s[k + 1]
    BY <1>3, <1>7, <2>1
  <2> QED BY ONLY <2>2, <2>3
<1>16. FlattenSeq(v) = FlattenSeq(u)
  <2>1. i \in 1 .. Len(v) /\ v[i] = <<>> /\ Len(u) = Len(v) - 1
    BY ONLY <1>3, <1>7, <1>9, <1>10
  <2> QED BY ONLY <1>7, <1>9, <1>15, <2>1, FlattenLeftOut
<1> QED BY ONLY <1>2, <1>4, <1>6, <1>10, <1>14, <1>16 DEF Images

LEMMA JoinedOne ==
    ASSUME NEW S, NEW a \in Seq(S), NEW x \in S
    PROVE  Joined(a, <<x>>) = Append(a, x) /\ Append(a, x) \in Seq(S)
  BY AppendIsConcat, AppendProperties DEF Joined

(* A function that keeps some elements and drops the others, and then       *)
(* another one: together they are one function.                             *)
KeepsOrDrops(g, D) == \A x \in D : g[x] = <<>> \/ g[x] = <<x>>

Together(g, f, h, D, S) ==
    /\ g \in [D -> Seq(D)] /\ KeepsOrDrops(g, D)
    /\ f \in [D -> Seq(S)] /\ h \in [D -> Seq(S)]
    /\ \A x \in D : h[x] = IF g[x] = <<>> THEN <<>> ELSE f[x]

SameImages(a, f, b, h) == Images(a, f) = Images(b, h)

LEMMA ImagesOfKept ==
    ASSUME NEW S, NEW D, NEW s \in Seq(D), NEW g, NEW f, NEW h,
           Together(g, f, h, D, S)
    PROVE  \A a : a = Images(s, g) =>
              Maps(a, f, D, S) /\ SameImages(a, f, s, h)
<1>0. /\ g \in [D -> Seq(D)] /\ KeepsOrDrops(g, D)
      /\ f \in [D -> Seq(S)] /\ h \in [D -> Seq(S)]
      /\ \A x \in D : h[x] = IF g[x] = <<>> THEN <<>> ELSE f[x]
  BY DEF Together
<1> DEFINE G == {r \in Seq(D) : Images(Images(r, g), f) = Images(r, h)}
<1>1. <<>> \in G
  <2>1. <<>> \in Seq(D)
    BY EmptySeq
  <2>2. Images(<<>>, g) = <<>> /\ Images(<<>>, f) = <<>> /\ Images(<<>>, h) = <<>>
    BY ImagesEmpty
  <2> QED BY ONLY <2>1, <2>2
<1>2. ASSUME NEW r \in Seq(D), NEW x \in D, r \in G PROVE Append(r, x) \in G
  <2>1. Images(Images(r, g), f) = Images(r, h)
    BY <1>2
  <2>2. PICK q : q = Append(r, x) /\ Appended(r, x, q)
    BY DEF Appended
  <2>3. PICK a : a = Images(r, g)
    OBVIOUS
  <2>4. Maps(r, g, D, D) /\ Maps(r, h, D, S)
    BY <1>0 DEF Maps
  <2>5. a \in Seq(D)
    BY ONLY <2>3, <2>4, ImagesType
  <2>6. Maps(a, f, D, S)
    BY <1>0, <2>5 DEF Maps
  <2>7. /\ Images(q, g) = Joined(a, g[x])
        /\ Maps(q, g, D, D)
    BY ONLY <2>2, <2>3, <2>4, x \in D, ImagesAppend
  <2>8. /\ Images(q, h) = Joined(Images(r, h), h[x])
        /\ Images(r, h) \in Seq(S) /\ q \in Seq(D)
    <3>1. Images(r, h) \in Seq(S)
      BY ONLY <2>4, ImagesType
    <3>2. Images(q, h) = Joined(Images(r, h), h[x])
      BY ONLY <2>2, <2>4, x \in D, ImagesAppend
    <3> QED BY ONLY <2>7, <3>1, <3>2 DEF Maps
  <2>9. CASE g[x] = <<>>
    <3>1. Images(q, g) = a
      BY ONLY <2>5, <2>7, <2>9, JoinedEmpty
    <3>2. h[x] = <<>>
      BY <1>0, <2>9
    <3>3. Images(q, h) = Images(r, h)
      BY ONLY <2>8, <3>2, JoinedEmpty
    <3> QED BY ONLY <2>1, <2>2, <2>3, <2>8, <3>1, <3>3
  <2>10. CASE g[x] = <<x>>
    <3>1. PICK b : b = Append(a, x) /\ Appended(a, x, b)
      BY DEF Appended
    <3>2. Images(q, g) = b
      BY ONLY <2>5, <2>7, <2>10, x \in D, <3>1, JoinedOne
    <3>3. Images(b, f) = Joined(Images(a, f), f[x])
      BY ONLY <2>6, x \in D, <3>1, ImagesAppend
    <3>4. h[x] = f[x]
      <4>1. g[x] # <<>>
        <5>1. Len(<<x>>) = 1 /\ Len(<<>>) = 0
          OBVIOUS
        <5> QED BY ONLY <2>10, <5>1
      <4> QED BY <1>0, <4>1
    <3> QED BY ONLY <2>1, <2>2, <2>3, <2>8, <3>2, <3>3, <3>4
  <2> QED BY <1>0, <2>9, <2>10 DEF KeepsOrDrops
<1>3. s \in G
  <2> HIDE DEF G
  <2> QED BY ONLY <1>1, <1>2, s \in Seq(D), SequencesGrow
<1>4. Maps(s, g, D, D)
  BY <1>0 DEF Maps
<1>5. Images(s, g) \in Seq(D)
  BY ONLY <1>4, ImagesType
<1> QED BY <1>0, <1>3, <1>5 DEF Maps, SameImages

(* A function that has no image for anything.                               *)
LEMMA ImagesNothing ==
    ASSUME NEW S, NEW D, NEW s \in Seq(D), NEW f, f \in [D -> Seq(S)],
           \A x \in D : f[x] = <<>>
    PROVE  Images(s, f) = <<>>
<1> DEFINE G == {r \in Seq(D) : Images(r, f) = <<>>}
<1>1. <<>> \in G
  BY EmptySeq, ImagesEmpty
<1>2. ASSUME NEW r \in Seq(D), NEW x \in D, r \in G PROVE Append(r, x) \in G
  <2>2. PICK q : q = Append(r, x) /\ Appended(r, x, q)
    BY DEF Appended
  <2>3. Maps(r, f, D, S)
    BY DEF Maps
  <2>4. Images(q, f) = Joined(Images(r, f), f[x]) /\ q \in Seq(D)
    <3>1. Maps(q, f, D, S) /\ Images(q, f) = Joined(Images(r, f), f[x])
      BY ONLY <2>2, <2>3, x \in D, ImagesAppend
    <3> QED BY ONLY <3>1 DEF Maps
  <2>5. Images(r, f) = <<>> /\ f[x] = <<>> /\ <<>> \in Seq(S)
    BY <1>2, EmptySeq
  <2>6. Joined(<<>>, <<>>) = <<>>
    BY ONLY <2>5, JoinedEmpty
  <2> QED BY ONLY <2>2, <2>4, <2>5, <2>6
<1> HIDE DEF G
<1>3. s \in G
  BY ONLY <1>1, <1>2, s \in Seq(D), SequencesGrow
<1> QED BY <1>3 DEF G

LEMMA JoinedAppend ==
    ASSUME NEW S, NEW a \in Seq(S), NEW b \in Seq(S), NEW x \in S, NEW r,
           Appended(b, x, r)
    PROVE  Appended(Joined(a, b), x, Joined(a, r))
<1>0. <<x>> \in Seq(S)
  OBVIOUS
<1>1. PICK e : e = <<x>> /\ e \in Seq(S)
  BY <1>0
<1>2. Joined(b, e) = r
  BY <1>1, JoinedOne DEF Appended
<1>3. Joined(Joined(a, b), e) = Append(Joined(a, b), x)
  BY <1>1, JoinedType, JoinedOne
<1>4. Joined(Joined(a, b), e) = Joined(a, Joined(b, e))
  <2>1. e \in Seq(S)
    BY <1>1
  <2> QED BY ONLY a \in Seq(S), b \in Seq(S), <2>1, JoinedRegroup
<1> QED BY ONLY <1>2, <1>3, <1>4 DEF Appended

(* The first element of what follows is put to what comes before.          *)
LEMMA OneByteOn ==
    ASSUME NEW S, NEW a \in Seq(S), NEW b \in Seq(S), b # <<>>
    PROVE  /\ Joined(Append(a, Head(b)), Tail(b)) = Joined(a, b)
           /\ Append(a, Head(b)) \in Seq(S) /\ Tail(b) \in Seq(S)
<1>1. PICK x : x = Head(b) /\ x \in S
  BY RangeOfTail
<1>2. PICK t : t = Tail(b) /\ t \in Seq(S)
  BY RangeOfTail
<1>7. <<x>> \in Seq(S)
  BY <1>1
<1>3. PICK e : e = <<x>> /\ e \in Seq(S)
  BY <1>7
<1>4. b = Joined(e, t)
  BY <1>1, <1>2, <1>3 DEF Joined
<1>5. Append(a, x) = Joined(a, e) /\ Append(a, x) \in Seq(S)
  BY <1>1, <1>3, JoinedOne
<1>6. Joined(Joined(a, e), t) = Joined(a, Joined(e, t))
  <2>1. e \in Seq(S) /\ t \in Seq(S)
    BY <1>2, <1>3
  <2> QED BY ONLY a \in Seq(S), <2>1, JoinedRegroup
<1> QED BY ONLY <1>1, <1>2, <1>4, <1>5, <1>6

(* What a sequence begins with.                                             *)
Begins(a, x) == Len(a) <= Len(x) /\ \A k \in 1 .. Len(a) : a[k] = x[k]

TwoParts(a, b, z) ==
    /\ Len(z) = Len(a) + Len(b) /\ Len(a) \in Nat /\ Len(b) \in Nat
    /\ \A k \in 1 .. Len(a) : z[k] = a[k]
    /\ \A k \in 1 .. Len(b) : z[Len(a) + k] = b[k]

LEMMA PartsOfJoined ==
    ASSUME NEW S, NEW a \in Seq(S), NEW b \in Seq(S), NEW z, z = Joined(a, b)
    PROVE  z \in Seq(S) /\ TwoParts(a, b, z)
<1>1. /\ z \in Seq(S) /\ Len(z) = Len(a) + Len(b)
      /\ \A i \in 1 .. (Len(a) + Len(b)) :
            z[i] = IF i <= Len(a) THEN a[i] ELSE b[i - Len(a)]
  <2>1. z = a \o b
    BY DEF Joined
  <2> QED BY ONLY <2>1, a \in Seq(S), b \in Seq(S), ConcatProperties
<1>2. PICK m \in Nat, n \in Nat : m = Len(a) /\ n = Len(b)
  BY LenProperties
<1>3. \A k \in 1 .. m : k \in 1 .. (m + n) /\ k <= m
  BY ONLY m \in Nat, n \in Nat
<1>4. \A k \in 1 .. n : m + k \in 1 .. (m + n) /\ ~(m + k <= m) /\ (m + k) - m = k
  BY ONLY m \in Nat, n \in Nat
<1>5. \A k \in 1 .. m : z[k] = a[k]
  BY ONLY <1>1, <1>2, <1>3
<1>6. \A k \in 1 .. n : z[m + k] = b[k]
  BY ONLY <1>1, <1>2, <1>4
<1> QED BY ONLY m \in Nat, n \in Nat, <1>1, <1>2, <1>5, <1>6 DEF TwoParts

LEMMA JoinedBegins ==
    ASSUME NEW S, NEW a \in Seq(S), NEW b \in Seq(S), NEW x \in Seq(S),
           NEW y \in Seq(S), NEW z, z = Joined(a, b), z = Joined(x, y),
           Len(a) <= Len(x)
    PROVE  Begins(a, x) /\ (Len(a) = Len(x) => a = x /\ b = y)
<1>1. PICK m \in Nat, n \in Nat : m = Len(a) /\ n = Len(x) /\ m <= n
  BY LenProperties
<1>2. /\ Len(z) = m + Len(b) /\ Len(b) \in Nat
      /\ \A k \in 1 .. m : z[k] = a[k]
      /\ \A k \in 1 .. Len(b) : z[m + k] = b[k]
  <2>1. TwoParts(a, b, z)
    BY ONLY a \in Seq(S), b \in Seq(S), z = Joined(a, b), PartsOfJoined
  <2> QED BY ONLY <1>1, <2>1 DEF TwoParts
<1>3. /\ Len(z) = n + Len(y) /\ Len(y) \in Nat
      /\ \A k \in 1 .. n : z[k] = x[k]
      /\ \A k \in 1 .. Len(y) : z[n + k] = y[k]
  <2>1. TwoParts(x, y, z)
    BY ONLY x \in Seq(S), y \in Seq(S), z = Joined(x, y), PartsOfJoined
  <2> QED BY ONLY <1>1, <2>1 DEF TwoParts
<1>4. \A k \in 1 .. m : k \in 1 .. n
  BY ONLY <1>1, m \in Nat, n \in Nat
<1>5. \A k \in 1 .. m : a[k] = x[k]
  BY ONLY <1>2, <1>3, <1>4
<1>6. Begins(a, x)
  BY ONLY <1>1, <1>5 DEF Begins
<1>7. ASSUME m = n PROVE a = x /\ b = y
  <2>1. a = x
    BY ONLY <1>1, <1>5, <1>7, a \in Seq(S), x \in Seq(S), SeqEqual
  <2>2. Len(b) = Len(y)
    BY ONLY <1>2, <1>3, <1>7, m \in Nat, n \in Nat
  <2>3. \A k \in 1 .. Len(b) : b[k] = y[k]
    BY ONLY <1>2, <1>3, <1>7, <2>2
  <2>4. b = y
    BY ONLY <2>2, <2>3, b \in Seq(S), y \in Seq(S), SeqEqual
  <2> QED BY <2>1, <2>4
<1> QED BY ONLY <1>1, <1>6, <1>7

LEMMA PrefixIsBegin ==
    ASSUME NEW S, NEW a \in Seq(S), NEW x \in Seq(S)
    PROVE  IsPrefix(a, x) <=> Begins(a, x)
<1>1. PICK m \in Nat, n \in Nat : m = Len(a) /\ n = Len(x)
  BY LenProperties
<1>2. CASE ~(m <= n)
  BY <1>1, <1>2 DEF IsPrefix, Begins
<1>3. CASE m <= n
  <2>1. PICK u : u = SubSeq(a, 1, m)
    OBVIOUS
  <2>2. PICK v : v = SubSeq(x, 1, m)
    OBVIOUS
  <2>3. \A i \in 1 .. m : i \in 1 .. n
    BY ONLY <1>3, m \in Nat, n \in Nat
  <2>4. (\A i \in 1 .. m : a[i] \in S) /\ (\A i \in 1 .. m : x[i] \in S)
    BY <1>1, <2>3, ElementOfSeq
  <2>5. u \in Seq(S) /\ Len(u) = m /\ \A i \in 1 .. m : u[i] = a[i]
    <3>1. /\ u \in Seq(S) /\ Len(u) = (IF 1 <= m THEN m - 1 + 1 ELSE 0)
          /\ \A i \in 1 .. (m - 1 + 1) : u[i] = a[1 + i - 1]
      BY ONLY <2>1, <2>4, m \in Nat, SubSeqProperties
    <3> QED BY ONLY <3>1, m \in Nat
  <2>6. v \in Seq(S) /\ Len(v) = m /\ \A i \in 1 .. m : v[i] = x[i]
    <3>1. /\ v \in Seq(S) /\ Len(v) = (IF 1 <= m THEN m - 1 + 1 ELSE 0)
          /\ \A i \in 1 .. (m - 1 + 1) : v[i] = x[1 + i - 1]
      BY ONLY <2>2, <2>4, m \in Nat, SubSeqProperties
    <3> QED BY ONLY <3>1, m \in Nat
  <2>7. IsPrefix(a, x) <=> u = v
    BY ONLY <1>1, <1>3, <2>1, <2>2 DEF IsPrefix
  <2>8. Begins(a, x) <=> \A i \in 1 .. m : a[i] = x[i]
    BY ONLY <1>1, <1>3 DEF Begins
  <2>9. ASSUME \A i \in 1 .. m : a[i] = x[i] PROVE u = v
    BY ONLY <2>5, <2>6, <2>9, SeqEqual
  <2> QED BY ONLY <2>5, <2>6, <2>7, <2>8, <2>9
<1> QED BY <1>2, <1>3

LEMMA JoinedPrefix ==
    ASSUME NEW S, NEW a \in Seq(S), NEW b \in Seq(S), NEW z, z = Joined(a, b)
    PROVE  IsPrefix(a, z)
<1>1. /\ z \in Seq(S) /\ Len(z) = Len(a) + Len(b)
      /\ Len(a) \in Nat /\ Len(b) \in Nat
      /\ \A k \in 1 .. Len(a) : z[k] = a[k]
  <2>1. z \in Seq(S) /\ TwoParts(a, b, z)
    BY PartsOfJoined
  <2> QED BY ONLY <2>1 DEF TwoParts
<1>2. Len(a) <= Len(z)
  BY ONLY <1>1
<1>3. Begins(a, z)
  BY ONLY <1>1, <1>2 DEF Begins
<1> QED BY ONLY <1>1, <1>3, a \in Seq(S), PrefixIsBegin

(* The first of two sequences in a row.                                     *)
HeadOfJoined(a, b, z) == Head(z) = Head(a) /\ Tail(z) = Joined(Tail(a), b)

LEMMA JoinedHead ==
    ASSUME NEW S, NEW a \in Seq(S), NEW b \in Seq(S), a # <<>>,
           NEW z, z = Joined(a, b)
    PROVE  HeadOfJoined(a, b, z)
<1>1. PICK n \in Nat, m \in Nat : n = Len(a) /\ n # 0 /\ m = Len(b)
  BY EmptySeq, LenProperties
<1>2. /\ z \in Seq(S) /\ Len(z) = n + m
      /\ \A k \in 1 .. n : z[k] = a[k]
      /\ \A k \in 1 .. m : z[n + k] = b[k]
  <2>1. z \in Seq(S) /\ TwoParts(a, b, z)
    BY ONLY a \in Seq(S), b \in Seq(S), z = Joined(a, b), PartsOfJoined
  <2> QED BY ONLY <1>1, <2>1 DEF TwoParts
<1>3. z # <<>>
  <2>1. Len(z) # 0
    BY ONLY <1>1, <1>2, n \in Nat, m \in Nat
  <2> QED BY ONLY <2>1, EmptySeq
<1>4. PICK t : t = Tail(z)
  OBVIOUS
<1>5. PICK u : u = Tail(a)
  OBVIOUS
<1>6. t \in Seq(S) /\ Len(t) = n + m - 1 /\ \A k \in 1 .. Len(t) : t[k] = z[k + 1]
  <2>1. z \in Seq(S)
    BY <1>2
  <2>2. /\ t \in Seq(S) /\ Len(t) = Len(z) - 1
        /\ \A k \in 1 .. Len(t) : t[k] = z[k + 1]
    BY ONLY <1>3, <1>4, <2>1, HeadTailProperties
  <2> QED BY ONLY <1>2, <2>2
<1>7. u \in Seq(S) /\ Len(u) = n - 1 /\ \A k \in 1 .. Len(u) : u[k] = a[k + 1]
  BY ONLY <1>1, <1>5, a \in Seq(S), a # <<>>, HeadTailProperties
<1>8. PICK v : v = Joined(u, b)
  OBVIOUS
<1>9. /\ v \in Seq(S) /\ Len(v) = (n - 1) + m
      /\ \A k \in 1 .. (n - 1) : v[k] = u[k]
      /\ \A k \in 1 .. m : v[(n - 1) + k] = b[k]
  <2>1. u \in Seq(S)
    BY <1>7
  <2>2. v \in Seq(S) /\ TwoParts(u, b, v)
    BY ONLY <1>8, <2>1, b \in Seq(S), PartsOfJoined
  <2> QED BY ONLY <1>1, <1>7, <2>2 DEF TwoParts
<1>10. ASSUME NEW k \in 1 .. (n + m - 1) PROVE t[k] = v[k]
  <2>1. t[k] = z[k + 1]
    BY <1>6
  <2>2. CASE k \in 1 .. (n - 1)
    <3>1. k + 1 \in 1 .. n
      BY ONLY <2>2, n \in Nat
    <3>2. v[k] = u[k] /\ u[k] = a[k + 1]
      BY ONLY <1>7, <1>9, <2>2
    <3>3. z[k + 1] = a[k + 1]
      BY ONLY <1>2, <3>1
    <3> QED BY ONLY <2>1, <3>2, <3>3
  <2>3. CASE k \notin 1 .. (n - 1)
    <3>1. PICK i : i = k - (n - 1) /\ i \in 1 .. m /\ (n - 1) + i = k /\ n + i = k + 1
      BY ONLY <2>3, n \in Nat, m \in Nat, k \in 1 .. (n + m - 1)
    <3>2. v[(n - 1) + i] = b[i] /\ z[n + i] = b[i]
      BY ONLY <1>2, <1>9, <3>1
    <3> QED BY ONLY <2>1, <3>1, <3>2
  <2> QED BY <2>2, <2>3
<1>11. t = v
  <2>1. Len(t) = Len(v)
    BY ONLY <1>6, <1>9, n \in Nat, m \in Nat
  <2>2. t \in Seq(S) /\ v \in Seq(S) /\ \A k \in 1 .. Len(t) : t[k] = v[k]
    BY ONLY <1>6, <1>9, <1>10
  <2> QED BY ONLY <2>1, <2>2, SeqEqual
<1>12. Head(z) = Head(a)
  <2>1. 1 \in 1 .. n
    BY ONLY <1>1, n \in Nat
  <2>2. z[1] = a[1]
    BY ONLY <1>2, <2>1
  <2> QED BY <2>2
<1> QED BY ONLY <1>4, <1>5, <1>8, <1>11, <1>12 DEF HeadOfJoined

(* Every element of both lists.                                             *)
LEMMA JoinedMembers ==
    ASSUME NEW S, NEW a \in Seq(S), NEW b \in Seq(S)
    PROVE  a \o b \in Seq(S)
  OBVIOUS
=============================================================================
