-------------------------- MODULE CompositorProofs --------------------------
(***************************************************************************)
(* What the screen of Compositor shows, for any windows, any screen and any *)
(* number of inputs: pointers only to where something is, nothing of what   *)
(* is hidden, and windows in the order of the list.                         *)
(***************************************************************************)
EXTENDS Compositor, SequenceLemmas

-----------------------------------------------------------------------------
(* The order of the list.                                                   *)
InOrder(list, a, b) ==
    \E i, j \in 1 .. Len(list) : i <= j /\ list[i] = a /\ list[j] = b

(* Windows, each once.                                                      *)
EachOnce(list) == list \in Seq(Windows) /\ IsInjective(list)

LEMMA ListFacts ==
    ASSUME NEW list, EachOnce(list)
    PROVE  /\ list \in Seq(Windows) /\ IsInjective(list) /\ Len(list) \in Nat
           /\ Range(list) \subseteq Windows
           /\ \A i \in 1 .. Len(list) : list[i] \in Windows /\ list[i] \in Range(list)
           /\ \A a \in Range(list) : \E i \in 1 .. Len(list) : list[i] = a
           /\ \A i, j \in 1 .. Len(list) : list[i] = list[j] => i = j
<1>1. list \in Seq(Windows) /\ IsInjective(list)
  BY DEF EachOnce
<1>2. Len(list) \in Nat /\ DOMAIN list = 1 .. Len(list)
  BY <1>1
<1>3. Range(list) = {list[i] : i \in 1 .. Len(list)}
  BY <1>1, RangeEquality
<1>4. \A i \in 1 .. Len(list) : list[i] \in Windows
  BY <1>1
<1> QED BY <1>1, <1>2, <1>3, <1>4 DEF IsInjective

LEMMA OrderListed ==
    ASSUME NEW list, EachOnce(list), NEW a, NEW b, InOrder(list, a, b)
    PROVE  a \in Range(list) /\ b \in Range(list)
  BY ListFacts DEF InOrder

LEMMA OrderTotal ==
    ASSUME NEW list, EachOnce(list), NEW a \in Range(list), NEW b \in Range(list)
    PROVE  InOrder(list, a, b) \/ InOrder(list, b, a)
<1>1. PICK i \in 1 .. Len(list) : list[i] = a
  BY ListFacts
<1>2. PICK j \in 1 .. Len(list) : list[j] = b
  BY ListFacts
<1>3. i <= j \/ j <= i
  OBVIOUS
<1> QED BY <1>1, <1>2, <1>3 DEF InOrder

LEMMA OrderOfSelf ==
    ASSUME NEW list, EachOnce(list), NEW a \in Range(list)
    PROVE  InOrder(list, a, a)
  BY OrderTotal

(* A window put in front of all others, or behind them.                     *)
LEMMA PutInFront ==
    ASSUME NEW list, EachOnce(list), NEW w \in Windows \ Range(list)
    PROVE  /\ EachOnce(Append(list, w))
           /\ Range(Append(list, w)) = Range(list) \cup {w}
           /\ \A a, b : InOrder(list, a, b) => InOrder(Append(list, w), a, b)
           /\ \A a, b : InOrder(Append(list, w), a, b) =>
                 InOrder(list, a, b) \/ (b = w)
           /\ \A a \in Range(list) \cup {w} : InOrder(Append(list, w), a, w)
<1> DEFINE t == Append(list, w)
<1>0. list \in Seq(Windows) /\ IsInjective(list) /\ Len(list) \in Nat
  BY ListFacts
<1>1. EachOnce(t) /\ Range(t) = Range(list) \cup {w}
  BY <1>0, AppendedOnce, RangeOfAppend, AppendProperties DEF EachOnce
<1>2. /\ Len(t) = Len(list) + 1 /\ t[Len(list) + 1] = w
      /\ \A i \in 1 .. Len(list) : t[i] = list[i]
  BY <1>0, AppendProperties
<1> HIDE DEF t
<1>3. ASSUME NEW a, NEW b, InOrder(list, a, b) PROVE InOrder(t, a, b)
  <2>1. PICK i \in 1 .. Len(list), j \in 1 .. Len(list) :
           i <= j /\ list[i] = a /\ list[j] = b
    BY <1>3 DEF InOrder
  <2>2. i \in 1 .. Len(t) /\ j \in 1 .. Len(t)
    BY <1>0, <1>2
  <2> QED BY <1>2, <2>1, <2>2 DEF InOrder
<1>4. ASSUME NEW a, NEW b, InOrder(t, a, b), b # w PROVE InOrder(list, a, b)
  <2>1. PICK i \in 1 .. Len(t), j \in 1 .. Len(t) :
           i <= j /\ t[i] = a /\ t[j] = b
    BY <1>4 DEF InOrder
  <2>2. j # Len(list) + 1
    BY <1>2, <1>4, <2>1
  <2>3. j \in 1 .. Len(list) /\ i \in 1 .. Len(list)
    BY <1>0, <1>2, <2>1, <2>2
  <2> QED BY <1>2, <2>1, <2>3 DEF InOrder
<1>5. ASSUME NEW a \in Range(list) \cup {w} PROVE InOrder(t, a, w)
  <2>1. PICK i \in 1 .. Len(t) : t[i] = a
    BY <1>1, ListFacts
  <2>2. i <= Len(list) + 1 /\ Len(list) + 1 \in 1 .. Len(t)
    BY <1>0, <1>2
  <2> QED BY <1>2, <2>1, <2>2 DEF InOrder
<1> QED BY <1>1, <1>3, <1>4, <1>5 DEF t

LEMMA PutBehind ==
    ASSUME NEW list, EachOnce(list), NEW w \in Windows \ Range(list)
    PROVE  /\ EachOnce(<<w>> \o list)
           /\ Range(<<w>> \o list) = Range(list) \cup {w}
           /\ \A a, b : InOrder(list, a, b) => InOrder(<<w>> \o list, a, b)
           /\ \A a, b : InOrder(<<w>> \o list, a, b) =>
                 InOrder(list, a, b) \/ (a = w)
<1> DEFINE t == <<w>> \o list
<1>0. list \in Seq(Windows) /\ IsInjective(list) /\ Len(list) \in Nat
  BY ListFacts
<1>a. <<w>> \in Seq(Windows) /\ Len(<<w>>) = 1 /\ <<w>>[1] = w
  OBVIOUS
<1>1. t \in Seq(Windows) /\ Range(t) = Range(list) \cup {w}
  <2>1. t \in Seq(Windows) /\ Range(t) = Range(<<w>>) \cup Range(list)
    BY ONLY <1>0, <1>a, RangeOfConcat
  <2>2. Range(<<w>>) = {w}
    BY RangeOfOne
  <2> HIDE DEF t
  <2> QED BY <2>1, <2>2
<1>2. /\ Len(t) = Len(list) + 1 /\ t[1] = w
      /\ \A i \in 1 .. Len(list) : t[i + 1] = list[i]
  <2>1. /\ Len(t) = 1 + Len(list)
        /\ \A i \in 1 .. (1 + Len(list)) :
              t[i] = IF i <= 1 THEN <<w>>[i] ELSE list[i - 1]
    BY <1>0, <1>a, ConcatProperties
  <2>2. ASSUME NEW i \in 1 .. Len(list) PROVE t[i + 1] = list[i]
    <3>1. i + 1 \in 1 .. (1 + Len(list)) /\ ~(i + 1 <= 1) /\ (i + 1) - 1 = i
      BY <1>0
    <3> HIDE DEF t
    <3>2. t[i + 1] = list[(i + 1) - 1]
      BY <2>1, <3>1
    <3> QED BY <3>1, <3>2
  <2>3. t[1] = w
    BY <1>0, <1>a, <2>1
  <2> HIDE DEF t
  <2> QED BY <1>0, <2>1, <2>2, <2>3
<1> HIDE DEF t
<1>b. \A i \in 1 .. Len(t) : i = 1 \/ (i - 1 \in 1 .. Len(list) /\ t[i] = list[i - 1])
  <2> SUFFICES ASSUME NEW i \in 1 .. Len(t), i # 1
               PROVE  i - 1 \in 1 .. Len(list) /\ t[i] = list[i - 1]
    OBVIOUS
  <2>1. i - 1 \in 1 .. Len(list) /\ (i - 1) + 1 = i
    BY <1>0, <1>2
  <2>2. t[(i - 1) + 1] = list[i - 1]
    BY <1>2, <2>1
  <2> QED BY <2>1, <2>2
<1>c. IsInjective(t)
  <2>1. DOMAIN t = 1 .. Len(t)
    BY <1>1
  <2> SUFFICES ASSUME NEW i \in 1 .. Len(t), NEW j \in 1 .. Len(t), t[i] = t[j]
               PROVE  i = j
    BY <2>1 DEF IsInjective
  <2>2. \A k \in 1 .. Len(list) : list[k] # w
    BY ListFacts
  <2>3. CASE i = 1 \/ j = 1
    BY <1>b, <1>2, <2>2, <2>3
  <2>4. CASE i # 1 /\ j # 1
    <3>1. /\ i - 1 \in 1 .. Len(list) /\ j - 1 \in 1 .. Len(list)
          /\ list[i - 1] = list[j - 1]
      BY <1>b, <2>4
    <3>2. i - 1 = j - 1
      BY <3>1, ListFacts
    <3> QED BY <3>2
  <2> QED BY <2>3, <2>4
<1>3. ASSUME NEW a, NEW b, InOrder(list, a, b) PROVE InOrder(t, a, b)
  <2>1. PICK i \in 1 .. Len(list), j \in 1 .. Len(list) :
           i <= j /\ list[i] = a /\ list[j] = b
    BY <1>3 DEF InOrder
  <2>2. i + 1 \in 1 .. Len(t) /\ j + 1 \in 1 .. Len(t) /\ i + 1 <= j + 1
    BY <1>0, <1>2, <2>1
  <2>3. t[i + 1] = a /\ t[j + 1] = b
    BY <1>2, <2>1
  <2> QED BY <2>2, <2>3 DEF InOrder
<1>4. ASSUME NEW a, NEW b, InOrder(t, a, b), a # w PROVE InOrder(list, a, b)
  <2>1. PICK i \in 1 .. Len(t), j \in 1 .. Len(t) :
           i <= j /\ t[i] = a /\ t[j] = b
    BY <1>4 DEF InOrder
  <2>2. i # 1 /\ j # 1
    BY <1>2, <1>4, <2>1
  <2>3. i - 1 <= j - 1
    BY <2>1
  <2> QED BY <1>b, <2>1, <2>2, <2>3 DEF InOrder
<1> QED BY <1>1, <1>c, <1>3, <1>4 DEF t, EachOnce

(* The others keep their order when one is taken out.                       *)
LEMMA TakenOut ==
    ASSUME NEW list, EachOnce(list), NEW w \in Range(list)
    PROVE  /\ EachOnce(RemoveFirst(list, w))
           /\ Range(RemoveFirst(list, w)) = Range(list) \ {w}
           /\ \A a, b : InOrder(list, a, b) /\ a # w /\ b # w
                 => InOrder(RemoveFirst(list, w), a, b)
           /\ \A a, b : InOrder(RemoveFirst(list, w), a, b) => InOrder(list, a, b)
<1>0. list \in Seq(Windows) /\ IsInjective(list) /\ Len(list) \in Nat
  BY ListFacts
<1> DEFINE t == RemoveFirst(list, w)
<1>1. t \in Seq(Windows) /\ IsInjective(t) /\ Range(t) = Range(list) \ {w}
  BY <1>0, RemovedFirst
<1>2. PICK i \in 1 .. Len(list) : list[i] = w
  BY ListFacts
<1>3. t = RemoveAt(list, i)
  <2>1. SelectInSeq(list, LAMBDA v : v = w) = i
    <3>1. {j \in 1 .. Len(list) : list[j] = w} = {i}
      BY <1>2, ListFacts
    <3>2. Min({i}) = i
      BY DEF Min
    <3> QED BY <3>1, <3>2 DEF SelectInSeq
  <2> QED BY <1>2, <2>1 DEF RemoveFirst
<1>4. /\ Len(t) = Len(list) - 1
      /\ \A j \in 1 .. (Len(list) - 1) :
            t[j] = IF j < i THEN list[j] ELSE list[j + 1]
  BY <1>0, <1>3, RemoveAtProperties
<1> HIDE DEF t
<1> DEFINE To(j) == IF j < i THEN j ELSE j - 1
           From(j) == IF j < i THEN j ELSE j + 1
<1>5. \A j \in 1 .. Len(list) : j # i => To(j) \in 1 .. Len(t) /\ t[To(j)] = list[j]
  <2> SUFFICES ASSUME NEW j \in 1 .. Len(list), j # i
               PROVE  To(j) \in 1 .. Len(t) /\ t[To(j)] = list[j]
    OBVIOUS
  <2>1. CASE j < i
    BY <1>0, <1>4, <2>1
  <2>2. CASE ~(j < i)
    <3>1. /\ j - 1 \in 1 .. (Len(list) - 1) /\ ~(j - 1 < i) /\ (j - 1) + 1 = j
          /\ To(j) = j - 1
      BY <1>0, <2>2
    <3> HIDE DEF To
    <3> QED BY <1>4, <3>1
  <2> QED BY <2>1, <2>2
<1>6. \A j \in 1 .. Len(t) : From(j) \in 1 .. Len(list) /\ t[j] = list[From(j)]
  BY <1>0, <1>4
<1>7. ASSUME NEW a, NEW b, InOrder(list, a, b), a # w, b # w
      PROVE  InOrder(t, a, b)
  <2>1. PICK j \in 1 .. Len(list), k \in 1 .. Len(list) :
           j <= k /\ list[j] = a /\ list[k] = b
    BY <1>7 DEF InOrder
  <2>2. j # i /\ k # i
    BY <1>2, <1>7, <2>1
  <2>3. To(j) <= To(k)
    BY <2>1, <2>2
  <2>4. /\ To(j) \in 1 .. Len(t) /\ t[To(j)] = a
        /\ To(k) \in 1 .. Len(t) /\ t[To(k)] = b
    <3> HIDE DEF To
    <3> QED BY <1>5, <2>1, <2>2
  <2> HIDE DEF To
  <2> QED BY <2>3, <2>4 DEF InOrder
<1>8. ASSUME NEW a, NEW b, InOrder(t, a, b) PROVE InOrder(list, a, b)
  <2>1. PICK j \in 1 .. Len(t), k \in 1 .. Len(t) :
           j <= k /\ t[j] = a /\ t[k] = b
    BY <1>8 DEF InOrder
  <2>2. From(j) <= From(k)
    BY <2>1
  <2>3. /\ From(j) \in 1 .. Len(list) /\ list[From(j)] = a
        /\ From(k) \in 1 .. Len(list) /\ list[From(k)] = b
    <3> HIDE DEF From
    <3> QED BY <1>6, <2>1
  <2> HIDE DEF From
  <2> QED BY <2>2, <2>3 DEF InOrder
<1> QED BY <1>1, <1>7, <1>8 DEF t, EachOnce

(* The place of a window in the list.                                       *)
LEMMA DepthInOrder ==
    ASSUME EachOnce(windows), NULL \notin Windows, NEW a, NEW b,
           InOrder(windows, a, b)
    PROVE  Depth(b) >= Depth(a)
<1>1. ASSUME NEW i \in 1 .. Len(windows) PROVE Depth(windows[i]) = i
  <2>1. {j \in 1 .. Len(windows) : windows[j] = windows[i]} = {i}
    BY ListFacts
  <2>2. Min({i}) = i
    BY DEF Min
  <2>3. windows[i] # NULL
    BY ListFacts
  <2> QED BY <2>1, <2>2, <2>3 DEF Depth, SelectInSeq
<1> QED BY <1>1 DEF InOrder

-----------------------------------------------------------------------------
(* Drawing.  What is drawn at x is of the window in front of all those that *)
(* cover x, or of the background.                                           *)
Covers(b, x) ==
    ~b.hidden /\ (x \in Inside(b) \/ (x \in Edges(b) /\ b.showBorder))

Look(w, b, x) == IF x \in Inside(b) THEN Content(w, b, x) ELSE Border(w)

LEMMA RectDrawn ==
    ASSUME NEW px, NEW w, NEW b, NEW cells, NEW x \in Screen
    PROVE  RenderWindowRect(px, w, b, cells)[x] =
              IF x \in cells /\ Covers(b, x) THEN Look(w, b, x) ELSE px[x]
  BY DEF RenderWindowRect, Covers, Look

(* The windows of a list, from the back to the front.                       *)
DrawWindow(px, list, blocks, cells, i) ==
    RenderWindowRect(px, list[i], blocks[list[i]], cells)

DrawWindows(px, list, blocks, cells) ==
    FoldLeft(LAMBDA p, w : RenderWindowRect(p, w, blocks[w], cells), px, list)

(* x as the windows at the places in s leave it.                            *)
Over(list, blocks, x, s) == {k \in s : Covers(blocks[list[k]], x)}

Uppermost(px, list, blocks, cells, x, s) ==
    IF x \in cells /\ Over(list, blocks, x, s) # {}
    THEN LET k == Max(Over(list, blocks, x, s))
         IN  Look(list[k], blocks[list[k]], x)
    ELSE px[x]

LEMMA MaxIsGreatest ==
    ASSUME NEW n \in Nat, NEW s, s \subseteq 1 .. n, s # {}
    PROVE  Max(s) \in s /\ \A k \in s : k <= Max(s)
<1> DEFINE T == {n - k : k \in s}
<1>1. T \subseteq Nat /\ T # {}
  <2>1. \A k \in s : n - k \in Nat
    OBVIOUS
  <2> QED BY <2>1
<1> HIDE DEF T
<1>2. PICK m \in T : \A k \in T : m <= k
  BY <1>1, LeastNatural
<1>3. PICK j \in s : m = n - j
  BY DEF T
<1>4. \A k \in s : j >= k
  <2> SUFFICES ASSUME NEW k \in s PROVE j >= k
    OBVIOUS
  <2>1. n - k \in T
    BY DEF T
  <2>2. n - j <= n - k /\ j \in Nat /\ k \in Nat
    BY <1>2, <1>3, <2>1
  <2> QED BY <2>2
<1>5. \E y \in s : \A k \in s : y >= k
  BY <1>4
<1>6. Max(s) \in s /\ \A k \in s : Max(s) >= k
  BY <1>5 DEF Max
<1>7. \A k \in s : k \in Nat
  OBVIOUS
<1> QED BY <1>6, <1>7

(* The window in front of those at the places in s is drawn last.           *)
IsLast(px, list, blocks, cells, x, s, k) ==
    /\ x \in cells /\ Covers(blocks[list[k]], x) =>
          Uppermost(px, list, blocks, cells, x, s)
             = Look(list[k], blocks[list[k]], x)
    /\ ~(x \in cells /\ Covers(blocks[list[k]], x)) =>
          Uppermost(px, list, blocks, cells, x, s)
             = Uppermost(px, list, blocks, cells, x, s \ {k})

LEMMA LastDrawn ==
    ASSUME NEW list, NEW blocks, NEW cells, NEW px, NEW x,
           NEW k \in Nat, NEW s, k \in s, s \subseteq 1 .. k
    PROVE  IsLast(px, list, blocks, cells, x, s, k)
<1> USE DEF IsLast
<1> DEFINE o == Over(list, blocks, x, s)
<1>1. k \in s /\ \A j \in s : j <= k
  OBVIOUS
<1>2. CASE Covers(blocks[list[k]], x)
  <2>1. k \in o /\ o \subseteq 1 .. k /\ o \subseteq s
    BY <1>1, <1>2 DEF Over
  <2> HIDE DEF o
  <2>2. Max(o) \in o /\ \A j \in o : j <= Max(o)
    BY <2>1, MaxIsGreatest
  <2>3. Max(o) = k
    <3>1. k <= Max(o) /\ Max(o) <= k
      BY <1>1, <2>1, <2>2
    <3>2. k \in 1 .. k /\ Max(o) \in 1 .. k
      BY <2>1, <2>2
    <3> QED BY <3>1, <3>2
  <2>4. Over(list, blocks, x, s) = o
    BY DEF o
  <2>6. Uppermost(px, list, blocks, cells, x, s) =
          IF x \in cells THEN Look(list[k], blocks[list[k]], x) ELSE px[x]
    BY <2>1, <2>3, <2>4 DEF Uppermost
  <2>7. x \notin cells => Uppermost(px, list, blocks, cells, x, s \ {k}) = px[x]
    BY DEF Uppermost
  <2> QED BY <1>2, <2>6, <2>7
<1>3. CASE ~Covers(blocks[list[k]], x)
  <2>1. Over(list, blocks, x, s) = Over(list, blocks, x, s \ {k})
    BY <1>3 DEF Over
  <2> QED BY <1>3, <2>1 DEF Uppermost
<1> QED BY <1>2, <1>3

LEMMA WindowsDrawn ==
    ASSUME NEW list \in Seq(Windows), NEW blocks, NEW cells, NEW px,
           px = [x \in Screen |-> px[x]]
    PROVE  DrawWindows(px, list, blocks, cells) =
              [x \in Screen |-> Uppermost(px, list, blocks, cells, x, DOMAIN list)]
<1> DEFINE D == DOMAIN list
           Eqn(f) == [s \in SUBSET D |->
                         IF s = {} THEN px
                         ELSE RenderWindowRect(f[s \ {Max(s)}], list[Max(s)],
                                               blocks[list[Max(s)]], cells)]
           drawn == CHOOSE f : f = Eqn(f)
           g == [s \in SUBSET D |->
                    [x \in Screen |-> Uppermost(px, list, blocks, cells, x, s)]]
<1>0. PICK n \in Nat : n = Len(list) /\ D = 1 .. n
  OBVIOUS
<1>1. DrawWindows(px, list, blocks, cells) = drawn[D]
  BY DEF DrawWindows, FoldLeft, MapThenFoldSet
<1> HIDE DEF D
<1>2. g = Eqn(g)
  <2> SUFFICES ASSUME NEW s \in SUBSET D
               PROVE  g[s] = Eqn(g)[s]
    OBVIOUS
  <2>1. CASE s = {}
    <3>1. \A x \in Screen : Uppermost(px, list, blocks, cells, x, s) = px[x]
      BY <2>1 DEF Uppermost, Over
    <3> QED BY <2>1, <3>1
  <2>2. CASE s # {}
    <3>1. s \subseteq 1 .. n
      BY <1>0
    <3>2. PICK k : k = Max(s)
      OBVIOUS
    <3> DEFINE before == g[s \ {k}]
               r == RenderWindowRect(before, list[k], blocks[list[k]], cells)
    <3>3. \A x \in Screen :
             before[x] = Uppermost(px, list, blocks, cells, x, s \ {k})
      OBVIOUS
    <3>4. Eqn(g)[s] = r
      <4> HIDE DEF g
      <4> QED BY <2>2, <3>2
    <3>5. g[s] = [x \in Screen |-> Uppermost(px, list, blocks, cells, x, s)]
      OBVIOUS
    <3> HIDE DEF before
    <3>6. r = [x \in Screen |-> r[x]]
      BY DEF RenderWindowRect
    <3>7. ASSUME NEW x \in Screen
          PROVE  r[x] = Uppermost(px, list, blocks, cells, x, s)
      <4>1. r[x] = IF x \in cells /\ Covers(blocks[list[k]], x)
                   THEN Look(list[k], blocks[list[k]], x)
                   ELSE before[x]
        BY RectDrawn
      <4>2. IsLast(px, list, blocks, cells, x, s, k)
        <5>1. k \in s /\ \A j \in s : j <= k
          BY ONLY n \in Nat, <2>2, <3>1, <3>2, MaxIsGreatest
        <5>2. k \in Nat /\ s \subseteq 1 .. k
          BY <3>1, <5>1
        <5> HIDE DEF g, r
        <5> QED BY ONLY <5>1, <5>2, LastDrawn
      <4> HIDE DEF r, g
      <4> QED BY <3>3, <4>1, <4>2 DEF IsLast
    <3> HIDE DEF r, g, Eqn
    <3>8. [x \in Screen |-> r[x]]
            = [x \in Screen |-> Uppermost(px, list, blocks, cells, x, s)]
      BY <3>7
    <3> QED BY <3>4, <3>5, <3>6, <3>8
  <2> QED BY <2>1, <2>2
<1>3. drawn = Eqn(drawn)
  <2>1. \E f : f = Eqn(f)
    BY <1>2
  <2> HIDE DEF Eqn
  <2> QED BY <2>1
<1> HIDE DEF drawn
<1> DEFINE G == {m \in 0 .. n : drawn[1 .. m] = g[1 .. m]}
<1>4. 0 \in G
  <2>1. 1 .. 0 = {} /\ {} \in SUBSET D
    OBVIOUS
  <2>2. drawn[{}] = px
    BY <1>3, <2>1
  <2>3. g[{}] = px
    <3> HIDE DEF g
    <3> QED BY <1>2, <2>1
  <2> HIDE DEF g
  <2> QED BY <2>1, <2>2, <2>3
<1>5. ASSUME NEW m \in 1 .. n, m - 1 \in G PROVE m \in G
  <2> DEFINE s == 1 .. m
  <2>1. s \in SUBSET D /\ s # {} /\ s \subseteq 1 .. n
    BY <1>0
  <2>2. Max(s) = m
    <3>1. Max(s) \in s /\ \A k \in s : k <= Max(s)
      BY <2>1, MaxIsGreatest
    <3>2. m \in s
      OBVIOUS
    <3>3. m <= Max(s)
      <4> HIDE DEF s
      <4> QED BY <3>1, <3>2
    <3>4. PICK k : k = Max(s)
      OBVIOUS
    <3>5. k \in 1 .. m
      BY <3>1, <3>4
    <3> HIDE DEF s
    <3> QED BY <3>3, <3>4, <3>5
  <2>3. s \ {m} = 1 .. (m - 1)
    OBVIOUS
  <2> HIDE DEF s
  <2>4. drawn[s] = RenderWindowRect(drawn[s \ {m}], list[m], blocks[list[m]], cells)
    BY <1>3, <2>1, <2>2
  <2>5. g[s] = RenderWindowRect(g[s \ {m}], list[m], blocks[list[m]], cells)
    <3> HIDE DEF g
    <3> QED BY <1>2, <2>1, <2>2
  <2>6. drawn[s \ {m}] = g[s \ {m}]
    <3> HIDE DEF g
    <3> QED BY <1>5, <2>3
  <2>7. drawn[s] = g[s]
    <3> HIDE DEF g
    <3> QED BY <2>4, <2>5, <2>6
  <2> HIDE DEF g
  <2> QED BY <2>7 DEF s
<1>6. n \in G
  <2> HIDE DEF G
  <2>1. \A m \in 0 .. n : m \in G
    BY ONLY <1>4, <1>5, UpTo, n \in Nat
  <2> QED BY <2>1
<1>7. drawn[D] = g[D]
  <2> HIDE DEF g
  <2> QED BY <1>0, <1>6
<1> QED BY <1>1, <1>7 DEF D

-----------------------------------------------------------------------------
(* Rectangles.                                                              *)
Topmost(p, list, blocks, x) ==
    IF x = Taskbar THEN p = Background
    ELSE \/ /\ p = Background
            /\ \A v \in Range(list) : ~Covers(blocks[v], x)
         \/ \E w \in Range(list) :
               /\ Covers(blocks[w], x) /\ p = Look(w, blocks[w], x)
               /\ \A v \in Range(list) : Covers(blocks[v], x) => InOrder(list, v, w)

Updates(q, px, list, blocks, cells) ==
    /\ q = [x \in Screen |-> q[x]]
    /\ \A x \in Screen : IF x \in cells THEN Topmost(q[x], list, blocks, x)
                         ELSE q[x] = px[x]

LEMMA RectUpdated ==
    ASSUME NEW px, NEW list, EachOnce(list), NEW blocks, NEW cells
    PROVE  Updates(UpdatePointerRect(px, list, blocks, cells), px, list, blocks, cells)
<1> DEFINE cleared == [x \in Screen |-> IF x \in cells THEN Background ELSE px[x]]
           drawn == DrawWindows(cleared, list, blocks, cells)
           q == UpdatePointerRect(px, list, blocks, cells)
<1>1. q = DrawTaskbarRect(drawn, cells)
  BY DEF UpdatePointerRect, DrawWindows
<1>2. cleared = [x \in Screen |-> cleared[x]]
  OBVIOUS
<1>3. \A x \in Screen : cleared[x] = IF x \in cells THEN Background ELSE px[x]
  OBVIOUS
<1>4. list \in Seq(Windows)
  BY ListFacts
<1> HIDE DEF cleared
<1>5. drawn = [x \in Screen |->
                  Uppermost(cleared, list, blocks, cells, x, DOMAIN list)]
  BY <1>2, <1>4, WindowsDrawn
<1> HIDE DEF drawn, q
<1>6. /\ q = [x \in Screen |-> q[x]]
      /\ \A x \in Screen :
            q[x] = IF x \in cells /\ x = Taskbar THEN Background ELSE drawn[x]
  BY <1>1 DEF DrawTaskbarRect
<1>7. \A x \in Screen : drawn[x] = Uppermost(cleared, list, blocks, cells, x, DOMAIN list)
  BY <1>5
<1>8. ASSUME NEW x \in Screen, x \notin cells PROVE q[x] = px[x]
  BY <1>3, <1>6, <1>7, <1>8 DEF Uppermost
<1>9. ASSUME NEW x \in Screen, x \in cells PROVE Topmost(q[x], list, blocks, x)
  <2>1. CASE x = Taskbar
    BY <1>6, <1>9, <2>1 DEF Topmost
  <2>2. CASE x # Taskbar
    <3> DEFINE o == Over(list, blocks, x, DOMAIN list)
    <3>1. DOMAIN list = 1 .. Len(list) /\ Len(list) \in Nat
      BY ListFacts
    <3>2. q[x] = Uppermost(cleared, list, blocks, cells, x, DOMAIN list)
      BY <1>6, <1>7, <2>2
    <3>3. CASE o = {}
      <4>1. q[x] = Background
        BY <1>3, <1>9, <3>2, <3>3 DEF Uppermost
      <4>2. \A v \in Range(list) : ~Covers(blocks[v], x)
        BY <3>1, <3>3, ListFacts DEF Over
      <4> QED BY <2>2, <4>1, <4>2 DEF Topmost
    <3>4. CASE o # {}
      <4>1. PICK k : k = Max(o)
        OBVIOUS
      <4>2. o \subseteq 1 .. Len(list)
        BY <3>1 DEF Over
      <4>3. k \in o /\ \A j \in o : j <= k
        <5> HIDE DEF o
        <5> QED BY <3>1, <3>4, <4>1, <4>2, MaxIsGreatest
      <4>4. q[x] = Look(list[k], blocks[list[k]], x)
        BY <1>9, <3>2, <3>4, <4>1 DEF Uppermost
      <4>5. k \in 1 .. Len(list) /\ Covers(blocks[list[k]], x)
        BY <4>2, <4>3 DEF Over
      <4>6. ASSUME NEW v \in Range(list), Covers(blocks[v], x)
            PROVE  InOrder(list, v, list[k])
        <5>1. PICK j \in 1 .. Len(list) : list[j] = v
          BY ListFacts
        <5>2. j \in o
          BY <3>1, <4>6, <5>1 DEF Over
        <5>3. j <= k
          BY <4>3, <5>2
        <5> QED BY <4>5, <5>1, <5>3 DEF InOrder
      <4>7. list[k] \in Range(list)
        BY <4>5, ListFacts
      <4> QED BY <2>2, <4>4, <4>5, <4>6, <4>7 DEF Topmost
    <3> QED BY <3>3, <3>4
  <2> QED BY <2>1, <2>2
<1> QED BY <1>6, <1>8, <1>9 DEF Updates, q

-----------------------------------------------------------------------------
(* What is right for a pixel p at x when list is the list of windows and    *)
(* blocks are their blocks: it points to where something is, not to one of  *)
(* the windows of B, and not to one behind a window of S that is there.     *)
Pixels == [of : Windows \cup {NULL}, at : Int, framebuffer : 0 .. 1]

InPlace(p, x, list, blocks) ==
    p.of # NULL =>
        /\ p.of \in Range(list)
        /\ \/ x \in Inside(blocks[p.of]) /\ p = Content(p.of, blocks[p.of], x)
           \/ x \in Edges(blocks[p.of]) /\ p = Border(p.of)

InFront(p, x, list, blocks, S, over) ==
    \A w \in S : x \in Inside(blocks[w]) =>
        x = Taskbar \/ p.of \in over \/ InOrder(list, w, p.of)

PixelOK(p, x, list, blocks, B, S, over) ==
    /\ p \in Pixels
    /\ InPlace(p, x, list, blocks)
    /\ p.of \notin B
    /\ InFront(p, x, list, blocks, S, over)

ScreenOK(px, list, blocks, B, S, over) ==
    /\ px = [x \in Screen |-> px[x]]
    /\ \A x \in Screen : PixelOK(px[x], x, list, blocks, B, S, over)

(* Windows of B are hidden, those of S are open and not hidden.             *)
Sorted(list, blocks, B, S) ==
    /\ EachOnce(list)
    /\ blocks \in [Windows -> Blocks]
    /\ B \subseteq Windows /\ \A w \in B : blocks[w].hidden
    /\ S \subseteq Range(list) /\ \A w \in S : ~blocks[w].hidden

LEMMA BlockFacts ==
    ASSUME NEW b \in Blocks
    PROVE  /\ b.position \in Int /\ b.size \in Nat
           /\ b.newPosition \in Int /\ b.newSize \in Nat
           /\ b.hidden \in BOOLEAN /\ b.oldHidden \in BOOLEAN
           /\ b.showBorder \in BOOLEAN /\ b.moveToFront \in BOOLEAN
           /\ b.framebuffer \in 0 .. 1
           /\ Inside(b) = b.position .. (b.position + b.size - 1)
           /\ Edges(b) = {b.position - 1, b.position + b.size}
  BY DEF Blocks, Inside, Edges

LEMMA LookFacts ==
    ASSUME NEW w \in Windows, NEW b \in Blocks, NEW x \in Screen
    PROVE  /\ Look(w, b, x) \in Pixels /\ Look(w, b, x).of = w
           /\ x \in Inside(b) => Look(w, b, x) = Content(w, b, x)
           /\ x \notin Inside(b) => Look(w, b, x) = Border(w)
<1>1. x \in Int /\ b.position \in Int /\ b.framebuffer \in 0 .. 1
  BY BlockFacts, CompositorAssumption DEF Screen
<1>2. Content(w, b, x) \in Pixels /\ Content(w, b, x).of = w
  BY <1>1 DEF Content, Pixels
<1>3. Border(w) \in Pixels /\ Border(w).of = w
  BY DEF Border, Pixels
<1> QED BY <1>2, <1>3 DEF Look

LEMMA BackgroundFacts == Background \in Pixels /\ Background.of = NULL
  BY DEF Background, Pixels

LEMMA TopmostOK ==
    ASSUME NEW list, NEW blocks, NEW B, NEW S, Sorted(list, blocks, B, S),
           NEW over, NEW x \in Screen, NEW p, Topmost(p, list, blocks, x)
    PROVE  PixelOK(p, x, list, blocks, B, S, over)
<1>0. /\ EachOnce(list) /\ blocks \in [Windows -> Blocks] /\ B \subseteq Windows
      /\ \A w \in B : blocks[w].hidden
      /\ S \subseteq Range(list) /\ \A w \in S : ~blocks[w].hidden
      /\ Range(list) \subseteq Windows /\ NULL \notin Windows
  BY ListFacts, CompositorAssumption DEF Sorted
<1>1. CASE x = Taskbar
  BY <1>0, <1>1, BackgroundFacts DEF Topmost, PixelOK, InPlace, InFront
<1>2. CASE /\ x # Taskbar /\ p = Background
           /\ \A v \in Range(list) : ~Covers(blocks[v], x)
  <2>1. \A w \in S : x \notin Inside(blocks[w])
    BY <1>0, <1>2 DEF Covers
  <2> QED BY <1>0, <1>2, <2>1, BackgroundFacts DEF PixelOK, InPlace, InFront
<1>3. ASSUME NEW w \in Range(list), Covers(blocks[w], x),
             p = Look(w, blocks[w], x),
             \A v \in Range(list) : Covers(blocks[v], x) => InOrder(list, v, w)
      PROVE  PixelOK(p, x, list, blocks, B, S, over)
  <2>1. w \in Windows /\ blocks[w] \in Blocks /\ w # NULL
    BY <1>0
  <2>2. /\ p \in Pixels /\ p.of = w
        /\ x \in Inside(blocks[w]) => p = Content(w, blocks[w], x)
        /\ x \notin Inside(blocks[w]) => p = Border(w)
    BY <1>3, <2>1, LookFacts
  <2>3. ~blocks[w].hidden /\ (x \notin Inside(blocks[w]) => x \in Edges(blocks[w]))
    BY <1>3 DEF Covers
  <2>4. InPlace(p, x, list, blocks)
    BY <2>1, <2>2, <2>3 DEF InPlace
  <2>5. p.of \notin B
    BY <1>0, <2>2, <2>3
  <2>6. InFront(p, x, list, blocks, S, over)
    BY <1>0, <1>3, <2>2 DEF InFront, Covers
  <2> QED BY <2>2, <2>4, <2>5, <2>6 DEF PixelOK
<1> QED BY <1>1, <1>2, <1>3 DEF Topmost

(* A rectangle that is updated, while the rest is right.                    *)
LEMMA UpdateOK ==
    ASSUME NEW list, NEW blocks, NEW B, NEW S, Sorted(list, blocks, B, S),
           NEW over, NEW px, NEW cells,
           \A x \in Screen \ cells : PixelOK(px[x], x, list, blocks, B, S, over)
    PROVE  ScreenOK(UpdatePointerRect(px, list, blocks, cells),
                    list, blocks, B, S, over)
<1>1. PICK q : q = UpdatePointerRect(px, list, blocks, cells)
  OBVIOUS
<1>2. Updates(q, px, list, blocks, cells)
  BY <1>1, RectUpdated DEF Sorted
<1>3. ASSUME NEW x \in Screen PROVE PixelOK(q[x], x, list, blocks, B, S, over)
  <2>1. CASE x \in cells
    <3>1. Topmost(q[x], list, blocks, x)
      BY <1>2, <2>1 DEF Updates
    <3> QED BY <3>1, TopmostOK
  <2>2. CASE x \notin cells
    <3>1. q[x] = px[x]
      BY <1>2, <2>2 DEF Updates
    <3> QED BY <2>2, <3>1
  <2> QED BY <2>1, <2>2
<1>4. q = [x \in Screen |-> q[x]]
  BY <1>2 DEF Updates
<1> QED BY <1>1, <1>3, <1>4 DEF ScreenOK

LEMMA BorderOK ==
    ASSUME NEW list, NEW blocks, NEW B, NEW S, Sorted(list, blocks, B, S),
           NEW over, NEW px, ScreenOK(px, list, blocks, B, S, over), NEW w
    PROVE  ScreenOK(UpdateWindowBorder(px, list, blocks, w),
                    list, blocks, B, S, over)
<1>1. \A x \in Screen : PixelOK(px[x], x, list, blocks, B, S, over)
  BY DEF ScreenOK
<1>2. ScreenOK(UpdatePointerRect(px, list, blocks, Edges(blocks[w])),
               list, blocks, B, S, over)
  BY <1>1, UpdateOK
<1> QED BY <1>2 DEF UpdateWindowBorder

LEMMA RenderAllOK ==
    ASSUME NEW list, NEW blocks, NEW B, NEW S, Sorted(list, blocks, B, S), NEW over
    PROVE  ScreenOK(RenderWindows(list, blocks), list, blocks, B, S, over)
<1>1. PICK px : px = [x \in Screen |-> Background]
  OBVIOUS
<1>2. \A x \in Screen \ Screen : PixelOK(px[x], x, list, blocks, B, S, over)
  OBVIOUS
<1>3. ScreenOK(UpdatePointerRect(px, list, blocks, Screen),
               list, blocks, B, S, over)
  BY <1>2, UpdateOK
<1> QED BY <1>1, <1>3 DEF RenderWindows

(* A window that is drawn over all others, and belongs there or is noted.   *)
LEMMA RenderOK ==
    ASSUME NEW list, NEW blocks, NEW B, NEW S, Sorted(list, blocks, B, S),
           NEW over, NEW px, NEW w \in Range(list),
           ScreenOK(px, list, blocks, B, S \ {w}, over),
           w \in over \/ \A v \in Range(list) : InOrder(list, v, w)
    PROVE  ScreenOK(RenderWindow(px, w, blocks[w]), list, blocks, B, S, over)
<1> DEFINE b == blocks[w]
           cells == (b.position - 1) .. (b.position + b.size + 1)
           drawn == RenderWindowRect(px, w, b, cells)
           q == RenderWindow(px, w, b)
<1>0. /\ EachOnce(list) /\ blocks \in [Windows -> Blocks] /\ B \subseteq Windows
      /\ \A v \in B : blocks[v].hidden
      /\ S \subseteq Range(list) /\ \A v \in S : ~blocks[v].hidden
      /\ w \in Windows /\ b \in Blocks /\ NULL \notin Windows
  BY ListFacts, CompositorAssumption DEF Sorted
<1>1. /\ q = [x \in Screen |-> q[x]]
      /\ \A x \in Screen :
            q[x] = IF x \in cells /\ x = Taskbar THEN Background ELSE drawn[x]
  BY DEF RenderWindow, DrawTaskbarRect
<1>2. \A x \in Screen : drawn[x] = IF x \in cells /\ Covers(b, x) THEN Look(w, b, x)
                                   ELSE px[x]
  <2> SUFFICES ASSUME NEW x \in Screen
               PROVE  drawn[x] = IF x \in cells /\ Covers(b, x) THEN Look(w, b, x)
                                 ELSE px[x]
    OBVIOUS
  <2> HIDE DEF b, cells
  <2> QED BY DEF RenderWindowRect, Covers, Look
<1>3. Inside(b) \subseteq cells
  <2>1. /\ Inside(b) = b.position .. (b.position + b.size - 1)
        /\ b.position \in Int /\ b.size \in Nat
    BY <1>0, BlockFacts
  <2> HIDE DEF b
  <2> QED BY <2>1
<1> HIDE DEF b, cells, drawn, q
<1>4. ASSUME NEW x \in Screen PROVE PixelOK(q[x], x, list, blocks, B, S, over)
  <2>0. PixelOK(px[x], x, list, blocks, B, S \ {w}, over)
    BY DEF ScreenOK
  <2>1. CASE x \in cells /\ x = Taskbar
    <3>1. q[x] = Background
      BY <1>1, <2>1
    <3> QED BY <1>0, <2>1, <3>1, BackgroundFacts DEF PixelOK, InPlace, InFront
  <2>2. CASE x \in cells /\ x # Taskbar /\ Covers(b, x)
    <3>1. q[x] = Look(w, b, x)
      BY <1>1, <1>2, <2>2
    <3>2. /\ q[x] \in Pixels /\ q[x].of = w
          /\ x \in Inside(b) => q[x] = Content(w, b, x)
          /\ x \notin Inside(b) => q[x] = Border(w)
      BY <1>0, <3>1, LookFacts
    <3>3. ~b.hidden /\ (x \notin Inside(b) => x \in Edges(b))
      BY <2>2 DEF Covers
    <3>4. InPlace(q[x], x, list, blocks)
      BY <3>2, <3>3 DEF InPlace, b
    <3>5. q[x].of \notin B
      BY <1>0, <3>2, <3>3 DEF b
    <3>6. InFront(q[x], x, list, blocks, S, over)
      BY <1>0, <3>2 DEF InFront
    <3> QED BY <3>2, <3>4, <3>5, <3>6 DEF PixelOK
  <2>3. CASE ~(x \in cells /\ Covers(b, x)) /\ ~(x \in cells /\ x = Taskbar)
    <3>1. q[x] = px[x]
      BY <1>1, <1>2, <2>3
    <3>2. w \in S => x \notin Inside(b)
      BY <1>0, <1>3, <2>3 DEF Covers, b
    <3>3. InFront(px[x], x, list, blocks, S, over)
      BY <2>0, <3>2 DEF PixelOK, InFront, b
    <3> QED BY <2>0, <3>1, <3>3 DEF PixelOK
  <2> QED BY <2>1, <2>2, <2>3
<1> QED BY <1>1, <1>4 DEF ScreenOK, q, b

-----------------------------------------------------------------------------
(* The invariant.  Nothing is seen of windows that are hidden and were at   *)
(* the last update, unless they wait to be raised (the active one waits for *)
(* nothing); and nothing behind those that are settled.                     *)
GoneOf(blocks, active) ==
    {w \in Windows : /\ blocks[w].hidden /\ blocks[w].oldHidden
                     /\ (~blocks[w].moveToFront) \/ w = active}

SettledOf(list, blocks, queue) ==
    {w \in Range(list) : /\ ~blocks[w].hidden /\ ~blocks[w].oldHidden
                         /\ ~blocks[w].moveToFront /\ w \notin Range(queue)}

ScreenInv ==
    ScreenOK(pixels, windows, win, GoneOf(win, activeWindow),
             SettledOf(windows, win, windowsToGetActive), overdrawn)

(* An update notices what is hidden and what is not; what the mouse changes *)
(* behind it makes windows wait to be raised.                               *)
Noticed ==
    /\ pc = "update" => \A k \in 1 .. Len(windows) :
          k < next => win[windows[k]].oldHidden = win[windows[k]].hidden
    /\ pc = "mouse" => \A w \in Range(windows) :
          (~win[w].hidden) => (~win[w].oldHidden) \/ win[w].moveToFront

(* The active window, once raised, has none in front of it that is seen and *)
(* does not wait to be raised in its turn.                                  *)
FrontOK(list, blocks, active, queue) ==
    /\ active \in Range(list)
    /\ ~blocks[active].moveToFront
    /\ active \notin Range(queue)
    => \A v \in Range(list) :
          /\ v # active
          /\ InOrder(list, active, v)
          => blocks[v].hidden \/ blocks[v].moveToFront \/ v \in Range(queue)

Types ==
    /\ EachOnce(windows)
    /\ win \in [Windows -> Blocks]
    /\ \A w \in Range(windows) : win[w].size >= MinSize
    /\ activeWindow \in Windows \cup {NULL}
    /\ windowsToGetActive \in Seq(Windows \cup {NULL})
    /\ pc \in {"tasks", "update", "mouse"} /\ next \in Nat \ {0}
    /\ overdrawn \subseteq Windows /\ inputs \in 0 .. MaxInputs

CompositorInv ==
    /\ Types
    /\ ScreenInv
    /\ Noticed
    /\ FrontOK(windows, win, activeWindow, windowsToGetActive)

LEMMA SortedWindows ==
    ASSUME NEW list, EachOnce(list), NEW blocks \in [Windows -> Blocks],
           NEW active, NEW queue
    PROVE  Sorted(list, blocks, GoneOf(blocks, active), SettledOf(list, blocks, queue))
  BY DEF Sorted, GoneOf, SettledOf

(* A screen stays right when windows are added, and others are neither      *)
(* moved nor newly settled nor newly gone.                                  *)
SamePlace(b, c) ==
    c.position = b.position /\ c.size = b.size /\ c.framebuffer = b.framebuffer

LEMMA PlaceKept ==
    ASSUME NEW b, NEW c, SamePlace(b, c), NEW x, NEW w
    PROVE  /\ Inside(c) = Inside(b) /\ Edges(c) = Edges(b)
           /\ Content(w, c, x) = Content(w, b, x)
  BY DEF SamePlace, Inside, Edges, Content

LEMMA ScreenKept ==
    ASSUME NEW px, NEW list, NEW blocks, NEW B, NEW S, NEW over,
           ScreenOK(px, list, blocks, B, S, over),
           S \subseteq Range(list),
           NEW list2, NEW blocks2, NEW B2, NEW S2, NEW over2,
           Range(list) \subseteq Range(list2),
           \A a \in S2 : \A b : InOrder(list, a, b) => InOrder(list2, a, b),
           \A w \in Range(list) : SamePlace(blocks[w], blocks2[w]),
           B2 \subseteq Windows, B2 \cap Range(list) \subseteq B,
           S2 \subseteq S, over \subseteq over2
    PROVE  ScreenOK(px, list2, blocks2, B2, S2, over2)
<1>1. ASSUME NEW x \in Screen
      PROVE  PixelOK(px[x], x, list2, blocks2, B2, S2, over2)
  <2> DEFINE p == px[x]
  <2>1. /\ p \in Pixels /\ p.of \notin B
        /\ InPlace(p, x, list, blocks) /\ InFront(p, x, list, blocks, S, over)
    BY DEF ScreenOK, PixelOK
  <2> HIDE DEF p
  <2>2. InPlace(p, x, list2, blocks2)
    <3> SUFFICES ASSUME p.of # NULL
                 PROVE  /\ p.of \in Range(list2)
                        /\ \/ x \in Inside(blocks2[p.of]) /\ p = Content(p.of, blocks2[p.of], x)
                           \/ x \in Edges(blocks2[p.of]) /\ p = Border(p.of)
      BY DEF InPlace
    <3>1. /\ p.of \in Range(list)
          /\ \/ x \in Inside(blocks[p.of]) /\ p = Content(p.of, blocks[p.of], x)
             \/ x \in Edges(blocks[p.of]) /\ p = Border(p.of)
      BY <2>1 DEF InPlace
    <3>2. SamePlace(blocks[p.of], blocks2[p.of])
      BY <3>1
    <3>3. /\ Inside(blocks2[p.of]) = Inside(blocks[p.of])
          /\ Edges(blocks2[p.of]) = Edges(blocks[p.of])
          /\ Content(p.of, blocks2[p.of], x) = Content(p.of, blocks[p.of], x)
      BY <3>2, PlaceKept
    <3> QED BY <3>1, <3>3
  <2>3. p.of \notin B2
    <3>1. p.of # NULL => p.of \in Range(list)
      BY <2>1 DEF InPlace
    <3> QED BY <2>1, <3>1, CompositorAssumption
  <2>4. InFront(p, x, list2, blocks2, S2, over2)
    <3> SUFFICES ASSUME NEW w \in S2, x \in Inside(blocks2[w])
                 PROVE  x = Taskbar \/ p.of \in over2 \/ InOrder(list2, w, p.of)
      BY DEF InFront
    <3>1. w \in S /\ SamePlace(blocks[w], blocks2[w])
      OBVIOUS
    <3>2. x \in Inside(blocks[w])
      BY <3>1, PlaceKept
    <3>3. x = Taskbar \/ p.of \in over \/ InOrder(list, w, p.of)
      BY <2>1, <3>1, <3>2 DEF InFront
    <3> QED BY <3>3
  <2> QED BY <2>1, <2>2, <2>3, <2>4 DEF PixelOK, p
<1>2. px = [x \in Screen |-> px[x]]
  BY DEF ScreenOK
<1> QED BY <1>1, <1>2 DEF ScreenOK

LEMMA InvFacts ==
    ASSUME CompositorInv
    PROVE  /\ EachOnce(windows) /\ win \in [Windows -> Blocks]
           /\ Range(windows) \subseteq Windows /\ NULL \notin Windows
           /\ \A w \in Windows : win[w] \in Blocks
           /\ activeWindow \in Windows \cup {NULL}
           /\ windowsToGetActive \in Seq(Windows \cup {NULL})
           /\ overdrawn \subseteq Windows
           /\ ScreenInv
           /\ FrontOK(windows, win, activeWindow, windowsToGetActive)
           /\ SettledOf(windows, win, windowsToGetActive) \subseteq Range(windows)
           /\ Sorted(windows, win, GoneOf(win, activeWindow),
                     SettledOf(windows, win, windowsToGetActive))
           /\ First \in Windows /\ Menu \in Windows
           /\ MinSize \in Nat
  BY ListFacts, SortedWindows, CompositorAssumption
     DEF CompositorInv, Types, SettledOf

LEMMA Places == StartPosition \in Int /\ SidePosition \in Int
<1>1. PICK p \in Positions, q \in Positions : \A r \in Positions : p <= r /\ r <= q
  BY CompositorAssumption
<1>2. Positions \subseteq Int
  BY CompositorAssumption
<1>3. StartPosition \in Positions
  BY <1>1 DEF StartPosition
<1>4. SidePosition \in Positions
  <2>1. \A r \in Positions : q >= r
    BY <1>1, <1>2
  <2> QED BY <1>1, <2>1 DEF SidePosition
<1> QED BY <1>2, <1>3, <1>4

-----------------------------------------------------------------------------
(* Between two frames.                                                      *)
LEMMA InputCounted ==
    ASSUME inputs \in 0 .. MaxInputs, Input
    PROVE  inputs' \in 0 .. MaxInputs
  BY CompositorAssumption DEF Input

LEMMA ChangeWindowKeeps ==
    ASSUME CompositorInv, NEW w \in Windows, ChangeWindow(w)
    PROVE  CompositorInv'
<1>1. PICK pos \in Positions, size \in Sizes :
         win' = [win EXCEPT ![w].newPosition = pos, ![w].newSize = size,
                            ![w].showBorder = size # Maximized]
  BY DEF ChangeWindow
<1>2. /\ Input /\ pc = "tasks" /\ pc' = "tasks" /\ next' = next
      /\ windows' = windows /\ pixels' = pixels /\ activeWindow' = activeWindow
      /\ windowsToGetActive' = windowsToGetActive /\ overdrawn' = overdrawn
  BY DEF ChangeWindow, Between
<1>3. pos \in Int /\ size \in Nat
  BY CompositorAssumption
<1>4. /\ win' \in [Windows -> Blocks]
      /\ \A v \in Windows :
            /\ SamePlace(win[v], win'[v])
            /\ win'[v].hidden = win[v].hidden /\ win'[v].oldHidden = win[v].oldHidden
            /\ win'[v].moveToFront = win[v].moveToFront
  <2>1. win \in [Windows -> Blocks] /\ win[w] \in Blocks
    BY InvFacts
  <2>2. /\ DOMAIN win' = Windows /\ \A v \in Windows \ {w} : win'[v] = win[v]
        /\ win'[w] = [[[win[w] EXCEPT !.newPosition = pos] EXCEPT !.newSize = size]
                         EXCEPT !.showBorder = (size # Maximized)]
    BY <1>1, <2>1
  <2>3. /\ win'[w] \in Blocks /\ SamePlace(win[w], win'[w])
        /\ win'[w].hidden = win[w].hidden /\ win'[w].oldHidden = win[w].oldHidden
        /\ win'[w].moveToFront = win[w].moveToFront
    BY <1>3, <2>1, <2>2 DEF Blocks, SamePlace
  <2>4. win' \in [Windows -> Blocks]
    BY <1>1, <2>1, <2>2, <2>3
  <2> QED BY <2>2, <2>3, <2>4 DEF SamePlace
<1>5. /\ GoneOf(win', activeWindow) = GoneOf(win, activeWindow)
      /\ SettledOf(windows, win', windowsToGetActive)
            = SettledOf(windows, win, windowsToGetActive)
  BY <1>4, InvFacts DEF GoneOf, SettledOf
<1>6. Types'
  <2>1. \A v \in Range(windows) : win'[v].size >= MinSize
    BY <1>4, InvFacts DEF CompositorInv, Types, SamePlace
  <2> QED BY <1>2, <1>4, <2>1, InputCounted DEF CompositorInv, Types
<1>7. ScreenInv'
  <2>1. ScreenOK(pixels, windows, win', GoneOf(win, activeWindow),
                 SettledOf(windows, win, windowsToGetActive), overdrawn)
    <3>1. \A v \in Range(windows) : SamePlace(win[v], win'[v])
      BY <1>4, InvFacts
    <3> QED BY <3>1, InvFacts, ScreenKept DEF ScreenInv, GoneOf
  <2> QED BY <1>2, <1>5, <2>1 DEF ScreenInv
<1>8. FrontOK(windows, win', activeWindow, windowsToGetActive)
  BY <1>4, InvFacts DEF FrontOK
<1> QED BY <1>2, <1>6, <1>7, <1>8 DEF CompositorInv, Noticed

(* A window that is opened waits to be raised, unless it is hidden.         *)
LEMMA OpenKeeps ==
    ASSUME CompositorInv, NEW w \in Windows, NEW list,
           NEW hide \in BOOLEAN, NEW oldHide \in BOOLEAN,
           OpenAt(w, list, hide, oldHide), activeWindow' = activeWindow,
           list = Append(windows, w) \/ list = <<w>> \o windows,
           \/ windowsToGetActive' = Append(windowsToGetActive, w)
           \/ /\ hide = TRUE /\ windowsToGetActive' = windowsToGetActive
              /\ list = Append(windows, w)
    PROVE  CompositorInv'
<1>1. /\ Input /\ pc = "tasks" /\ pc' = "tasks" /\ next' = next
      /\ windows' = list /\ pixels' = pixels /\ overdrawn' = overdrawn
      /\ w \in Windows \ Range(windows)
      /\ win' = [win EXCEPT ![w] = Window(StartPosition, MinSize, hide, oldHide)]
  BY DEF OpenAt, Between, Listed
<1>2. /\ EachOnce(list) /\ Range(list) = Range(windows) \cup {w}
      /\ \A a, b : InOrder(windows, a, b) => InOrder(list, a, b)
      /\ \A a, b : InOrder(list, a, b) => InOrder(windows, a, b) \/ a = w \/ b = w
      /\ list = Append(windows, w) =>
            \A a, b : InOrder(list, a, b) => InOrder(windows, a, b) \/ b = w
  <2>1. EachOnce(windows) /\ w \in Windows \ Range(windows)
    BY <1>1, InvFacts
  <2>2. CASE list = Append(windows, w)
    BY <2>1, <2>2, PutInFront
  <2>3. CASE list = <<w>> \o windows
    <3>1. /\ EachOnce(list) /\ Range(list) = Range(windows) \cup {w}
          /\ \A a, b : InOrder(windows, a, b) => InOrder(list, a, b)
          /\ \A a, b : InOrder(list, a, b) => InOrder(windows, a, b) \/ a = w
      BY <2>1, <2>3, PutBehind
    <3>2. list = Append(windows, w) =>
            \A a, b : InOrder(list, a, b) => InOrder(windows, a, b) \/ b = w
      BY <2>1, PutInFront
    <3> QED BY <3>1, <3>2
  <2> QED BY <2>2, <2>3
<1>3. /\ win' \in [Windows -> Blocks] /\ win'[w].size = MinSize
      /\ win'[w].hidden = hide /\ win'[w].oldHidden = oldHide
      /\ win'[w].moveToFront = FALSE
      /\ \A v \in Windows : v # w => win'[v] = win[v]
  <2>1. PICK b : b = Window(StartPosition, MinSize, hide, oldHide)
    OBVIOUS
  <2>2. /\ b \in Blocks /\ b.size = MinSize /\ b.hidden = hide /\ b.oldHidden = oldHide
        /\ b.moveToFront = FALSE
    BY <2>1, Places, CompositorAssumption DEF Window, Blocks
  <2>3. win' = [win EXCEPT ![w] = b]
    BY <1>1, <2>1
  <2>4. win \in [Windows -> Blocks]
    BY InvFacts
  <2>5. win' \in [Windows -> Blocks] /\ win'[w] = b
    BY <2>2, <2>3, <2>4
  <2>6. \A v \in Windows : v # w => win'[v] = win[v]
    BY <2>3, <2>4
  <2> QED BY <2>2, <2>5, <2>6
<1>4. /\ windowsToGetActive' \in Seq(Windows \cup {NULL})
      /\ Range(windowsToGetActive) \subseteq Range(windowsToGetActive')
      /\ Range(windowsToGetActive') \subseteq Range(windowsToGetActive) \cup {w}
      /\ w \in Range(windowsToGetActive') \/ (hide = TRUE /\ list = Append(windows, w))
  <2>1. windowsToGetActive \in Seq(Windows \cup {NULL}) /\ w \in Windows \cup {NULL}
    BY InvFacts
  <2>2. /\ Append(windowsToGetActive, w) \in Seq(Windows \cup {NULL})
        /\ Range(Append(windowsToGetActive, w)) = Range(windowsToGetActive) \cup {w}
    BY <2>1, RangeOfAppend, AppendProperties
  <2> QED BY <2>1, <2>2
<1>5. Types'
  <2>1. \A v \in Range(windows') : win'[v].size >= MinSize
    <3>1. \A v \in Range(windows) : win[v].size >= MinSize /\ v \in Windows /\ v # w
      BY <1>1, InvFacts DEF CompositorInv, Types
    <3>2. win'[w].size >= MinSize
      BY <1>3, InvFacts
    <3> QED BY <1>1, <1>2, <1>3, <3>1, <3>2
  <2> QED BY <1>1, <1>2, <1>3, <1>4, <2>1, InputCounted DEF CompositorInv, Types
<1>6. ScreenInv'
  <2> DEFINE B == GoneOf(win', activeWindow)
             S == SettledOf(list, win', windowsToGetActive')
  <2>1. \A v \in Range(windows) : v # w /\ v \in Windows /\ win'[v] = win[v]
    BY <1>1, <1>3, InvFacts
  <2>2. B \subseteq Windows /\ B \cap Range(windows) \subseteq GoneOf(win, activeWindow)
    BY <2>1 DEF GoneOf
  <2>3. S \subseteq SettledOf(windows, win, windowsToGetActive)
    <3>1. w \notin S
      BY <1>3, <1>4 DEF SettledOf
    <3> QED BY <1>2, <1>4, <2>1, <3>1 DEF SettledOf
  <2>4. \A v \in Range(windows) : SamePlace(win[v], win'[v])
    BY <2>1 DEF SamePlace
  <2> HIDE DEF B, S
  <2>5. ScreenOK(pixels, list, win', B, S, overdrawn)
    <3>1. \A a \in S : \A b : InOrder(windows, a, b) => InOrder(list, a, b)
      BY <1>2
    <3>2. Range(windows) \subseteq Range(list)
      BY <1>2
    <3> QED BY <3>1, <3>2, <2>2, <2>3, <2>4, InvFacts, ScreenKept DEF ScreenInv
  <2> QED BY <1>1, <2>5 DEF ScreenInv, B, S
<1>7. FrontOK(list, win', activeWindow, windowsToGetActive')
  <2> SUFFICES ASSUME activeWindow \in Range(list), ~win'[activeWindow].moveToFront,
                      activeWindow \notin Range(windowsToGetActive'),
                      NEW v \in Range(list), v # activeWindow,
                      InOrder(list, activeWindow, v)
               PROVE  \/ win'[v].hidden \/ win'[v].moveToFront
                      \/ v \in Range(windowsToGetActive')
    BY DEF FrontOK
  <2>1. CASE v = w
    BY <1>3, <1>4, <2>1
  <2>2. CASE v # w /\ activeWindow = w
    <3>1. list = Append(windows, w)
      BY <1>4, <2>2
    <3>2. InOrder(windows, w, v)
      BY <1>2, <2>2, <3>1
    <3> QED BY <1>1, <3>2, InvFacts, OrderListed
  <2>3. CASE v # w /\ activeWindow # w
    <3>1. InOrder(windows, activeWindow, v)
      BY <1>2, <2>3
    <3>2. /\ activeWindow \in Range(windows) /\ v \in Range(windows)
          /\ win'[activeWindow] = win[activeWindow] /\ win'[v] = win[v]
          /\ activeWindow \notin Range(windowsToGetActive)
      BY <1>2, <1>3, <1>4, <2>3, InvFacts
    <3> QED BY <1>4, <3>1, <3>2, InvFacts DEF FrontOK
  <2> QED BY <2>1, <2>2, <2>3
<1> QED BY <1>1, <1>5, <1>6, <1>7 DEF CompositorInv, Noticed

LEMMA OpeningKeeps ==
    ASSUME CompositorInv, NEW w \in Windows, NEW hide \in BOOLEAN,
           OpenTerminal(w, hide) \/ OpenNewWindow(w) \/ OpenApplication(w)
    PROVE  CompositorInv'
<1>1. CASE OpenTerminal(w, hide)
  <2>1. PICK list : list = Append(windows, w)
    OBVIOUS
  <2>2. /\ OpenAt(w, list, hide, ~hide) /\ activeWindow' = activeWindow
        /\ windowsToGetActive' =
              IF hide THEN windowsToGetActive ELSE Append(windowsToGetActive, w)
    BY <1>1, <2>1 DEF OpenTerminal
  <2>3. CASE hide = TRUE
    <3>1. OpenAt(w, list, TRUE, FALSE)
      <4>1. (~hide) = FALSE
        BY <2>3
      <4> QED BY <2>2, <2>3, <4>1 DEF OpenAt
    <3>2. windowsToGetActive' = windowsToGetActive
      BY <2>2, <2>3
    <3> QED BY <2>1, <2>2, <3>1, <3>2, OpenKeeps
  <2>4. CASE hide = FALSE
    <3>1. OpenAt(w, list, FALSE, TRUE)
      <4>1. (~hide) = TRUE
        BY <2>4
      <4> QED BY <2>2, <2>4, <4>1 DEF OpenAt
    <3>2. windowsToGetActive' = Append(windowsToGetActive, w)
      BY <2>2, <2>4
    <3> QED BY <2>1, <2>2, <3>1, <3>2, OpenKeeps
  <2> QED BY <2>3, <2>4
<1>2. CASE OpenNewWindow(w)
  <2>1. /\ OpenAt(w, Append(windows, w), FALSE, FALSE)
        /\ activeWindow' = activeWindow
        /\ windowsToGetActive' = Append(windowsToGetActive, w)
    BY <1>2 DEF OpenNewWindow
  <2> QED BY <2>1, OpenKeeps
<1>3. CASE OpenApplication(w)
  <2>1. /\ OpenAt(w, <<w>> \o windows, FALSE, TRUE)
        /\ activeWindow' = activeWindow
        /\ windowsToGetActive' = Append(windowsToGetActive, w)
    BY <1>3 DEF OpenApplication
  <2> QED BY <2>1, OpenKeeps
<1> QED BY <1>1, <1>2, <1>3

LEMMA GetActiveKeeps ==
    ASSUME CompositorInv, NEW w \in Windows \cup {NULL}, GetActive(w)
    PROVE  CompositorInv'
<1>1. /\ Input /\ pc = "tasks" /\ pc' = "tasks" /\ next' = next
      /\ windows' = windows /\ win' = win /\ pixels' = pixels
      /\ activeWindow' = activeWindow /\ overdrawn' = overdrawn
      /\ windowsToGetActive' = Append(windowsToGetActive, w)
  BY DEF GetActive, Between
<1>2. /\ windowsToGetActive' \in Seq(Windows \cup {NULL})
      /\ Range(windowsToGetActive') = Range(windowsToGetActive) \cup {w}
  BY <1>1, InvFacts, RangeOfAppend, AppendProperties
<1>3. Types'
  BY <1>1, <1>2, InputCounted DEF CompositorInv, Types
<1>4. ScreenInv'
  <2> DEFINE B == GoneOf(win, activeWindow)
             S == SettledOf(windows, win, windowsToGetActive')
  <2>1. B \subseteq Windows
    BY DEF GoneOf
  <2>2. S \subseteq SettledOf(windows, win, windowsToGetActive)
    BY <1>2 DEF SettledOf
  <2>3. \A v \in Range(windows) : SamePlace(win[v], win[v])
    BY DEF SamePlace
  <2>4. ScreenOK(pixels, windows, win, B, SettledOf(windows, win, windowsToGetActive),
                 overdrawn)
    BY InvFacts DEF ScreenInv
  <2> HIDE DEF B, S
  <2>5. ScreenOK(pixels, windows, win, B, S, overdrawn)
    BY <2>1, <2>2, <2>3, <2>4, InvFacts, ScreenKept
  <2> QED BY <1>1, <2>5 DEF ScreenInv, B, S
<1>5. FrontOK(windows, win, activeWindow, windowsToGetActive')
  BY <1>2, InvFacts DEF FrontOK
<1> QED BY <1>1, <1>3, <1>4, <1>5 DEF CompositorInv, Noticed

(* A closed window leaves no pixel: all of them are in its rectangle.       *)
LEMMA InCloseRect ==
    ASSUME NEW p, NEW x, NEW list, NEW blocks, NEW w, p.of = w, w # NULL,
           InPlace(p, x, list, blocks), blocks[w] \in Blocks
    PROVE  x \in CloseRect(blocks[w])
<1>1. x \in Inside(blocks[w]) \/ x \in Edges(blocks[w])
  BY DEF InPlace
<1>2. PICK b \in Blocks : b = blocks[w]
  OBVIOUS
<1>3. b.position \in Int /\ b.size \in Nat
  BY BlockFacts
<1>4. Inside(b) \subseteq CloseRect(b) /\ Edges(b) \subseteq CloseRect(b)
  BY <1>3 DEF Inside, Edges, CloseRect
<1> QED BY <1>1, <1>2, <1>4

LEMMA CloseKeeps ==
    ASSUME CompositorInv, NEW w \in Windows, Close(w)
    PROVE  CompositorInv'
<1> DEFINE rest == RemoveFirst(windows, w)
<1>1. /\ Input /\ pc = "tasks" /\ pc' = "tasks" /\ next' = next
      /\ w \in Range(windows) /\ windows' = rest /\ win' = win
      /\ pixels' = UpdatePointerRect(pixels, rest, win, CloseRect(win[w]))
      /\ activeWindow' = (IF w = activeWindow THEN NULL ELSE activeWindow)
      /\ overdrawn' = overdrawn \ {w}
      /\ windowsToGetActive' = windowsToGetActive
  BY DEF Close, Between, Listed, UpdatedAfterClose
<1>2. /\ EachOnce(rest) /\ Range(rest) = Range(windows) \ {w}
      /\ \A a, b : InOrder(windows, a, b) /\ a # w /\ b # w => InOrder(rest, a, b)
      /\ \A a, b : InOrder(rest, a, b) => InOrder(windows, a, b)
  BY <1>1, InvFacts, TakenOut
<1> HIDE DEF rest
<1>3. Types'
  BY <1>1, <1>2, InvFacts, InputCounted DEF CompositorInv, Types
<1>4. ScreenInv'
  <2> DEFINE B == GoneOf(win, activeWindow')
             S == SettledOf(rest, win, windowsToGetActive)
  <2>1. Sorted(rest, win, B, S)
    BY <1>2, InvFacts, SortedWindows
  <2>2. ASSUME NEW x \in Screen \ CloseRect(win[w])
        PROVE  PixelOK(pixels[x], x, rest, win, B, S, overdrawn')
    <3> DEFINE p == pixels[x]
    <3>1. /\ p \in Pixels /\ p.of \notin GoneOf(win, activeWindow)
          /\ InPlace(p, x, windows, win)
          /\ InFront(p, x, windows, win, SettledOf(windows, win, windowsToGetActive),
                     overdrawn)
      BY InvFacts DEF ScreenInv, ScreenOK, PixelOK
    <3> HIDE DEF p
    <3>2. p.of # w
      BY <1>1, <3>1, InvFacts, InCloseRect
    <3>3. InPlace(p, x, rest, win)
      BY <1>2, <3>1, <3>2 DEF InPlace
    <3>4. p.of \notin B
      BY <1>1, <3>1, <3>2, InvFacts DEF GoneOf
    <3>5. InFront(p, x, rest, win, S, overdrawn')
      <4> SUFFICES ASSUME NEW v \in S, x \in Inside(win[v])
                   PROVE  x = Taskbar \/ p.of \in overdrawn' \/ InOrder(rest, v, p.of)
        BY DEF InFront
      <4>1. v \in SettledOf(windows, win, windowsToGetActive) /\ v # w
        BY <1>2 DEF SettledOf
      <4> QED BY <1>1, <1>2, <3>1, <3>2, <4>1 DEF InFront
    <3> QED BY <3>1, <3>3, <3>4, <3>5 DEF PixelOK, p
  <2> HIDE DEF B, S
  <2>3. ScreenOK(UpdatePointerRect(pixels, rest, win, CloseRect(win[w])),
                 rest, win, B, S, overdrawn')
    BY <2>1, <2>2, UpdateOK
  <2> QED BY <1>1, <2>3 DEF ScreenInv, B, S
<1>5. FrontOK(rest, win, activeWindow', windowsToGetActive)
  BY <1>1, <1>2, InvFacts DEF FrontOK
<1> QED BY <1>1, <1>3, <1>4, <1>5 DEF CompositorInv, Noticed

-----------------------------------------------------------------------------
(* The command that resizes a window, faults, and the whole screen.         *)
LEMMA Fits ==
    ASSUME NEW b \in Blocks, b.size >= MinSize, NEW size \in Nat, NEW memory \in BOOLEAN,
           NEW c, c = Resized(b, size, memory)
    PROVE  /\ c \in Blocks /\ c.size >= MinSize /\ c.position = b.position
           /\ c.hidden = b.hidden /\ c.oldHidden = b.oldHidden
           /\ c.moveToFront = b.moveToFront /\ c.newPosition = b.newPosition
<1>0. MinSize \in Nat
  BY CompositorAssumption
<1>1. CASE memory
  <2> DEFINE s == IF size < MinSize THEN MinSize ELSE size
  <2>1. s \in Nat /\ s >= MinSize
    BY <1>0
  <2>2. 1 - b.framebuffer \in 0 .. 1
    <3>1. b.framebuffer \in 0 .. 1
      BY DEF Blocks
    <3> QED BY <3>1
  <2>3. c = [b EXCEPT !.size = s, !.newSize = s, !.framebuffer = 1 - b.framebuffer]
    BY <1>1 DEF Resized
  <2> HIDE DEF s
  <2>4. c = [[[b EXCEPT !.size = s] EXCEPT !.newSize = s]
                EXCEPT !.framebuffer = 1 - b.framebuffer]
    BY <2>3 DEF Blocks
  <2> QED BY <2>1, <2>2, <2>4 DEF Blocks
<1>2. CASE ~memory
  <2>1. c = [b EXCEPT !.newSize = b.size]
    BY <1>2 DEF Resized
  <2> QED BY <2>1 DEF Blocks
<1> QED BY <1>1, <1>2

(* The pixels of a window are in its rectangle, and in that of its new size *)
(* with the rest that it leaves.                                            *)
LEMMA InRect ==
    ASSUME NEW p, NEW x, NEW list, NEW blocks, NEW w, p.of = w, w # NULL,
           InPlace(p, x, list, blocks), blocks[w] \in Blocks
    PROVE  x \in Rect(blocks[w])
<1>1. x \in Inside(blocks[w]) \/ x \in Edges(blocks[w])
  BY DEF InPlace
<1>2. PICK b \in Blocks : b = blocks[w]
  OBVIOUS
<1>3. b.position \in Int /\ b.size \in Nat
  BY BlockFacts
<1>4. Inside(b) \subseteq Rect(b) /\ Edges(b) \subseteq Rect(b)
  BY <1>3 DEF Inside, Edges, Rect
<1> QED BY <1>1, <1>2, <1>4

LEMMA RestOfRect ==
    ASSUME NEW b \in Blocks, NEW c \in Blocks, c.position = b.position,
           NEW x \in Rect(b)
    PROVE  x \in Rect(c) \/ x \in (c.position + c.size + 2) .. (c.position + b.size + 2)
<1>1. /\ b.position \in Int /\ b.size \in Nat
      /\ c.position \in Int /\ c.size \in Nat
  BY BlockFacts
<1>2. x \in (b.position - 1) .. (b.position + b.size + 2)
  BY DEF Rect
<1> QED BY <1>1, <1>2 DEF Rect

(* One window changes its place: right is what is outside of the cells it   *)
(* was in, where it is not now or was settled before.                       *)
LEMMA OthersKept ==
    ASSUME NEW list, EachOnce(list), NEW blocks, NEW blocks2, NEW w,
           \A v \in Range(list) : v # w => SamePlace(blocks[v], blocks2[v]),
           NEW B, NEW S, NEW over, NEW B2, NEW S2, NEW over2,
           S2 \ {w} \subseteq S, S2 \subseteq Range(list),
           B2 \subseteq Windows, B2 \cap Range(list) \subseteq B \cup {w},
           over \subseteq over2,
           NEW p, NEW x, PixelOK(p, x, list, blocks, B, S, over),
           p.of # w,
           w \in S2 => x \notin Inside(blocks2[w])
    PROVE  PixelOK(p, x, list, blocks2, B2, S2, over2)
<1>1. /\ p \in Pixels /\ p.of \notin B
      /\ InPlace(p, x, list, blocks) /\ InFront(p, x, list, blocks, S, over)
  BY DEF PixelOK
<1>2. InPlace(p, x, list, blocks2)
  <2> SUFFICES ASSUME p.of # NULL
               PROVE  /\ p.of \in Range(list)
                      /\ \/ x \in Inside(blocks2[p.of]) /\ p = Content(p.of, blocks2[p.of], x)
                         \/ x \in Edges(blocks2[p.of]) /\ p = Border(p.of)
    BY DEF InPlace
  <2>1. /\ p.of \in Range(list)
        /\ \/ x \in Inside(blocks[p.of]) /\ p = Content(p.of, blocks[p.of], x)
           \/ x \in Edges(blocks[p.of]) /\ p = Border(p.of)
    BY <1>1 DEF InPlace
  <2>2. SamePlace(blocks[p.of], blocks2[p.of])
    BY <2>1
  <2>3. /\ Inside(blocks2[p.of]) = Inside(blocks[p.of])
        /\ Edges(blocks2[p.of]) = Edges(blocks[p.of])
        /\ Content(p.of, blocks2[p.of], x) = Content(p.of, blocks[p.of], x)
    BY <2>2, PlaceKept
  <2> QED BY <2>1, <2>3
<1>3. p.of \notin B2
  <2>1. p.of # NULL => p.of \in Range(list)
    BY <1>1 DEF InPlace
  <2> QED BY <1>1, <2>1, CompositorAssumption
<1>4. InFront(p, x, list, blocks2, S2, over2)
  <2> SUFFICES ASSUME NEW v \in S2, x \in Inside(blocks2[v])
               PROVE  x = Taskbar \/ p.of \in over2 \/ InOrder(list, v, p.of)
    BY DEF InFront
  <2>1. v # w /\ v \in S /\ SamePlace(blocks[v], blocks2[v])
    OBVIOUS
  <2>2. x \in Inside(blocks[v])
    BY <2>1, PlaceKept
  <2> QED BY <1>1, <2>1, <2>2 DEF InFront
<1> QED BY <1>1, <1>2, <1>3, <1>4 DEF PixelOK

(* The command resizes a window and draws it over all others.               *)
LEMMA ResizeCommandKeeps ==
    ASSUME CompositorInv, NEW w \in Windows, ResizeCommand(w)
    PROVE  CompositorInv'
<1>1. /\ Input /\ pc = "tasks" /\ pc' = "tasks" /\ next' = next
      /\ w \in Range(windows) /\ windows' = windows
      /\ activeWindow' = activeWindow /\ overdrawn' = overdrawn \cup {w}
      /\ windowsToGetActive' = windowsToGetActive
  BY DEF ResizeCommand, Between, Listed
<1>2. PICK size \in Sizes, memory \in BOOLEAN :
         LET b == Resized(win[w], size, memory)
             blocks == [win EXCEPT ![w] = b]
             updated == UpdatePointerRect(
                            UpdatePointerRect(pixels, windows, blocks, Rect(b)),
                            windows, blocks,
                            (b.position + b.size + 2) .. (b.position + win[w].size + 2))
         IN  /\ win' = blocks
             /\ pixels' = RenderWindow(updated, w, b)
  BY DEF ResizeCommand
<1>3. PICK b : b = Resized(win[w], size, memory)
  OBVIOUS
<1> DEFINE rest == (b.position + b.size + 2) .. (b.position + win[w].size + 2)
           first == UpdatePointerRect(pixels, windows, win', Rect(b))
           updated == UpdatePointerRect(first, windows, win', rest)
<1>4. win' = [win EXCEPT ![w] = b] /\ pixels' = RenderWindow(updated, w, b)
  BY <1>2, <1>3
<1>5. /\ b \in Blocks /\ b.size >= MinSize /\ b.position = win[w].position
      /\ b.hidden = win[w].hidden /\ b.oldHidden = win[w].oldHidden
      /\ b.moveToFront = win[w].moveToFront /\ b.newPosition = win[w].newPosition
  <2>1. /\ win[w] \in Blocks /\ win[w].size >= MinSize /\ size \in Nat
    BY <1>1, InvFacts, CompositorAssumption DEF CompositorInv, Types
  <2> QED BY ONLY <1>3, <2>1, memory \in BOOLEAN, Fits
<1>6. /\ win' \in [Windows -> Blocks] /\ win'[w] = b
      /\ \A v \in Windows : v # w => win'[v] = win[v]
      /\ \A v \in Windows : /\ win'[v].hidden = win[v].hidden
                            /\ win'[v].oldHidden = win[v].oldHidden
                            /\ win'[v].moveToFront = win[v].moveToFront
  <2>1. win \in [Windows -> Blocks]
    BY InvFacts
  <2>2. /\ win' \in [Windows -> Blocks] /\ win'[w] = b
        /\ \A v \in Windows : v # w => win'[v] = win[v]
    BY <1>4, <1>5, <2>1
  <2> QED BY <1>5, <2>2
<1>7. Types'
  <2>1. \A v \in Range(windows) : win'[v].size >= MinSize
    BY <1>5, <1>6, InvFacts DEF CompositorInv, Types
  <2>2. overdrawn' \subseteq Windows
    BY <1>1, InvFacts
  <2> QED BY <1>1, <1>6, <2>1, <2>2, InputCounted DEF CompositorInv, Types
<1>8. ScreenInv'
  <2> DEFINE B == GoneOf(win, activeWindow)
             S == SettledOf(windows, win, windowsToGetActive)
             over == overdrawn \cup {w}
  <2>1. /\ GoneOf(win', activeWindow) = B
        /\ SettledOf(windows, win', windowsToGetActive) = S
    BY <1>6, InvFacts DEF GoneOf, SettledOf
  <2>2. Sorted(windows, win', B, S)
    BY <1>6, <2>1, InvFacts, SortedWindows
  <2>3. B \subseteq Windows /\ S \subseteq Range(windows)
    BY DEF B, S, GoneOf, SettledOf
  <2>4. \A v \in Range(windows) : v # w => SamePlace(win[v], win'[v])
    BY <1>6, InvFacts DEF SamePlace
  <2>5. /\ EachOnce(windows) /\ NULL \notin Windows /\ win[w] \in Blocks
    BY <1>1, InvFacts
  <2>6. \A x \in Screen : PixelOK(pixels[x], x, windows, win, B, S, overdrawn)
    BY InvFacts DEF ScreenInv, ScreenOK
  <2> HIDE DEF B, S
  <2>7. ASSUME NEW x \in Screen, x \notin Rect(b), x \notin rest
        PROVE  PixelOK(pixels[x], x, windows, win', B, S, over)
    <3>1. x \notin Rect(win[w])
      <4>1. x \in Rect(win[w]) => x \in Rect(b) \/ x \in rest
        BY <1>5, <2>5, RestOfRect
      <4> QED BY <2>7, <4>1
    <3>2. pixels[x].of # w
      BY <2>5, <2>6, <3>1, InRect DEF PixelOK
    <3>3. x \notin Inside(win'[w])
      <4>1. b.position \in Int /\ b.size \in Nat
        BY <1>5, BlockFacts
      <4>2. Inside(b) \subseteq Rect(b)
        BY <4>1 DEF Inside, Rect
      <4> QED BY <1>6, <2>7, <4>2
    <3>4. PixelOK(pixels[x], x, windows, win, B, S, overdrawn)
      BY <2>6
    <3>5. /\ S \ {w} \subseteq S /\ B \cap Range(windows) \subseteq B \cup {w}
          /\ overdrawn \subseteq over /\ (w \in S => x \notin Inside(win'[w]))
      BY <3>3
    <3> QED BY ONLY <2>3, <2>4, <2>5, <3>2, <3>4, <3>5, OthersKept
  <2>8. Updates(first, pixels, windows, win', Rect(b))
    BY <2>5, RectUpdated
  <2>9. ASSUME NEW x \in Screen \ rest
        PROVE  PixelOK(first[x], x, windows, win', B, S, over)
    <3>1. CASE x \in Rect(b)
      <4>1. Topmost(first[x], windows, win', x)
        BY <2>8, <3>1 DEF Updates
      <4> QED BY <2>2, <4>1, TopmostOK
    <3>2. CASE x \notin Rect(b)
      <4>1. first[x] = pixels[x]
        BY <2>8, <3>2 DEF Updates
      <4>2. PixelOK(pixels[x], x, windows, win', B, S, over)
        BY <2>7, <2>9, <3>2
      <4> QED BY <4>1, <4>2
    <3> QED BY <3>1, <3>2
  <2> HIDE DEF first, rest
  <2>10. ScreenOK(updated, windows, win', B, S, over)
    BY <2>2, <2>9, UpdateOK
  <2> HIDE DEF updated
  <2>11. ScreenOK(updated, windows, win', B, S \ {w}, over)
    <3>1. \A v \in Range(windows) : SamePlace(win'[v], win'[v])
      BY DEF SamePlace
    <3>2. B \cap Range(windows) \subseteq B /\ S \ {w} \subseteq S
      OBVIOUS
    <3> QED BY <2>3, <2>10, <3>1, <3>2, ScreenKept
  <2>12. w \in over /\ w \in Range(windows)
    BY <1>1
  <2> HIDE DEF over
  <2>13. ScreenOK(RenderWindow(updated, w, win'[w]), windows, win', B, S, over)
    BY <2>2, <2>11, <2>12, RenderOK
  <2>14. overdrawn' = over
    BY <1>1 DEF over
  <2> QED BY <1>1, <1>4, <1>6, <2>1, <2>13, <2>14 DEF ScreenInv
<1>9. FrontOK(windows, win', activeWindow, windowsToGetActive)
  BY <1>6, InvFacts DEF FrontOK
<1> QED BY <1>1, <1>7, <1>8, <1>9 DEF CompositorInv, Noticed

LEMMA RenderAllKeeps ==
    ASSUME CompositorInv, RenderAll
    PROVE  CompositorInv'
<1>1. /\ Input /\ pc = "tasks" /\ pc' = "tasks" /\ next' = next
      /\ windows' = windows /\ win' = win /\ activeWindow' = activeWindow
      /\ windowsToGetActive' = windowsToGetActive /\ overdrawn' = {}
      /\ pixels' = RenderWindows(windows, win)
  BY DEF RenderAll, Between
<1>2. ScreenInv'
  BY <1>1, InvFacts, RenderAllOK DEF ScreenInv
<1> QED BY <1>1, <1>2, InputCounted DEF CompositorInv, Types, Noticed

(* After a fault all windows are hidden, but that of the crash, which waits *)
(* to be raised.                                                            *)
LEMMA RecoverKeeps ==
    ASSUME CompositorInv, NEW w \in Windows \cup {NULL}, Recover(w)
    PROVE  CompositorInv'
<1>1. /\ Input /\ pc = "tasks" /\ pc' = "tasks" /\ next' = next
      /\ w \in (Windows \ Range(windows)) \cup {NULL}
      /\ windows' = (IF w = NULL THEN windows ELSE Append(windows, w))
      /\ win' = [a \in Windows |->
                   IF a = w THEN Window(StartPosition, MinSize, FALSE, TRUE)
                   ELSE [win[a] EXCEPT !.hidden = TRUE, !.oldHidden = TRUE]]
      /\ pixels' = RenderWindows(windows', win')
      /\ windowsToGetActive' =
            (IF w = NULL THEN windowsToGetActive ELSE Append(windowsToGetActive, w))
      /\ overdrawn' = {} /\ activeWindow' = activeWindow
  BY DEF Recover, Between, Listed
<1>2. /\ EachOnce(windows') /\ Range(windows') \ {w} \subseteq Range(windows)
      /\ Range(windows') \subseteq Windows
  <2>1. CASE w = NULL
    BY <1>1, <2>1, InvFacts
  <2>2. CASE w # NULL
    <3>1. EachOnce(windows) /\ w \in Windows \ Range(windows)
      BY <1>1, <2>2, InvFacts
    <3>2. /\ EachOnce(Append(windows, w))
          /\ Range(Append(windows, w)) = Range(windows) \cup {w}
      BY <3>1, PutInFront
    <3>3. windows' = Append(windows, w)
      BY <1>1, <2>2
    <3>4. Range(windows) \subseteq Windows
      BY InvFacts
    <3> QED BY <3>1, <3>2, <3>3, <3>4
  <2> QED BY <2>1, <2>2
<1>3. /\ windowsToGetActive' \in Seq(Windows \cup {NULL})
      /\ w # NULL => w \in Range(windowsToGetActive')
  <2>1. CASE w = NULL
    BY <1>1, <2>1, InvFacts
  <2>2. CASE w # NULL
    <3>1. windowsToGetActive \in Seq(Windows \cup {NULL})
      BY InvFacts
    <3>2. /\ Append(windowsToGetActive, w) \in Seq(Windows \cup {NULL})
          /\ w \in Range(Append(windowsToGetActive, w))
      BY <3>1, RangeOfAppend, AppendProperties
    <3> QED BY <1>1, <2>2, <3>2
  <2> QED BY <2>1, <2>2
<1>4. /\ win' \in [Windows -> Blocks]
      /\ \A v \in Windows : v # w => win'[v].hidden /\ win'[v].size = win[v].size
      /\ w \in Windows => win'[w].size = MinSize
  <2>1. \A v \in Windows : win[v] \in Blocks
    BY InvFacts
  <2>2. ASSUME NEW v \in Windows, v # w
        PROVE  win'[v] \in Blocks /\ win'[v].hidden /\ win'[v].size = win[v].size
    <3>1. win'[v] = [win[v] EXCEPT !.hidden = TRUE, !.oldHidden = TRUE]
      BY <1>1, <2>2
    <3> QED BY <2>1, <3>1 DEF Blocks
  <2>3. ASSUME w \in Windows
        PROVE  win'[w] \in Blocks /\ win'[w].size = MinSize
    <3>1. win'[w] = Window(StartPosition, MinSize, FALSE, TRUE)
      BY <1>1, <2>3
    <3> QED BY <3>1, Places, CompositorAssumption DEF Window, Blocks
  <2>4. win' = [v \in Windows |-> win'[v]]
    BY <1>1
  <2>5. \A v \in Windows : win'[v] \in Blocks
    BY <2>2, <2>3
  <2>6. win' \in [Windows -> Blocks]
    BY ONLY <2>4, <2>5
  <2> QED BY <2>2, <2>3, <2>6
<1>5. Types'
  <2>1. \A v \in Range(windows') : win'[v].size >= MinSize
    <3> SUFFICES ASSUME NEW v \in Range(windows') PROVE win'[v].size >= MinSize
      OBVIOUS
    <3>1. CASE v = w
      BY <1>2, <1>4, <3>1, InvFacts
    <3>2. CASE v # w
      BY <1>2, <1>4, <3>2, InvFacts DEF CompositorInv, Types
    <3> QED BY <3>1, <3>2
  <2> QED BY <1>1, <1>2, <1>3, <1>4, <2>1, InputCounted DEF CompositorInv, Types
<1>6. ScreenInv'
  BY <1>1, <1>2, <1>4, SortedWindows, RenderAllOK DEF ScreenInv
<1>7. FrontOK(windows', win', activeWindow, windowsToGetActive')
  <2> SUFFICES ASSUME NEW v \in Range(windows')
               PROVE  win'[v].hidden \/ v \in Range(windowsToGetActive')
    BY DEF FrontOK
  <2>1. v \in Windows
    BY <1>2
  <2> QED BY <1>3, <1>4, <2>1, InvFacts
<1> QED BY <1>1, <1>5, <1>6, <1>7 DEF CompositorInv, Noticed

-----------------------------------------------------------------------------
(* A frame: each window becomes what it is to be.                           *)
Becomes(b, memory, sized, c) ==
    /\ sized = IF b.size # b.newSize THEN Resized(b, b.newSize, memory) ELSE b
    /\ c = [sized EXCEPT !.oldHidden = b.hidden, !.position = b.newPosition]

LEMMA Updated ==
    ASSUME NEW b \in Blocks, b.size >= MinSize, NEW memory \in BOOLEAN,
           NEW sized, NEW c, Becomes(b, memory, sized, c)
    PROVE  /\ c \in Blocks /\ c.size >= MinSize
           /\ c.hidden = b.hidden /\ c.oldHidden = b.hidden
           /\ c.moveToFront = b.moveToFront
           /\ b.size = b.newSize /\ b.position = b.newPosition => SamePlace(b, c)
<1> USE DEF Becomes
<1>1. /\ sized \in Blocks /\ sized.size >= MinSize
      /\ sized.hidden = b.hidden /\ sized.moveToFront = b.moveToFront
      /\ sized.position = b.position
      /\ b.size = b.newSize => sized = b
  <2>1. CASE b.size = b.newSize
    BY <2>1
  <2>2. CASE b.size # b.newSize
    <3>1. b.newSize \in Nat /\ sized = Resized(b, b.newSize, memory)
      BY <2>2, BlockFacts
    <3>2. PICK size \in Nat : size = b.newSize
      BY <3>1
    <3>3. sized = Resized(b, size, memory)
      BY <3>1, <3>2
    <3>4. /\ sized \in Blocks /\ sized.size >= MinSize
          /\ sized.hidden = b.hidden /\ sized.moveToFront = b.moveToFront
          /\ sized.position = b.position
      BY ONLY <3>3, b \in Blocks, b.size >= MinSize, size \in Nat, memory \in BOOLEAN, Fits
    <3> QED BY <2>2, <3>4
  <2> QED BY <2>1, <2>2
<1>2. b.hidden \in BOOLEAN /\ b.newPosition \in Int
  BY BlockFacts
<1>3. c = [[sized EXCEPT !.oldHidden = b.hidden] EXCEPT !.position = b.newPosition]
  OBVIOUS
<1>4. /\ c \in Blocks /\ c.size = sized.size /\ c.framebuffer = sized.framebuffer
      /\ c.hidden = sized.hidden /\ c.oldHidden = b.hidden
      /\ c.moveToFront = sized.moveToFront /\ c.position = b.newPosition
  BY <1>1, <1>2, <1>3 DEF Blocks
<1> QED BY <1>1, <1>4 DEF SamePlace

LEMMA UpdateWindowKeeps ==
    ASSUME CompositorInv, UpdateWindow
    PROVE  CompositorInv'
<1> DEFINE w == windows[next]
           old == win[w]
           first == ShownOrHidden(pixels, w)
<1>1. /\ pc = "update" /\ pc' = "update" /\ next <= Len(windows) /\ next' = next + 1
      /\ windows' = windows /\ activeWindow' = activeWindow
      /\ windowsToGetActive' = windowsToGetActive
      /\ overdrawn' = overdrawn /\ inputs' = inputs
  BY DEF UpdateWindow
<1>2. PICK memory \in BOOLEAN :
         LET sized == IF old.size # old.newSize THEN Resized(old, old.newSize, memory)
                      ELSE old
             new == [sized EXCEPT !.oldHidden = old.hidden,
                                  !.position = old.newPosition]
             blocks == [win EXCEPT ![w] = new]
         IN  /\ win' = blocks
             /\ pixels' = IF old.size # old.newSize \/ old.position # old.newPosition
                          THEN UpdateOldAndNew(first, blocks, old, new)
                          ELSE first
  BY <1>1 DEF UpdateWindow
<1>3. PICK sized : sized = (IF old.size # old.newSize
                            THEN Resized(old, old.newSize, memory) ELSE old)
  OBVIOUS
<1>4. PICK new : new = [sized EXCEPT !.oldHidden = old.hidden, !.position = old.newPosition]
  OBVIOUS
<1>5. /\ win' = [win EXCEPT ![w] = new]
      /\ pixels' = IF old.size # old.newSize \/ old.position # old.newPosition
                   THEN UpdatePointerRect(first, windows, win', Rect(old) \cup Rect(new))
                   ELSE first
  BY <1>2, <1>3, <1>4 DEF UpdateOldAndNew
<1>6. next \in Nat \ {0} /\ next \in 1 .. Len(windows)
  BY <1>1 DEF CompositorInv, Types
<1>7. w \in Range(windows) /\ w \in Windows /\ w # NULL /\ old \in Blocks
  BY <1>6, InvFacts, ListFacts
<1>8. old.size >= MinSize
  BY <1>7 DEF CompositorInv, Types
<1> HIDE DEF old
<1>9. /\ new \in Blocks /\ new.size >= MinSize
      /\ new.hidden = old.hidden /\ new.oldHidden = old.hidden
      /\ new.moveToFront = old.moveToFront
      /\ old.size = old.newSize /\ old.position = old.newPosition => SamePlace(old, new)
  <2>1. Becomes(old, memory, sized, new)
    BY <1>3, <1>4 DEF Becomes
  <2> QED BY ONLY <2>1, <1>7, <1>8, memory \in BOOLEAN, Updated
<1>10. /\ win' \in [Windows -> Blocks] /\ win'[w] = new
       /\ \A v \in Windows : v # w => win'[v] = win[v]
       /\ \A v \in Windows : /\ win'[v].hidden = win[v].hidden
                             /\ win'[v].moveToFront = win[v].moveToFront
  <2>1. win \in [Windows -> Blocks] /\ w \in Windows
    BY <1>7, InvFacts
  <2> HIDE DEF w
  <2>2. /\ win' \in [Windows -> Blocks] /\ win'[w] = new
        /\ \A v \in Windows : v # w => win'[v] = win[v]
    BY <1>5, <1>9, <2>1
  <2> QED BY <1>9, <2>2 DEF old
<1> HIDE DEF w, first
<1>11. Types'
  <2>1. \A v \in Range(windows) : win'[v].size >= MinSize
    BY <1>9, <1>10, InvFacts DEF CompositorInv, Types
  <2>2. next' \in Nat \ {0}
    BY <1>1, <1>6
  <2> QED BY <1>1, <1>10, <2>1, <2>2 DEF CompositorInv, Types
<1>12. PICK shown : shown = [win EXCEPT ![w].oldHidden = win[w].hidden]
  OBVIOUS
<1>13. /\ shown \in [Windows -> Blocks] /\ shown[w].hidden = old.hidden
       /\ shown[w].oldHidden = old.hidden /\ shown[w].moveToFront = old.moveToFront
       /\ SamePlace(old, shown[w])
       /\ \A v \in Windows : v # w => shown[v] = win[v]
  <2>1. win \in [Windows -> Blocks] /\ old.hidden \in BOOLEAN
    BY <1>7, InvFacts, BlockFacts
  <2>2. shown = [win EXCEPT ![w] = [win[w] EXCEPT !.oldHidden = win[w].hidden]]
    BY <1>7, <1>12, <2>1
  <2>3. PICK c : c = [old EXCEPT !.oldHidden = old.hidden]
    OBVIOUS
  <2>4. /\ c \in Blocks /\ c.hidden = old.hidden /\ c.oldHidden = old.hidden
        /\ c.moveToFront = old.moveToFront /\ SamePlace(old, c)
    BY <1>7, <2>1, <2>3 DEF Blocks, SamePlace
  <2>5. shown = [win EXCEPT ![w] = c]
    BY <2>2, <2>3 DEF old
  <2>6. /\ shown \in [Windows -> Blocks] /\ shown[w] = c
        /\ \A v \in Windows : v # w => shown[v] = win[v]
    BY <1>7, <2>1, <2>4, <2>5
  <2> QED BY <2>4, <2>6
<1> DEFINE B0 == GoneOf(win, activeWindow)
           S0 == SettledOf(windows, win, windowsToGetActive)
           B == GoneOf(win', activeWindow)
           S == SettledOf(windows, win', windowsToGetActive)
<1>14. /\ B \subseteq Windows /\ B \cap Range(windows) \subseteq B0 \cup {w}
       /\ S \subseteq Range(windows) /\ S \ {w} \subseteq S0
       /\ B0 \subseteq Windows /\ S0 \subseteq Range(windows)
  BY <1>10, InvFacts DEF GoneOf, SettledOf
<1>15. Sorted(windows, shown, B, S) /\ Sorted(windows, win', B, S)
  <2>1. Sorted(windows, win', B, S)
    BY <1>10, InvFacts, SortedWindows
  <2>2. \A v \in Windows : shown[v].hidden = win'[v].hidden
    BY <1>9, <1>10, <1>13
  <2>3. S \subseteq Windows
    BY <1>14, InvFacts
  <2> HIDE DEF B, S
  <2> QED BY <1>13, <2>1, <2>2, <2>3 DEF Sorted
<1>16. \A x \in Screen : PixelOK(pixels[x], x, windows, win, B0, S0, overdrawn)
  BY InvFacts DEF ScreenInv, ScreenOK
<1>s. ScreenOK(pixels, windows, win, B0, S0, overdrawn)
  BY InvFacts DEF ScreenInv
<1>e. EachOnce(windows) /\ NULL \notin Windows /\ overdrawn \subseteq overdrawn
  BY InvFacts
<1>17. ScreenOK(first, windows, shown, B, S, overdrawn)
  <2>1. CASE old.hidden # old.oldHidden
    <3>1. first = UpdatePointerRect(pixels, windows, shown, CloseRect(old))
      BY <1>12, <2>1 DEF first, ShownOrHidden, old
    <3>2. ASSUME NEW x \in Screen \ CloseRect(old)
          PROVE  PixelOK(pixels[x], x, windows, shown, B, S, overdrawn)
      <4>1. pixels[x].of # w
        BY <1>7, <1>16, <3>2, InCloseRect DEF PixelOK, old
      <4>2. x \notin Inside(shown[w])
        <5>1. old.position \in Int /\ old.size \in Nat
          BY <1>7, BlockFacts
        <5>2. Inside(old) \subseteq CloseRect(old)
          BY <5>1 DEF Inside, CloseRect
        <5>3. Inside(shown[w]) = Inside(old)
          BY <1>13, PlaceKept
        <5> QED BY <3>2, <5>2, <5>3
      <4>3. \A v \in Range(windows) : v # w => SamePlace(win[v], shown[v])
        BY <1>13, InvFacts DEF SamePlace
      <4>4. PixelOK(pixels[x], x, windows, win, B0, S0, overdrawn)
        BY <1>16
      <4>5. w \in S => x \notin Inside(shown[w])
        BY <4>2
      <4> HIDE DEF B0, S0, B, S
      <4> QED BY ONLY <1>14, <1>e, <4>1, <4>3, <4>4, <4>5, OthersKept
    <3> HIDE DEF B, S
    <3> QED BY <1>15, <3>1, <3>2, UpdateOK
  <2>2. CASE old.hidden = old.oldHidden
    <3>1. first = pixels
      BY <2>2 DEF first, ShownOrHidden, old
    <3>2. /\ \A v \in Windows : win'[v].oldHidden = win[v].oldHidden
      BY <1>9, <1>10, <2>2 DEF old
    <3>3. B = B0 /\ S = S0
      BY <1>10, <3>2, InvFacts DEF GoneOf, SettledOf
    <3>4. \A v \in Range(windows) : SamePlace(win[v], shown[v])
      BY <1>13, InvFacts DEF SamePlace, old
    <3>5. B0 \cap Range(windows) \subseteq B0
      OBVIOUS
    <3> HIDE DEF B, S, B0, S0
    <3>6. ScreenOK(pixels, windows, shown, B0, S0, overdrawn)
      BY <1>s, <1>14, <3>4, <3>5, ScreenKept
    <3> QED BY <3>1, <3>3, <3>6
  <2> QED BY <2>1, <2>2
<1>18. ScreenOK(pixels', windows, win', B, S, overdrawn)
  <2>0. /\ \A v \in Range(windows) : v # w => SamePlace(shown[v], win'[v])
        /\ S \ {w} \subseteq S /\ B \cap Range(windows) \subseteq B \cup {w}
        /\ B \cap Range(windows) \subseteq B /\ S \subseteq S
    BY <1>10, <1>13, InvFacts DEF SamePlace
  <2> HIDE DEF B, S
  <2>1. CASE old.size # old.newSize \/ old.position # old.newPosition
    <3>1. pixels' = UpdatePointerRect(first, windows, win', Rect(old) \cup Rect(new))
      BY <1>5, <2>1
    <3>2. ASSUME NEW x \in Screen \ (Rect(old) \cup Rect(new))
          PROVE  PixelOK(first[x], x, windows, win', B, S, overdrawn)
      <4>1. PixelOK(first[x], x, windows, shown, B, S, overdrawn)
        BY <1>17 DEF ScreenOK
      <4>2. first[x].of # w
        <5>1. Rect(shown[w]) = Rect(old)
          BY <1>13 DEF SamePlace, Rect
        <5>2. shown[w] \in Blocks
          BY <1>7, <1>13
        <5> QED BY <1>7, <3>2, <4>1, <5>1, <5>2, InRect DEF PixelOK
      <4>3. x \notin Inside(win'[w])
        <5>1. new.position \in Int /\ new.size \in Nat
          BY <1>9, BlockFacts
        <5>2. Inside(new) \subseteq Rect(new)
          BY <5>1 DEF Inside, Rect
        <5> QED BY <1>10, <3>2, <5>2
      <4>4. w \in S => x \notin Inside(win'[w])
        BY <4>3
      <4> QED BY ONLY <1>14, <1>e, <2>0, <4>1, <4>2, <4>4, OthersKept
    <3>3. ScreenOK(UpdatePointerRect(first, windows, win', Rect(old) \cup Rect(new)),
                   windows, win', B, S, overdrawn)
      BY <1>15, <3>2, UpdateOK
    <3> QED BY <3>1, <3>3
  <2>2. CASE old.size = old.newSize /\ old.position = old.newPosition
    <3>1. pixels' = first
      BY <1>5, <2>2
    <3>2. SamePlace(shown[w], win'[w])
      BY <1>9, <1>10, <1>13, <2>2 DEF SamePlace
    <3>3. \A v \in Range(windows) : SamePlace(shown[v], win'[v])
      BY <2>0, <3>2
    <3>4. ScreenOK(first, windows, win', B, S, overdrawn)
      BY <1>14, <1>17, <2>0, <3>3, ScreenKept
    <3> QED BY <3>1, <3>4
  <2> QED BY <2>1, <2>2
<1>19. ScreenInv'
  BY <1>1, <1>18 DEF ScreenInv
<1>20. Noticed'
  <2> SUFFICES ASSUME NEW k \in 1 .. Len(windows), k < next + 1
               PROVE  win'[windows[k]].oldHidden = win'[windows[k]].hidden
    BY <1>1 DEF Noticed
  <2>1. CASE k = next
    BY <1>9, <1>10, <2>1 DEF w
  <2>2. CASE k # next
    <3>1. k < next
      BY <1>6, <2>2
    <3>2. windows[k] # w /\ windows[k] \in Windows
      BY <1>6, <2>2, InvFacts, ListFacts DEF w
    <3>3. win[windows[k]].oldHidden = win[windows[k]].hidden
      BY <1>1, <3>1 DEF CompositorInv, Noticed
    <3> QED BY <1>10, <3>2, <3>3
  <2> QED BY <2>1, <2>2
<1>21. FrontOK(windows, win', activeWindow, windowsToGetActive)
  BY <1>10, InvFacts DEF FrontOK
<1> QED BY <1>1, <1>11, <1>19, <1>20, <1>21 DEF CompositorInv

LEMMA UpdateTaskbarKeeps ==
    ASSUME CompositorInv, UpdateTaskbar
    PROVE  CompositorInv'
<1>1. /\ pc = "update" /\ pc' = "mouse" /\ next > Len(windows) /\ next' = 1
      /\ windows' = windows /\ win' = win /\ activeWindow' = activeWindow
      /\ windowsToGetActive' = windowsToGetActive
      /\ overdrawn' = overdrawn /\ inputs' = inputs
      /\ pixels' = UpdatePointerRect(pixels, windows, win, {Taskbar})
  BY DEF UpdateTaskbar
<1>2. ScreenInv'
  <2> DEFINE B == GoneOf(win, activeWindow)
             S == SettledOf(windows, win, windowsToGetActive)
  <2>1. PICK cells : pixels' = UpdatePointerRect(pixels, windows, win, cells)
    BY <1>1
  <2>2. Sorted(windows, win, B, S)
    BY InvFacts
  <2>3. \A x \in Screen \ cells : PixelOK(pixels[x], x, windows, win, B, S, overdrawn)
    BY InvFacts DEF ScreenInv, ScreenOK
  <2> HIDE DEF B, S
  <2>4. ScreenOK(pixels', windows, win, B, S, overdrawn)
    BY <2>1, <2>2, <2>3, UpdateOK
  <2> QED BY <1>1, <2>4 DEF ScreenInv, B, S
<1>3. Noticed'
  <2> SUFFICES ASSUME NEW w \in Range(windows)
               PROVE  win[w].oldHidden = win[w].hidden
    BY <1>1 DEF Noticed
  <2>1. PICK k \in 1 .. Len(windows) : windows[k] = w
    BY InvFacts, ListFacts
  <2>2. k < next
    <3>1. next \in Nat /\ Len(windows) \in Nat
      BY InvFacts, ListFacts DEF CompositorInv, Types
    <3> QED BY <1>1, <3>1
  <2> QED BY <1>1, <2>1, <2>2 DEF CompositorInv, Noticed
<1> QED BY <1>1, <1>2, <1>3 DEF CompositorInv, Types

LEMMA RenderKeeps ==
    ASSUME CompositorInv, Render
    PROVE  CompositorInv'
<1>1. /\ pc = "mouse" /\ pc' = "tasks" /\ next' = next
      /\ windows' = windows /\ win' = win /\ activeWindow' = activeWindow
      /\ windowsToGetActive' = windowsToGetActive
      /\ overdrawn' = overdrawn /\ inputs' = inputs
      /\ \E x \in Screen : pixels' = UpdatePointerRect(pixels, windows, win, {x})
  BY DEF Render
<1>2. ScreenInv'
  <2> DEFINE B == GoneOf(win, activeWindow)
             S == SettledOf(windows, win, windowsToGetActive)
  <2>1. PICK cells : pixels' = UpdatePointerRect(pixels, windows, win, cells)
    BY <1>1
  <2>2. Sorted(windows, win, B, S)
    BY InvFacts
  <2>3. \A x \in Screen \ cells : PixelOK(pixels[x], x, windows, win, B, S, overdrawn)
    BY InvFacts DEF ScreenInv, ScreenOK
  <2> HIDE DEF B, S
  <2>4. ScreenOK(pixels', windows, win, B, S, overdrawn)
    BY <2>1, <2>2, <2>3, UpdateOK
  <2> QED BY <1>1, <2>4 DEF ScreenInv, B, S
<1> QED BY <1>1, <1>2 DEF CompositorInv, Types, Noticed

-----------------------------------------------------------------------------
(* Clicks.                                                                  *)
LEMMA ClickHideKeeps ==
    ASSUME CompositorInv, NEW w \in Windows, ClickHide(w)
    PROVE  CompositorInv'
<1>1. /\ Input /\ pc = "mouse" /\ pc' = "mouse" /\ next' = next
      /\ w \in Range(windows) /\ ~win[w].hidden
      /\ win' = [win EXCEPT ![w].hidden = TRUE]
      /\ pixels' = UpdateWindowBorder(pixels, windows, win', activeWindow)
      /\ activeWindow' = (IF activeWindow = w THEN NULL ELSE activeWindow)
      /\ windows' = windows /\ windowsToGetActive' = windowsToGetActive
      /\ overdrawn' = overdrawn
  BY DEF ClickHide, Mouse, Listed
<1>2. /\ win' \in [Windows -> Blocks] /\ win'[w].hidden
      /\ win'[w].oldHidden = win[w].oldHidden
      /\ win'[w].moveToFront = win[w].moveToFront
      /\ \A v \in Windows : v # w => win'[v] = win[v]
      /\ \A v \in Windows : SamePlace(win[v], win'[v])
  <2>1. PICK c : c = [win[w] EXCEPT !.hidden = TRUE]
    OBVIOUS
  <2>2. win \in [Windows -> Blocks] /\ win[w] \in Blocks
    BY InvFacts
  <2>3. win' = [win EXCEPT ![w] = c]
    BY <1>1, <2>1, <2>2
  <2>4. /\ c \in Blocks /\ c.hidden /\ c.oldHidden = win[w].oldHidden
        /\ c.moveToFront = win[w].moveToFront /\ SamePlace(win[w], c)
    BY <2>1, <2>2 DEF Blocks, SamePlace
  <2>5. /\ win' \in [Windows -> Blocks] /\ win'[w] = c
        /\ \A v \in Windows : v # w => win'[v] = win[v]
    BY <2>2, <2>3, <2>4
  <2> QED BY <2>4, <2>5 DEF SamePlace
<1>3. Types'
  <2>1. \A v \in Range(windows) : win'[v].size >= MinSize
    BY <1>2, InvFacts DEF CompositorInv, Types, SamePlace
  <2> QED BY <1>1, <1>2, <2>1, InputCounted DEF CompositorInv, Types
<1>4. ScreenInv'
  <2> DEFINE B == GoneOf(win', activeWindow')
             S == SettledOf(windows, win', windowsToGetActive)
  <2>1. B \subseteq Windows /\ B \cap Range(windows) \subseteq GoneOf(win, activeWindow)
    <3>1. (~win[w].oldHidden) \/ win[w].moveToFront
      BY <1>1 DEF CompositorInv, Noticed
    <3>2. w # activeWindow'
      BY <1>1, InvFacts
    <3>3. w \notin B
      BY <1>2, <3>1, <3>2 DEF GoneOf
    <3>4. ASSUME NEW v \in B PROVE v \in GoneOf(win, activeWindow)
      <4>1. v \in Windows /\ v # w /\ win'[v] = win[v]
        BY <1>2, <3>3 DEF GoneOf
      <4>2. v = activeWindow' => v = activeWindow
        BY <1>1, <4>1, InvFacts
      <4> QED BY <4>1, <4>2 DEF GoneOf
    <3>5. B \subseteq Windows
      BY DEF GoneOf
    <3> QED BY <3>4, <3>5
  <2>2. S \subseteq SettledOf(windows, win, windowsToGetActive)
    <3>1. w \notin S
      BY <1>2 DEF SettledOf
    <3> QED BY <1>2, <3>1, InvFacts DEF SettledOf
  <2>3. \A v \in Range(windows) : SamePlace(win[v], win'[v])
    BY <1>2, InvFacts
  <2>4. Sorted(windows, win', B, S)
    BY <1>2, InvFacts, SortedWindows
  <2> HIDE DEF B, S
  <2>5. ScreenOK(pixels, windows, win', B, S, overdrawn)
    BY <2>1, <2>2, <2>3, InvFacts, ScreenKept DEF ScreenInv
  <2>6. ScreenOK(UpdateWindowBorder(pixels, windows, win', activeWindow),
                 windows, win', B, S, overdrawn)
    BY <2>4, <2>5, BorderOK
  <2> QED BY <1>1, <2>6 DEF ScreenInv, B, S
<1>5. FrontOK(windows, win', activeWindow', windowsToGetActive)
  <2> SUFFICES ASSUME activeWindow' \in Range(windows),
                      ~win'[activeWindow'].moveToFront,
                      activeWindow' \notin Range(windowsToGetActive),
                      NEW v \in Range(windows), v # activeWindow',
                      InOrder(windows, activeWindow', v)
               PROVE  \/ win'[v].hidden \/ win'[v].moveToFront
                      \/ v \in Range(windowsToGetActive)
    BY DEF FrontOK
  <2>1. activeWindow' = activeWindow /\ activeWindow # w /\ activeWindow \in Windows
    BY <1>1, InvFacts
  <2>2. win'[activeWindow] = win[activeWindow]
    BY <1>2, <2>1
  <2>3. win[v].hidden \/ win[v].moveToFront \/ v \in Range(windowsToGetActive)
    BY <2>1, <2>2, InvFacts DEF FrontOK
  <2>4. v \in Windows
    BY InvFacts
  <2> QED BY <1>2, <2>3, <2>4
<1>6. Noticed'
  BY <1>1, <1>2, InvFacts DEF CompositorInv, Noticed
<1> QED BY <1>1, <1>3, <1>4, <1>5, <1>6 DEF CompositorInv

(* A click on a window that was hidden makes it wait to be raised.          *)
LEMMA ClickToKeeps ==
    ASSUME CompositorInv, NEW w \in Windows \cup {NULL}, ClickTo(w)
    PROVE  CompositorInv'
<1>1. /\ Input /\ pc = "mouse" /\ pc' = "mouse" /\ next' = next
      /\ w \in Range(windows) \cup {NULL}
      /\ win' = (IF w = NULL THEN win
                 ELSE [win EXCEPT ![w].hidden = FALSE, ![w].moveToFront = TRUE])
      /\ pixels' = UpdateWindowBorder(pixels, windows, win', activeWindow)
      /\ activeWindow' = w
      /\ windows' = windows /\ windowsToGetActive' = windowsToGetActive
      /\ overdrawn' = overdrawn
  BY DEF ClickTo, Mouse, Listed
<1>2. /\ win' \in [Windows -> Blocks]
      /\ w # NULL => (~win'[w].hidden) /\ win'[w].moveToFront
      /\ \A v \in Windows : v # w => win'[v] = win[v]
      /\ \A v \in Windows : SamePlace(win[v], win'[v])
  <2>0. win \in [Windows -> Blocks]
    BY InvFacts
  <2>1. CASE w = NULL
    BY <1>1, <2>0, <2>1 DEF SamePlace
  <2>2. CASE w # NULL
    <3>1. PICK c : c = [win[w] EXCEPT !.hidden = FALSE, !.moveToFront = TRUE]
      OBVIOUS
    <3>2. win[w] \in Blocks /\ w \in Windows
      BY <2>0, <2>2
    <3>3. win' = [win EXCEPT ![w] = c]
      BY <1>1, <2>0, <2>2, <3>1, <3>2
    <3>4. c = [[win[w] EXCEPT !.hidden = FALSE] EXCEPT !.moveToFront = TRUE]
      BY <3>1, <3>2 DEF Blocks
    <3>5. /\ c \in Blocks /\ ~c.hidden /\ c.moveToFront /\ SamePlace(win[w], c)
      BY <3>2, <3>4 DEF Blocks, SamePlace
    <3>6. /\ win' \in [Windows -> Blocks] /\ win'[w] = c
          /\ \A v \in Windows : v # w => win'[v] = win[v]
      BY <2>0, <3>2, <3>3, <3>5
    <3> QED BY <3>5, <3>6 DEF SamePlace
  <2> QED BY <2>1, <2>2
<1>3. Types'
  <2>1. \A v \in Range(windows) : win'[v].size >= MinSize
    BY <1>2, InvFacts DEF CompositorInv, Types, SamePlace
  <2> QED BY <1>1, <1>2, <2>1, InputCounted DEF CompositorInv, Types
<1>4. ScreenInv'
  <2> DEFINE B == GoneOf(win', w)
             S == SettledOf(windows, win', windowsToGetActive)
  <2>1. B \subseteq Windows /\ B \cap Range(windows) \subseteq GoneOf(win, activeWindow)
    <3>1. w \notin B
      BY <1>2, InvFacts DEF GoneOf
    <3> QED BY <1>2, <3>1 DEF GoneOf
  <2>2. S \subseteq SettledOf(windows, win, windowsToGetActive)
    <3>1. w \notin S
      BY <1>2, InvFacts DEF SettledOf
    <3> QED BY <1>2, <3>1, InvFacts DEF SettledOf
  <2>3. \A v \in Range(windows) : SamePlace(win[v], win'[v])
    BY <1>2, InvFacts
  <2>4. Sorted(windows, win', B, S)
    BY <1>2, InvFacts, SortedWindows
  <2> HIDE DEF B, S
  <2>5. ScreenOK(pixels, windows, win', B, S, overdrawn)
    BY <2>1, <2>2, <2>3, InvFacts, ScreenKept DEF ScreenInv
  <2>6. ScreenOK(UpdateWindowBorder(pixels, windows, win', activeWindow),
                 windows, win', B, S, overdrawn)
    BY <2>4, <2>5, BorderOK
  <2> QED BY <1>1, <2>6 DEF ScreenInv, B, S
<1>5. FrontOK(windows, win', w, windowsToGetActive)
  BY <1>2, InvFacts DEF FrontOK
<1>6. Noticed'
  BY <1>1, <1>2, InvFacts DEF CompositorInv, Noticed
<1> QED BY <1>1, <1>3, <1>4, <1>5, <1>6 DEF CompositorInv

-----------------------------------------------------------------------------
(* The beginning of a frame.                                                *)
LEMMA OrderOnce ==
    ASSUME NEW list, EachOnce(list), NEW a, NEW b,
           InOrder(list, a, b), InOrder(list, b, a)
    PROVE  a = b
<1>1. PICK i \in 1 .. Len(list), j \in 1 .. Len(list) :
         i <= j /\ list[i] = a /\ list[j] = b
  BY DEF InOrder
<1>2. PICK m \in 1 .. Len(list), n \in 1 .. Len(list) :
         m <= n /\ list[m] = b /\ list[n] = a
  BY DEF InOrder
<1>3. i = n /\ j = m
  BY <1>1, <1>2, ListFacts
<1> QED BY <1>1, <1>2, <1>3

(* A window that is in front of all that are settled need not be noted as   *)
(* drawn over others.                                                       *)
LEMMA ForgetOK ==
    ASSUME NEW px, NEW list, NEW blocks, NEW B, NEW S, NEW over,
           ScreenOK(px, list, blocks, B, S, over), over \subseteq Windows,
           NEW w, w \in Range(list) => \A v \in S : InOrder(list, v, w)
    PROVE  ScreenOK(px, list, blocks, B, S, over \ {w})
<1>1. ASSUME NEW x \in Screen
      PROVE  PixelOK(px[x], x, list, blocks, B, S, over \ {w})
  <2>1. PixelOK(px[x], x, list, blocks, B, S, over)
    BY DEF ScreenOK
  <2>2. ASSUME px[x].of = w, w \in over PROVE w \in Range(list)
    BY <2>1, <2>2, CompositorAssumption DEF PixelOK, InPlace
  <2>3. InFront(px[x], x, list, blocks, S, over \ {w})
    BY <2>1, <2>2 DEF PixelOK, InFront
  <2> QED BY <2>1, <2>3 DEF PixelOK
<1> QED BY <1>1 DEF ScreenOK

LEMMA MenuFacts ==
    ASSUME CompositorInv
    PROVE  /\ MenuHidden \in [Windows -> Blocks]
           /\ \A v \in Windows :
                 /\ SamePlace(win[v], MenuHidden[v])
                 /\ MenuHidden[v].moveToFront = win[v].moveToFront
                 /\ \/ MenuHidden[v] = win[v]
                    \/ MenuHidden[v].hidden /\ ~MenuHidden[v].oldHidden
<1>1. win \in [Windows -> Blocks] /\ Menu \in Windows /\ win[Menu] \in Blocks
  BY InvFacts
<1>2. CASE Menu \in Listed /\ ~win[Menu].hidden /\ activeWindow # Menu
  <2>1. MenuHidden = [win EXCEPT ![Menu].hidden = TRUE, ![Menu].oldHidden = FALSE]
    BY <1>2 DEF MenuHidden
  <2>2. PICK c : c = [[win[Menu] EXCEPT !.hidden = TRUE] EXCEPT !.oldHidden = FALSE]
    OBVIOUS
  <2>3. MenuHidden = [win EXCEPT ![Menu] = c]
    BY <1>1, <2>1, <2>2
  <2>4. /\ c \in Blocks /\ c.hidden /\ ~c.oldHidden
        /\ c.moveToFront = win[Menu].moveToFront /\ SamePlace(win[Menu], c)
    BY <1>1, <2>2 DEF Blocks, SamePlace
  <2>5. /\ MenuHidden \in [Windows -> Blocks] /\ MenuHidden[Menu] = c
        /\ \A v \in Windows : v # Menu => MenuHidden[v] = win[v]
    BY <1>1, <2>3, <2>4
  <2> QED BY <2>4, <2>5 DEF SamePlace
<1>3. CASE ~(Menu \in Listed /\ ~win[Menu].hidden /\ activeWindow # Menu)
  <2>1. MenuHidden = win
    BY <1>3 DEF MenuHidden
  <2> QED BY <1>1, <2>1 DEF SamePlace
<1> QED BY <1>2, <1>3

(* The window that is next gets visible, and waits to be raised.            *)
Wanted(blocks, w) ==
    [blocks EXCEPT ![w].moveToFront = TRUE, ![w].hidden = FALSE]

LEMMA WantedFacts ==
    ASSUME NEW blocks \in [Windows -> Blocks], NEW w \in Windows
    PROVE  /\ Wanted(blocks, w) \in [Windows -> Blocks]
           /\ Wanted(blocks, w)[w].moveToFront /\ ~Wanted(blocks, w)[w].hidden
           /\ \A v \in Windows : /\ v # w => Wanted(blocks, w)[v] = blocks[v]
                                 /\ SamePlace(blocks[v], Wanted(blocks, w)[v])
<1>1. PICK c : c = [[blocks[w] EXCEPT !.moveToFront = TRUE] EXCEPT !.hidden = FALSE]
  OBVIOUS
<1>2. /\ c \in Blocks /\ c.moveToFront /\ ~c.hidden /\ SamePlace(blocks[w], c)
  BY <1>1 DEF Blocks, SamePlace
<1>3. PICK f : f = Wanted(blocks, w)
  OBVIOUS
<1>4. f = [blocks EXCEPT ![w] = c]
  BY <1>1, <1>3 DEF Wanted
<1>5. /\ f \in [Windows -> Blocks] /\ f[w] = c
      /\ \A v \in Windows : v # w => f[v] = blocks[v]
  BY <1>2, <1>4
<1> QED BY <1>2, <1>3, <1>5 DEF SamePlace

(* A window that is put to the front of the list.                           *)
LEMMA MovedToFront ==
    ASSUME NEW list, EachOnce(list), NEW w \in Range(list),
           NEW new, new = Append(RemoveFirst(list, w), w)
    PROVE  /\ EachOnce(new) /\ Range(new) = Range(list)
           /\ \A a, b : InOrder(list, a, b) /\ a # w => InOrder(new, a, b)
           /\ \A a \in Range(list) : InOrder(new, a, w)
<1>1. PICK rest : rest = RemoveFirst(list, w)
  OBVIOUS
<1>2. /\ EachOnce(rest) /\ Range(rest) = Range(list) \ {w}
      /\ \A a, b : InOrder(list, a, b) /\ a # w /\ b # w => InOrder(rest, a, b)
  BY <1>1, TakenOut
<1>3. w \in Windows \ Range(rest) /\ new = Append(rest, w)
  BY <1>1, <1>2, ListFacts
<1>4. /\ EachOnce(new) /\ Range(new) = Range(rest) \cup {w}
      /\ \A a, b : InOrder(rest, a, b) => InOrder(new, a, b)
      /\ \A a \in Range(rest) \cup {w} : InOrder(new, a, w)
  BY <1>2, <1>3, PutInFront
<1>5. Range(new) = Range(list)
  BY <1>2, <1>4
<1>6. ASSUME NEW a, NEW b, InOrder(list, a, b), a # w PROVE InOrder(new, a, b)
  <2>1. CASE b = w
    BY <1>2, <1>4, <1>6, <2>1, OrderListed
  <2>2. CASE b # w
    BY <1>2, <1>4, <1>6, <2>2
  <2> QED BY <2>1, <2>2
<1> QED BY <1>2, <1>4, <1>5, <1>6

(* The first step of Activate, up to the window that is raised: w is active *)
(* from now on, and queue is what still waits.                              *)
Activated(w, queue, shown, px) ==
    \/ /\ windowsToGetActive # <<>>
       /\ w = Head(windowsToGetActive) /\ queue = Tail(windowsToGetActive)
       /\ shown = IF w \in Range(windows) THEN Wanted(MenuHidden, w) ELSE MenuHidden
       /\ px = UpdateWindowBorder(pixels, windows, shown, activeWindow)
    \/ /\ windowsToGetActive = <<>>
       /\ w = activeWindow /\ queue = windowsToGetActive
       /\ shown = MenuHidden /\ px = pixels

LEMMA ActivatedFacts ==
    ASSUME CompositorInv, NEW w, NEW queue, NEW shown, NEW px,
           Activated(w, queue, shown, px)
    PROVE  /\ w \in Windows \cup {NULL} /\ queue \in Seq(Windows \cup {NULL})
           /\ shown \in [Windows -> Blocks]
           /\ \A v \in Windows : SamePlace(win[v], shown[v])
           /\ \A v \in Windows : v # w => shown[v] = MenuHidden[v]
           /\ Range(windowsToGetActive) \subseteq Range(queue) \cup {w}
           /\ \/ w \notin Range(windows)
              \/ shown[w].moveToFront /\ ~shown[w].hidden
              \/ /\ w = activeWindow /\ shown = MenuHidden
                 /\ queue = windowsToGetActive /\ Range(queue) = {}
<1>1. /\ MenuHidden \in [Windows -> Blocks]
      /\ \A v \in Windows : SamePlace(win[v], MenuHidden[v])
  BY MenuFacts
<1>2. CASE windowsToGetActive # <<>>
  <2>1. /\ w = Head(windowsToGetActive) /\ queue = Tail(windowsToGetActive)
        /\ shown = IF w \in Range(windows) THEN Wanted(MenuHidden, w) ELSE MenuHidden
    BY <1>2 DEF Activated
  <2>2. /\ w \in Windows \cup {NULL} /\ queue \in Seq(Windows \cup {NULL})
        /\ Range(windowsToGetActive) = {w} \cup Range(queue)
    BY <1>2, <2>1, InvFacts, RangeOfTail
  <2>3. CASE w \in Range(windows)
    <3>1. w \in Windows /\ shown = Wanted(MenuHidden, w)
      BY <2>1, <2>3, InvFacts
    <3>2. /\ shown \in [Windows -> Blocks]
          /\ shown[w].moveToFront /\ ~shown[w].hidden
          /\ \A v \in Windows : /\ v # w => shown[v] = MenuHidden[v]
                                /\ SamePlace(MenuHidden[v], shown[v])
      BY <1>1, <3>1, WantedFacts
    <3>3. \A v \in Windows : SamePlace(win[v], shown[v])
      BY <1>1, <3>2 DEF SamePlace
    <3> QED BY <2>2, <3>2, <3>3
  <2>4. CASE w \notin Range(windows)
    BY <1>1, <2>1, <2>2, <2>4
  <2> QED BY <2>3, <2>4
<1>3. CASE windowsToGetActive = <<>>
  <2>1. /\ w = activeWindow /\ queue = windowsToGetActive /\ shown = MenuHidden
    BY <1>3 DEF Activated
  <2>2. Range(queue) = {}
    BY <1>3, <2>1 DEF Range
  <2> QED BY <1>1, <2>1, <2>2, InvFacts
<1> QED BY <1>2, <1>3

LEMMA ActivatedOK ==
    ASSUME CompositorInv, NEW w, NEW queue, NEW shown, NEW px,
           Activated(w, queue, shown, px)
    PROVE  ScreenOK(px, windows, shown, GoneOf(shown, w),
                    SettledOf(windows, shown, queue), overdrawn)
<1> DEFINE B == GoneOf(shown, w)
           S == SettledOf(windows, shown, queue)
<1>1. /\ shown \in [Windows -> Blocks]
      /\ \A v \in Windows : SamePlace(win[v], shown[v])
      /\ \A v \in Windows : v # w => shown[v] = MenuHidden[v]
      /\ Range(windowsToGetActive) \subseteq Range(queue) \cup {w}
      /\ \/ w \notin Range(windows)
         \/ shown[w].moveToFront /\ ~shown[w].hidden
         \/ w = activeWindow /\ shown = MenuHidden /\ queue = windowsToGetActive
  BY ActivatedFacts
<1>2. \A v \in Windows :
         \/ MenuHidden[v] = win[v]
         \/ MenuHidden[v].hidden /\ ~MenuHidden[v].oldHidden
  BY MenuFacts
<1>3. B \subseteq Windows /\ B \cap Range(windows) \subseteq GoneOf(win, activeWindow)
  <2>1. ASSUME NEW v \in B, v \in Range(windows) PROVE v \in GoneOf(win, activeWindow)
    <3>1. /\ v \in Windows /\ shown[v].hidden /\ shown[v].oldHidden
          /\ (~shown[v].moveToFront) \/ v = w
      BY DEF GoneOf
    <3>2. CASE v # w
      BY <1>1, <1>2, <3>1, <3>2 DEF GoneOf
    <3>3. CASE v = w
      BY <1>1, <1>2, <2>1, <3>1, <3>3 DEF GoneOf
    <3> QED BY <3>2, <3>3
  <2>2. B \subseteq Windows
    BY DEF GoneOf
  <2> QED BY <2>1, <2>2
<1>4. S \subseteq SettledOf(windows, win, windowsToGetActive)
  <2> SUFFICES ASSUME NEW v \in S PROVE v \in SettledOf(windows, win, windowsToGetActive)
    OBVIOUS
  <2>1. /\ v \in Range(windows) /\ ~shown[v].hidden /\ ~shown[v].oldHidden
        /\ ~shown[v].moveToFront /\ v \notin Range(queue) /\ v \in Windows
    BY InvFacts DEF SettledOf
  <2>2. CASE v # w
    BY <1>1, <1>2, <2>1, <2>2 DEF SettledOf
  <2>3. CASE v = w
    BY <1>1, <1>2, <2>1, <2>3 DEF SettledOf
  <2> QED BY <2>2, <2>3
<1>5. \A v \in Range(windows) : SamePlace(win[v], shown[v])
  BY <1>1, InvFacts
<1>6. Sorted(windows, shown, B, S)
  BY <1>1, InvFacts, SortedWindows
<1> HIDE DEF B, S
<1>7. ScreenOK(pixels, windows, shown, B, S, overdrawn)
  BY <1>3, <1>4, <1>5, InvFacts, ScreenKept DEF ScreenInv
<1>8. ScreenOK(UpdateWindowBorder(pixels, windows, shown, activeWindow),
               windows, shown, B, S, overdrawn)
  BY <1>6, <1>7, BorderOK
<1>9. px = pixels \/ px = UpdateWindowBorder(pixels, windows, shown, activeWindow)
  BY DEF Activated
<1> QED BY <1>7, <1>8, <1>9 DEF B, S

(* The window that waits to be raised comes to the front, and is drawn.     *)
LEMMA RaisedOK ==
    ASSUME CompositorInv, NEW w, NEW queue, NEW shown, NEW px,
           Activated(w, queue, shown, px), w \in Range(windows),
           NEW list, list = Append(RemoveFirst(windows, w), w),
           NEW blocks, blocks = [shown EXCEPT ![w].moveToFront = FALSE], NEW u
    PROVE  /\ EachOnce(list) /\ Range(list) = Range(windows)
           /\ blocks \in [Windows -> Blocks]
           /\ \A v \in Windows : SamePlace(win[v], blocks[v])
           /\ FrontOK(list, blocks, w, queue)
           /\ ScreenOK(Raised(UpdateWindowBorder(px, list, blocks, u), list, blocks, w),
                       list, blocks, GoneOf(blocks, w),
                       SettledOf(list, blocks, queue), overdrawn \ {w})
<1>1. /\ shown \in [Windows -> Blocks] /\ w \in Windows
      /\ \A v \in Windows : SamePlace(win[v], shown[v])
      /\ overdrawn \subseteq Windows /\ EachOnce(windows)
      /\ Range(windows) \subseteq Windows
  BY ActivatedFacts, InvFacts
<1>2. /\ EachOnce(list) /\ Range(list) = Range(windows)
      /\ \A a, b : InOrder(windows, a, b) /\ a # w => InOrder(list, a, b)
      /\ \A a \in Range(windows) : InOrder(list, a, w)
  BY <1>1, MovedToFront
<1>3. /\ blocks \in [Windows -> Blocks]
      /\ blocks[w].hidden = shown[w].hidden
      /\ blocks[w].oldHidden = shown[w].oldHidden /\ ~blocks[w].moveToFront
      /\ \A v \in Windows : v # w => blocks[v] = shown[v]
      /\ \A v \in Windows : SamePlace(shown[v], blocks[v])
  <2>1. PICK c : c = [shown[w] EXCEPT !.moveToFront = FALSE]
    OBVIOUS
  <2>2. blocks = [shown EXCEPT ![w] = c]
    BY <1>1, <2>1
  <2>3. /\ c \in Blocks /\ c.hidden = shown[w].hidden
        /\ c.oldHidden = shown[w].oldHidden /\ ~c.moveToFront
        /\ SamePlace(shown[w], c)
    BY <1>1, <2>1 DEF Blocks, SamePlace
  <2>4. /\ blocks \in [Windows -> Blocks] /\ blocks[w] = c
        /\ \A v \in Windows : v # w => blocks[v] = shown[v]
    BY <1>1, <2>2, <2>3
  <2> QED BY <2>3, <2>4 DEF SamePlace
<1>4. \A v \in Windows : SamePlace(win[v], blocks[v])
  BY <1>1, <1>3 DEF SamePlace
<1>5. FrontOK(list, blocks, w, queue)
  <2>1. ASSUME NEW v \in Range(list), v # w, InOrder(list, w, v) PROVE FALSE
    BY <1>2, <2>1, OrderOnce
  <2> QED BY <2>1 DEF FrontOK
<1> DEFINE B0 == GoneOf(shown, w)
           S0 == SettledOf(windows, shown, queue)
           B == GoneOf(blocks, w)
           S == SettledOf(list, blocks, queue)
           first == UpdateWindowBorder(px, list, blocks, u)
           drawn == RenderWindow(first, w, blocks[w])
<1>5b. S \subseteq Range(list)
  BY DEF SettledOf
<1>6. Sorted(list, blocks, B, S)
  <2>1. EachOnce(list) /\ Range(list) \subseteq Windows /\ blocks \in [Windows -> Blocks]
    BY <1>1, <1>2, <1>3
  <2> QED BY ONLY <2>1, SortedWindows
<1>7. Sorted(list, blocks, B, S \ {w})
  BY <1>5b, <1>6 DEF Sorted
<1>8. ScreenOK(px, list, blocks, B, S \ {w}, overdrawn)
  <2>1. ScreenOK(px, windows, shown, B0, S0, overdrawn) /\ S0 \subseteq Range(windows)
    BY ActivatedOK DEF SettledOf
  <2>2. B \subseteq Windows /\ B \cap Range(windows) \subseteq B0
    BY <1>3 DEF GoneOf
  <2>3. S \ {w} \subseteq S0
    BY <1>1, <1>2, <1>3 DEF SettledOf
  <2>4. \A v \in Range(windows) : SamePlace(shown[v], blocks[v])
    BY <1>1, <1>3
  <2>5. \A a \in S \ {w} : \A b : InOrder(windows, a, b) => InOrder(list, a, b)
    BY <1>2
  <2>6. Range(windows) \subseteq Range(list)
    BY <1>2
  <2> HIDE DEF B, S, B0, S0
  <2> QED BY <2>1, <2>2, <2>3, <2>4, <2>5, <2>6, ScreenKept
<1> HIDE DEF B, S
<1>9. ScreenOK(px, list, blocks, B, S \ {w}, overdrawn \ {w})
  <2>1. \A v \in S \ {w} : InOrder(list, v, w)
    BY <1>2, <1>5b
  <2> QED BY <1>1, <1>8, <2>1, ForgetOK
<1>10. ScreenOK(first, list, blocks, B, S \ {w}, overdrawn \ {w})
  BY <1>7, <1>9, BorderOK
<1> HIDE DEF first
<1>11. ScreenOK(drawn, list, blocks, B, S, overdrawn \ {w})
  <2>1. w \in Range(list)
    BY <1>2
  <2>2. \/ w \in overdrawn \ {w}
        \/ \A v \in Range(list) : InOrder(list, v, w)
    BY <1>2
  <2> QED BY ONLY <1>6, <1>10, <2>1, <2>2, RenderOK
<1> HIDE DEF drawn
<1>12. ScreenOK(UpdateWindowBorder(drawn, list, blocks, w),
                list, blocks, B, S, overdrawn \ {w})
  BY <1>6, <1>11, BorderOK
<1>13. Raised(first, list, blocks, w) = UpdateWindowBorder(drawn, list, blocks, w)
  BY DEF Raised, drawn
<1> QED BY <1>2, <1>3, <1>4, <1>5, <1>12, <1>13 DEF first, B, S

(* No window waits: the active one is in front already.                     *)
LEMMA NotRaisedOK ==
    ASSUME CompositorInv, NEW w, NEW queue, NEW shown, NEW px,
           Activated(w, queue, shown, px),
           w \notin Range(windows) \/ ~shown[w].moveToFront, NEW u
    PROVE  /\ FrontOK(windows, shown, w, queue)
           /\ ScreenOK(px, windows, shown, GoneOf(shown, w),
                       SettledOf(windows, shown, queue), overdrawn \ {w})
           /\ ScreenOK(UpdateWindowBorder(px, windows, shown, u), windows, shown,
                       GoneOf(shown, w), SettledOf(windows, shown, queue),
                       overdrawn \ {w})
<1> DEFINE B == GoneOf(shown, w)
           S == SettledOf(windows, shown, queue)
<1>1. /\ shown \in [Windows -> Blocks]
      /\ w \in Range(windows) =>
            /\ w = activeWindow /\ shown = MenuHidden
            /\ queue = windowsToGetActive /\ Range(queue) = {}
  BY ActivatedFacts
<1>2. \A v \in Windows :
         /\ MenuHidden[v].moveToFront = win[v].moveToFront
         /\ \/ MenuHidden[v] = win[v]
            \/ MenuHidden[v].hidden
  BY MenuFacts
<1>3. ASSUME w \in Range(windows), NEW v \in Range(windows), v # w,
             InOrder(windows, w, v)
      PROVE  shown[v].hidden \/ shown[v].moveToFront
  <2>1. /\ w = activeWindow /\ shown = MenuHidden /\ Range(windowsToGetActive) = {}
        /\ ~win[w].moveToFront /\ v \in Windows /\ w \in Windows
    BY <1>1, <1>2, <1>3, InvFacts
  <2>2. win[v].hidden \/ win[v].moveToFront
    BY <1>3, <2>1, InvFacts DEF FrontOK
  <2> QED BY <1>2, <2>1, <2>2
<1>4. FrontOK(windows, shown, w, queue)
  BY <1>3 DEF FrontOK
<1>5. w \in Range(windows) => \A v \in S : InOrder(windows, v, w)
  <2> SUFFICES ASSUME w \in Range(windows), NEW v \in S, ~InOrder(windows, v, w)
               PROVE  FALSE
    OBVIOUS
  <2>1. v \in Range(windows) /\ ~shown[v].hidden /\ ~shown[v].moveToFront
    BY DEF SettledOf
  <2>2. InOrder(windows, w, v) /\ v # w
    BY <2>1, InvFacts, OrderTotal
  <2> QED BY <1>3, <2>1, <2>2
<1>6. ScreenOK(px, windows, shown, B, S, overdrawn)
  BY ActivatedOK
<1>7. Sorted(windows, shown, B, S) /\ overdrawn \subseteq Windows
  BY <1>1, InvFacts, SortedWindows
<1> HIDE DEF B, S
<1>8. ScreenOK(px, windows, shown, B, S, overdrawn \ {w})
  BY <1>5, <1>6, <1>7, ForgetOK
<1>9. ScreenOK(UpdateWindowBorder(px, windows, shown, u),
               windows, shown, B, S, overdrawn \ {w})
  BY <1>7, <1>8, BorderOK
<1> QED BY <1>4, <1>8, <1>9 DEF B, S

LEMMA ActivateKeeps ==
    ASSUME CompositorInv, Activate
    PROVE  CompositorInv'
<1> DEFINE queued == windowsToGetActive # <<>>
           next_ == IF queued THEN Head(windowsToGetActive) ELSE activeWindow
<1>1. PICK w : w = next_
  OBVIOUS
<1>2. PICK shown : shown = IF queued /\ w \in Listed THEN Wanted(MenuHidden, w)
                           ELSE MenuHidden
  OBVIOUS
<1>3. PICK px : px = IF queued THEN UpdateWindowBorder(pixels, windows, shown, activeWindow)
                     ELSE pixels
  OBVIOUS
<1>4. PICK queue : queue = IF queued THEN Tail(windowsToGetActive) ELSE windowsToGetActive
  OBVIOUS
<1>5. Activated(w, queue, shown, px)
  BY <1>1, <1>2, <1>3, <1>4 DEF Activated, Listed
<1>6. PICK list : list = Append(RemoveFirst(windows, w), w)
  OBVIOUS
<1>7. PICK blocks : blocks = [shown EXCEPT ![w].moveToFront = FALSE]
  OBVIOUS
<1>8. /\ activeWindow' = w /\ windowsToGetActive' = queue
      /\ overdrawn' = overdrawn \ {w} /\ inputs' = inputs
      /\ pc = "tasks" /\ pc' = "update" /\ next' = 1
  BY <1>1, <1>4 DEF Activate
<1>9. \/ /\ w \in Range(windows) /\ shown[w].moveToFront
         /\ windows' = list /\ win' = blocks
         /\ pixels' = Raised(UpdateWindowBorder(px, list, blocks, Last(windows)),
                             list, blocks, w)
      \/ /\ w \notin Range(windows) \/ ~shown[w].moveToFront
         /\ windows' = windows /\ win' = shown
         /\ \/ pixels' = px
            \/ pixels' = UpdateWindowBorder(px, windows, shown, Last(windows))
  BY <1>1, <1>2, <1>3, <1>6, <1>7 DEF Activate, Wanted, Listed
<1>10. PICK u : u = Last(windows)
  OBVIOUS
<1> HIDE DEF queued, next_
<1>11. /\ EachOnce(windows') /\ Range(windows') = Range(windows)
       /\ win' \in [Windows -> Blocks]
       /\ \A v \in Windows : SamePlace(win[v], win'[v])
       /\ FrontOK(windows', win', w, queue)
       /\ ScreenOK(pixels', windows', win', GoneOf(win', w),
                   SettledOf(windows', win', queue), overdrawn \ {w})
  <2>1. CASE /\ w \in Range(windows) /\ shown[w].moveToFront
             /\ windows' = list /\ win' = blocks
             /\ pixels' = Raised(UpdateWindowBorder(px, list, blocks, Last(windows)),
                                 list, blocks, w)
    <3>1. /\ EachOnce(list) /\ Range(list) = Range(windows)
          /\ blocks \in [Windows -> Blocks]
          /\ \A v \in Windows : SamePlace(win[v], blocks[v])
          /\ FrontOK(list, blocks, w, queue)
          /\ ScreenOK(Raised(UpdateWindowBorder(px, list, blocks, u), list, blocks, w),
                      list, blocks, GoneOf(blocks, w),
                      SettledOf(list, blocks, queue), overdrawn \ {w})
      BY <1>5, <1>6, <1>7, <2>1, RaisedOK
    <3> QED BY <1>10, <2>1, <3>1
  <2>2. CASE /\ w \notin Range(windows) \/ ~shown[w].moveToFront
             /\ windows' = windows /\ win' = shown
             /\ \/ pixels' = px
                \/ pixels' = UpdateWindowBorder(px, windows, shown, Last(windows))
    <3>1. /\ FrontOK(windows, shown, w, queue)
          /\ ScreenOK(px, windows, shown, GoneOf(shown, w),
                      SettledOf(windows, shown, queue), overdrawn \ {w})
          /\ ScreenOK(UpdateWindowBorder(px, windows, shown, u), windows, shown,
                      GoneOf(shown, w), SettledOf(windows, shown, queue),
                      overdrawn \ {w})
      BY <1>5, <2>2, NotRaisedOK
    <3>2. shown \in [Windows -> Blocks] /\ \A v \in Windows : SamePlace(win[v], shown[v])
      BY <1>5, ActivatedFacts
    <3> QED BY <1>10, <2>2, <3>1, <3>2, InvFacts
  <2> QED BY <1>9, <2>1, <2>2
<1>12. Types'
  <2>1. \A v \in Range(windows') : win'[v].size >= MinSize
    BY <1>11, InvFacts DEF CompositorInv, Types, SamePlace
  <2>2. w \in Windows \cup {NULL} /\ queue \in Seq(Windows \cup {NULL})
    BY <1>5, ActivatedFacts
  <2>3. overdrawn' \subseteq Windows
    BY <1>8, InvFacts
  <2>4. inputs' \in 0 .. MaxInputs
    BY <1>8 DEF CompositorInv, Types
  <2>5. next' \in Nat \ {0}
    BY <1>8
  <2> QED BY <1>8, <1>11, <2>1, <2>2, <2>3, <2>4, <2>5 DEF Types
<1>13. ScreenInv'
  BY <1>8, <1>11 DEF ScreenInv
<1>14. Noticed'
  BY <1>8 DEF Noticed
<1>15. FrontOK(windows, win, activeWindow, windowsToGetActive)'
  BY <1>8, <1>11
<1> QED BY <1>12, <1>13, <1>14, <1>15 DEF CompositorInv

-----------------------------------------------------------------------------
LEMMA InitCompositor == Init => CompositorInv
<1> SUFFICES ASSUME Init PROVE CompositorInv
  OBVIOUS
<1>1. /\ First \in Windows /\ Menu \in Windows /\ First # Menu /\ NULL \notin Windows
      /\ MinSize \in Nat /\ MaxInputs \in Nat
  BY CompositorAssumption
<1>2. /\ windows = <<Menu, First>> /\ pixels = RenderWindows(windows, win)
      /\ activeWindow = First /\ windowsToGetActive = <<>> /\ pc = "tasks" /\ next = 1
      /\ overdrawn = {} /\ inputs = 0
  BY DEF Init
<1>3. /\ windows \in Seq(Windows) /\ Len(windows) = 2
      /\ windows[1] = Menu /\ windows[2] = First
  BY <1>1, <1>2
<1>4. EachOnce(windows) /\ Range(windows) = {Menu, First}
  <2>1. DOMAIN windows = {1, 2}
    BY <1>3
  <2> QED BY <1>1, <1>3, <2>1 DEF EachOnce, IsInjective, Range
<1>5. /\ win \in [Windows -> Blocks]
      /\ \A w \in Windows : win[w].size = MinSize
  <2>1. win = [w \in Windows |->
                IF w = First THEN Window(SidePosition, MinSize, FALSE, FALSE)
                ELSE [Window(StartPosition, MinSize, TRUE, FALSE) EXCEPT !.moveToFront = TRUE]]
    BY DEF Init
  <2>2. PICK b : b = Window(SidePosition, MinSize, FALSE, FALSE)
    OBVIOUS
  <2>3. PICK c : c = [Window(StartPosition, MinSize, TRUE, FALSE) EXCEPT !.moveToFront = TRUE]
    OBVIOUS
  <2>4. b \in Blocks /\ b.size = MinSize
    BY <1>1, <2>2, Places DEF Window, Blocks
  <2>5. c \in Blocks /\ c.size = MinSize
    <3>1. PICK d : d = Window(StartPosition, MinSize, TRUE, FALSE)
      OBVIOUS
    <3>2. d \in Blocks /\ d.size = MinSize
      BY <1>1, <3>1, Places DEF Window, Blocks
    <3>3. c = [d EXCEPT !.moveToFront = TRUE]
      BY <2>3, <3>1
    <3> QED BY <3>2, <3>3 DEF Blocks
  <2>6. win = [w \in Windows |-> IF w = First THEN b ELSE c]
    BY <2>1, <2>2, <2>3
  <2> QED BY <2>4, <2>5, <2>6
<1>6. ScreenInv
  BY <1>2, <1>4, <1>5, SortedWindows, RenderAllOK DEF ScreenInv
<1>7. FrontOK(windows, win, activeWindow, windowsToGetActive)
  <2>1. ~InOrder(windows, First, Menu)
    BY <1>1, <1>3 DEF InOrder
  <2> QED BY <1>2, <1>4, <2>1 DEF FrontOK
<1>8. Types
  <2>1. \A w \in Range(windows) : win[w].size >= MinSize
    BY <1>1, <1>4, <1>5
  <2>2. windowsToGetActive \in Seq(Windows \cup {NULL})
    BY <1>2
  <2> QED BY <1>1, <1>2, <1>4, <1>5, <2>1, <2>2 DEF Types
<1> QED BY <1>2, <1>6, <1>7, <1>8 DEF CompositorInv, Noticed

LEMMA NextCompositor == CompositorInv /\ [Next]_vars => CompositorInv'
<1> SUFFICES ASSUME CompositorInv, [Next]_vars PROVE CompositorInv'
  OBVIOUS
<1>1. CASE \E w \in Windows : ChangeWindow(w) \/ Close(w) \/ ResizeCommand(w) \/ ClickHide(w)
  BY <1>1, ChangeWindowKeeps, CloseKeeps, ResizeCommandKeeps, ClickHideKeeps
<1>2. CASE \E w \in Windows : \/ \E hide \in BOOLEAN : OpenTerminal(w, hide)
                              \/ OpenNewWindow(w) \/ OpenApplication(w)
  BY <1>2, OpeningKeeps
<1>3. CASE \E w \in Windows \cup {NULL} : GetActive(w) \/ Recover(w) \/ ClickTo(w)
  BY <1>3, GetActiveKeeps, RecoverKeeps, ClickToKeeps
<1>4. CASE RenderAll \/ Activate \/ UpdateWindow \/ UpdateTaskbar \/ Render
  BY <1>4, RenderAllKeeps, ActivateKeeps, UpdateWindowKeeps, UpdateTaskbarKeeps,
     RenderKeeps
<1>5. CASE UNCHANGED vars
  <2>1. /\ windows' = windows /\ win' = win /\ pixels' = pixels
        /\ activeWindow' = activeWindow /\ windowsToGetActive' = windowsToGetActive
        /\ pc' = pc /\ next' = next /\ overdrawn' = overdrawn /\ inputs' = inputs
    BY <1>5 DEF vars
  <2> QED BY <2>1 DEF CompositorInv, Types, ScreenInv, Noticed
<1> QED BY <1>1, <1>2, <1>3, <1>4, <1>5 DEF Next

LEMMA AlwaysCompositor == Spec => []CompositorInv
<1> QED BY InitCompositor, NextCompositor, PTL DEF Spec

(* A pixel that is drawn for a window points into its present framebuffer,  *)
(* at the place where the window is, or to its border, and the window is    *)
(* open (windowManager.cpp: Render reads through every pointer).            *)
THEOREM PixelsStayInPlace == Spec => []PixelsInPlace
<1>1. CompositorInv => PixelsInPlace
  <2> SUFFICES ASSUME CompositorInv PROVE PixelsInPlace
    OBVIOUS
  <2>1. \A x \in Screen : PixelOK(pixels[x], x, windows, win, GoneOf(win, activeWindow),
                              SettledOf(windows, win, windowsToGetActive), overdrawn)
    BY InvFacts DEF ScreenInv, ScreenOK
  <2>2. pixels \in [Screen -> Pixels]
    <3>1. pixels = [x \in Screen |-> pixels[x]]
      BY InvFacts DEF ScreenInv, ScreenOK
    <3>2. \A x \in Screen : pixels[x] \in Pixels
      BY <2>1 DEF PixelOK
    <3> QED BY ONLY <3>1, <3>2
  <2>3. TypeOK
    BY <2>2 DEF TypeOK, CompositorInv, Types, EachOnce, Listed, Pixels
  <2> QED BY <2>1, <2>3 DEF PixelsInPlace, PixelOK, InPlace, Listed
<1> QED BY <1>1, AlwaysCompositor, PTL

(* Of a window that is hidden, and was at the last update, nothing is seen  *)
(* (kernel.cpp: RenderLoop, mouse.cpp: HandleClick).                        *)
THEOREM HiddenStaysUnseen == Spec => []HiddenNotShown
<1>1. CompositorInv => HiddenNotShown
  <2> SUFFICES ASSUME CompositorInv, NEW x \in Screen, pixels[x].of # NULL
               PROVE  \/ ~win[pixels[x].of].hidden \/ ~win[pixels[x].of].oldHidden
                      \/ win[pixels[x].of].moveToFront
    BY DEF HiddenNotShown
  <2>1. PixelOK(pixels[x], x, windows, win, GoneOf(win, activeWindow),
                SettledOf(windows, win, windowsToGetActive), overdrawn)
    BY InvFacts DEF ScreenInv, ScreenOK
  <2>2. pixels[x].of \in Windows /\ pixels[x].of \notin GoneOf(win, activeWindow)
    BY <2>1, InvFacts DEF PixelOK, InPlace
  <2> QED BY <2>2 DEF GoneOf
<1> QED BY <1>1, AlwaysCompositor, PTL

(* Where a settled window is, nothing behind it is seen, but for windows    *)
(* that the command "set window size" drew over others                      *)
(* (windowManager.cpp: UpdatePointerRect, RenderWindow).                    *)
THEOREM WindowsStayStacked == Spec => []StackingShown
<1>1. CompositorInv => StackingShown
  <2> SUFFICES ASSUME CompositorInv, NEW w \in Listed, Settled(w),
                      NEW x \in Inside(win[w]) \cap Screen,
                      x # Taskbar, pixels[x].of \notin overdrawn
               PROVE  Depth(pixels[x].of) >= Depth(w)
    BY DEF StackingShown
  <2>1. PixelOK(pixels[x], x, windows, win, GoneOf(win, activeWindow),
                SettledOf(windows, win, windowsToGetActive), overdrawn)
    BY InvFacts DEF ScreenInv, ScreenOK
  <2>2. w \in SettledOf(windows, win, windowsToGetActive)
    BY DEF SettledOf, Settled, Listed
  <2>3. InOrder(windows, w, pixels[x].of)
    BY <2>1, <2>2 DEF PixelOK, InFront
  <2> QED BY <2>3, InvFacts, DepthInOrder
<1> QED BY <1>1, AlwaysCompositor, PTL
=============================================================================
