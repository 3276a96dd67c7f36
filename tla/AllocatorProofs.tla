-------------------------- MODULE AllocatorProofs --------------------------
(***************************************************************************)
(* The memory of the kernel.  The heap never gives a block to two callers,  *)
(* panics only for lack of memory and counts what it gives, for any sizes,  *)
(* cache and memory and interrupts at any step, until a handler overtakes   *)
(* malloc or free.  The page allocator does the same, for every size of     *)
(* memory, every reserved range, every place of the bitmap and every size   *)
(* of request.  The two share nothing but this module.                      *)
(***************************************************************************)
EXTENDS PageFrameAllocator, Heap, SequenceLemmas, FiniteSetTheorems

-----------------------------------------------------------------------------
(* The list of segments as a set of addresses: each segment ends where the  *)
(* next one begins, and they know each other.                               *)
Headers == [length : 0 .. MaxLen, next : 0 .. MaxLen, last : 0 .. MaxLen,
            free : BOOLEAN, magic : BOOLEAN]
Heaps == [seg : [Addresses -> Headers], lastHdr : Int, heapEnd : Int,
          heapCount : Int, usedHeapCount : Int, usedHeapAmount : Int]

EndOf(g, a) == a + HeaderLen + g.seg[a].length

Listed(g, S) ==
    /\ g \in Heaps /\ S \subseteq Addresses
    /\ HeapStart \in S /\ g.lastHdr \in S
    /\ EndOf(g, g.lastHdr) = g.heapEnd /\ g.heapEnd <= MaxLen + 1
    /\ \A a \in S : /\ g.seg[a].magic /\ g.seg[a].length \in Nat \ {0}
                    /\ EndOf(g, a) <= g.heapEnd
    /\ \A a \in S : g.seg[a].next =
                       IF a = g.lastHdr THEN NULL ELSE EndOf(g, a)
    /\ \A a \in S : a # g.lastHdr => /\ EndOf(g, a) \in S
                                     /\ g.seg[EndOf(g, a)].last = a
    /\ g.seg[HeapStart].last = NULL
    /\ \A a \in S : a # HeapStart => /\ g.seg[a].last \in S
                                     /\ EndOf(g, g.seg[a].last) = a
    /\ \A a, b \in S : a < b => EndOf(g, a) <= b

-----------------------------------------------------------------------------
(* The blocks of the segments at the addresses in U, one by one: their      *)
(* number is the sum of the lengths.                                        *)
Cells(g, U) == {p \in U \X (1 .. MaxLen) : p[2] <= g.seg[p[1]].length}

LEMMA CellsFinite ==
    ASSUME NEW g \in Heaps, NEW U \in SUBSET Addresses
    PROVE  /\ IsFiniteSet(U) /\ Cardinality(U) \in Nat
           /\ IsFiniteSet(Cells(g, U)) /\ Cardinality(Cells(g, U)) \in Nat
<1>1. IsFiniteSet(Addresses) /\ IsFiniteSet(1 .. MaxLen)
  BY FS_Interval, HeapAssumption DEF Addresses, HeapStart
<1>2. IsFiniteSet(U)
  BY <1>1, FS_Subset
<1>3. IsFiniteSet(U \X (1 .. MaxLen))
  BY <1>1, <1>2, FS_Product
<1>4. Cells(g, U) \in SUBSET (U \X (1 .. MaxLen))
  BY DEF Cells
<1>5. IsFiniteSet(Cells(g, U))
  BY <1>3, <1>4, FS_Subset
<1> QED BY <1>2, <1>5, FS_CardinalityType

LEMMA CellsAdd ==
    ASSUME NEW g \in Heaps, NEW U \in SUBSET Addresses, NEW a \in Addresses, a \notin U
    PROVE  Cardinality(Cells(g, U \cup {a})) = Cardinality(Cells(g, U)) + g.seg[a].length
<1> DEFINE n == g.seg[a].length
           new == {a} \X (1 .. n)
<1>1. n \in 0 .. MaxLen /\ n \in Nat /\ MaxLen \in Nat
  BY HeapAssumption DEF Heaps, Headers
<1> HIDE DEF n
<1>2. IsFiniteSet({a}) /\ Cardinality({a}) = 1
  BY FS_Singleton
<1>3. IsFiniteSet(1 .. n) /\ Cardinality(1 .. n) = n
  <2>1. /\ IsFiniteSet(1 .. n)
        /\ Cardinality(1 .. n) = IF 1 > n THEN 0 ELSE n - 1 + 1
    BY <1>1, FS_Interval
  <2> QED BY <1>1, <2>1
<1>4. IsFiniteSet(new) /\ Cardinality(new) = n
  <2>1. IsFiniteSet(new) /\ Cardinality(new) = Cardinality({a}) * Cardinality(1 .. n)
    BY <1>2, <1>3, FS_Product
  <2> QED BY <1>1, <1>2, <1>3, <2>1
<1>5. Cells(g, U \cup {a}) = Cells(g, U) \cup new
  BY <1>1 DEF Cells, n
<1>6. Cells(g, U) \cap new = {}
  BY DEF Cells
<1>7. IsFiniteSet(Cells(g, U)) /\ Cardinality(Cells(g, U)) \in Nat
  BY CellsFinite
<1> HIDE DEF new
<1>8. Cardinality(Cells(g, U) \cup new)
        = Cardinality(Cells(g, U)) + Cardinality(new) - Cardinality({})
  BY <1>4, <1>6, <1>7, FS_Union
<1>9. Cardinality({}) = 0
  BY FS_EmptySet
<1> DEFINE x == Cardinality(Cells(g, U \cup {a}))
           y == Cardinality(Cells(g, U))
<1>10. x = y + Cardinality(new) - Cardinality({}) /\ y \in Nat
  BY <1>5, <1>7, <1>8
<1> HIDE DEF x, y
<1>11. x = y + n
  BY <1>1, <1>4, <1>9, <1>10
<1> QED BY <1>11 DEF n, x, y

LEMMA CellsSame ==
    ASSUME NEW g, NEW k, NEW U, \A a \in U : k.seg[a].length = g.seg[a].length
    PROVE  Cells(k, U) = Cells(g, U)
  BY DEF Cells

(* The sum by which CountersAgree counts, as a number of blocks.            *)
Amount(g, U) == MapThenSumSet(LAMBDA a : g.seg[a].length, U)

LEMMA AmountIsCells ==
    ASSUME NEW g \in Heaps, NEW U \in SUBSET Addresses
    PROVE  Amount(g, U) = Cardinality(Cells(g, U))
<1> DEFINE Pick(s) == CHOOSE x \in s : TRUE
           Eqn(f) == [s \in SUBSET U |->
                         IF s = {} THEN 0
                         ELSE g.seg[Pick(s)].length + f[s \ {Pick(s)}]]
           sum == CHOOSE f : f = Eqn(f)
           c == [s \in SUBSET U |-> Cardinality(Cells(g, s))]
<1>1. Amount(g, U) = sum[U]
  BY DEF Amount, MapThenSumSet, MapThenFoldSet
<1>2. \A s \in SUBSET U : s # {} => Pick(s) \in s
  OBVIOUS
<1>3. \A s \in SUBSET U : c[s] = IF s = {} THEN 0
                                 ELSE g.seg[Pick(s)].length + c[s \ {Pick(s)}]
  <2> SUFFICES ASSUME NEW s \in SUBSET U
               PROVE  c[s] = IF s = {} THEN 0
                             ELSE g.seg[Pick(s)].length + c[s \ {Pick(s)}]
    OBVIOUS
  <2>1. CASE s = {}
    <3>1. Cells(g, {}) = {}
      BY DEF Cells
    <3> QED BY <2>1, <3>1, FS_EmptySet
  <2>2. CASE s # {}
    <3> DEFINE a == Pick(s)
               r == s \ {a}
    <3>1. a \in s /\ r \in SUBSET Addresses /\ a \in Addresses /\ a \notin r
          /\ r \in SUBSET U /\ r \cup {a} = s
      BY <1>2, <2>2
    <3> HIDE DEF a
    <3>2. Cardinality(Cells(g, r \cup {a}))
             = Cardinality(Cells(g, r)) + g.seg[a].length
      BY <3>1, CellsAdd
    <3>3. Cardinality(Cells(g, r)) \in Nat /\ g.seg[a].length \in Nat
      BY <3>1, CellsFinite, HeapAssumption DEF Heaps, Headers
    <3>4. c[s] = g.seg[a].length + c[r]
      <4>1. c[s] = Cardinality(Cells(g, r \cup {a})) /\ c[r] = Cardinality(Cells(g, r))
        BY <3>1
      <4> HIDE DEF c, r
      <4> QED BY <3>2, <3>3, <4>1
    <3> QED BY <2>2, <3>4 DEF a
  <2> QED BY <2>1, <2>2
<1>4. c = Eqn(c)
  <2> HIDE DEF Pick
  <2>1. c = [s \in SUBSET U |-> c[s]]
    OBVIOUS
  <2>2. ASSUME NEW s \in SUBSET U PROVE c[s] = Eqn(c)[s]
    <3> HIDE DEF c
    <3> QED BY <1>3
  <2> QED BY <2>1, <2>2
<1>5. sum = Eqn(sum)
  <2>1. \E f : f = Eqn(f)
    BY <1>4
  <2> HIDE DEF Eqn
  <2> QED BY <2>1
<1> HIDE DEF sum
<1>6. \A s \in SUBSET U : sum[s] = IF s = {} THEN 0
                                   ELSE g.seg[Pick(s)].length + sum[s \ {Pick(s)}]
  <2> HIDE DEF Pick
  <2> QED BY <1>5
<1> HIDE DEF c, Pick
<1> DEFINE Bad == {s \in SUBSET U : sum[s] # c[s]}
           Many == {Cardinality(s) : s \in Bad}
<1>7. Bad = {}
  <2> SUFFICES ASSUME Bad # {} PROVE FALSE
    OBVIOUS
  <2>1. \A s \in SUBSET U : IsFiniteSet(s) /\ Cardinality(s) \in Nat
    BY CellsFinite
  <2>2. Many \subseteq Nat /\ Many # {}
    BY <2>1
  <2>3. PICK n \in Many : \A m \in Many : n <= m
    <3> HIDE DEF Many
    <3> QED BY <2>2, LeastNatural
  <2>4. PICK s \in Bad : n = Cardinality(s)
    BY <2>3
  <2>5. s \in SUBSET U /\ sum[s] # c[s] /\ s # {}
    BY <1>3, <1>6, <2>4
  <2> DEFINE r == s \ {Pick(s)}
  <2>6. r \in SUBSET U /\ Pick(s) \in s
    BY <1>2, <2>5
  <2>7. Cardinality(r) = n - 1 /\ n \in Nat
    BY <2>1, <2>4, <2>5, <2>6, FS_RemoveElement
  <2>8. r \in Bad
    <3>1. sum[s] = g.seg[Pick(s)].length + sum[r] /\ c[s] = g.seg[Pick(s)].length + c[r]
      BY <1>3, <1>6, <2>5
    <3> HIDE DEF r
    <3> QED BY <2>5, <2>6, <3>1
  <2>9. n - 1 \in Many
    BY <2>7, <2>8
  <2> HIDE DEF Many
  <2> QED BY <2>3, <2>7, <2>9
<1>8. sum[U] = c[U]
  BY <1>7
<1> QED BY <1>1, <1>8 DEF c

-----------------------------------------------------------------------------
(* Segments in use stay in use, and as long as they are, but for those in X.*)
KeepsBut(g, S, k, T, X) ==
    \A a \in S \ X : ~g.seg[a].free =>
        a \in T /\ ~k.seg[a].free /\ k.seg[a].length = g.seg[a].length

(* Of two neighbours one is in use, unless the first is in A or the second  *)
(* is in B.                                                                 *)
MergedBut(g, S, A, B) ==
    \A a \in S : (a # g.lastHdr /\ g.seg[a].free /\ g.seg[EndOf(g, a)].free)
                    => (a \in A \/ EndOf(g, a) \in B)

Merged(g, S) == MergedBut(g, S, {}, {})

(* The counters are those of the list, but for c blocks that free has       *)
(* marked and not yet counted.                                              *)
UsedOf(g, S) == {a \in S : ~g.seg[a].free}

Counted(g, S, c) ==
    /\ g.heapCount = Cardinality(S)
    /\ g.usedHeapCount = Cardinality(UsedOf(g, S)) + c
    /\ g.usedHeapAmount = Cardinality(Cells(g, UsedOf(g, S)))

CountsKept(g, S, k, T) ==
    \A c \in {0, 1} : Counted(g, S, c) => Counted(k, T, c)

Keeps(g, S, k, T) ==
    /\ KeepsBut(g, S, k, T, {})
    /\ Merged(g, S) => Merged(k, T)
    /\ CountsKept(g, S, k, T)

(* How malloc and free leave the list.                                      *)
Whole(g, S) == Merged(g, S) /\ Counted(g, S, 0)

LEMMA KeepsWhole ==
    ASSUME NEW g, NEW S, NEW k, NEW T, Keeps(g, S, k, T), Whole(g, S)
    PROVE  Whole(k, T)
  BY DEF Keeps, CountsKept, Whole

(* What changes no segment in use counts as before, if it counts the        *)
(* segments that come and go.                                               *)
SameUse(g, S, k, T) ==
    /\ k.usedHeapCount = g.usedHeapCount /\ k.usedHeapAmount = g.usedHeapAmount
    /\ k.heapCount + Cardinality(S) = g.heapCount + Cardinality(T)
    /\ \A a \in T : ~k.seg[a].free => a \in S /\ ~g.seg[a].free

LEMMA SameUseCounted ==
    ASSUME NEW g, NEW S, Listed(g, S), NEW k, NEW T, Listed(k, T),
           KeepsBut(g, S, k, T, {}), SameUse(g, S, k, T)
    PROVE  CountsKept(g, S, k, T)
<1> DEFINE U == UsedOf(g, S)
<1>1. UsedOf(k, T) = U
  BY DEF UsedOf, KeepsBut, SameUse
<1>2. Cells(k, U) = Cells(g, U)
  <2>1. \A a \in U : k.seg[a].length = g.seg[a].length
    BY DEF UsedOf, KeepsBut
  <2> HIDE DEF U
  <2> QED BY <2>1, CellsSame
<1>3. /\ Cardinality(S) \in Nat /\ Cardinality(T) \in Nat
      /\ g.heapCount \in Int /\ k.heapCount \in Int
  BY CellsFinite DEF Listed, Heaps
<1> HIDE DEF U
<1>4. g.heapCount = Cardinality(S) => k.heapCount = Cardinality(T)
  BY <1>3 DEF SameUse
<1> QED BY <1>1, <1>2, <1>4 DEF CountsKept, Counted, SameUse, U

-----------------------------------------------------------------------------
(* The walk over the list.                                                  *)
Walked(g, w) ==
    LET next == g.seg[w[Len(w)]].next
    IN  IF next = NULL THEN w ELSE Append(w, next)

IsWalk(g, f, n) ==
    f = [m \in 0 .. n |-> IF m = 0 THEN <<HeapStart>> ELSE Walked(g, f[m - 1])]

LEMMA WalkExists ==
    ASSUME NEW g, NEW n \in Nat
    PROVE  \E f : IsWalk(g, f, n)
<1> DEFINE T == {m \in Nat : ~\E f : IsWalk(g, f, m)}
<1> SUFFICES ASSUME T # {} PROVE FALSE
  OBVIOUS
<1>1. PICK m \in T : \A k \in T : m <= k
  <2>1. T \subseteq Nat
    OBVIOUS
  <2> HIDE DEF T
  <2> QED BY <2>1, LeastNatural
<1>2. m \in Nat /\ ~\E f : IsWalk(g, f, m)
  BY <1>1
<1>3. m # 0
  <2> DEFINE f == [i \in 0 .. 0 |-> <<HeapStart>>]
  <2>1. f = [i \in 0 .. 0 |-> IF i = 0 THEN <<HeapStart>> ELSE Walked(g, f[i - 1])]
    OBVIOUS
  <2> QED BY <1>2, <2>1 DEF IsWalk
<1>4. PICK f : IsWalk(g, f, m - 1)
  <2>1. m - 1 \in Nat /\ ~(m <= m - 1)
    BY <1>2, <1>3
  <2>2. m - 1 \notin T
    BY <1>1, <2>1
  <2> QED BY <2>1, <2>2
<1> DEFINE k == [i \in 0 .. m |-> IF i = m THEN Walked(g, f[m - 1]) ELSE f[i]]
           r == [i \in 0 .. m |-> IF i = 0 THEN <<HeapStart>> ELSE Walked(g, k[i - 1])]
<1>5. \A i \in 0 .. (m - 1) :
          f[i] = IF i = 0 THEN <<HeapStart>> ELSE Walked(g, f[i - 1])
  <2>1. f = [i \in 0 .. (m - 1) |-> IF i = 0 THEN <<HeapStart>> ELSE Walked(g, f[i - 1])]
    BY <1>4 DEF IsWalk
  <2> QED BY <2>1
<1>6. ASSUME NEW i \in 0 .. m PROVE k[i] = r[i]
  <2>1. CASE i = 0
    BY <1>2, <1>3, <1>5, <2>1
  <2>2. CASE i # 0 /\ i # m
    <3>1. i \in 0 .. (m - 1) /\ i - 1 \in 0 .. m /\ i - 1 # m
      BY <1>2, <2>2
    <3>2. k[i] = f[i] /\ k[i - 1] = f[i - 1]
      BY <2>2, <3>1
    <3> QED BY <1>5, <2>2, <3>1, <3>2
  <2>3. CASE i = m
    <3>1. m \in 0 .. m /\ m - 1 \in 0 .. m /\ m - 1 # m
      BY <1>2, <1>3
    <3>2. k[m] = Walked(g, f[m - 1]) /\ k[m - 1] = f[m - 1]
      BY <3>1
    <3> QED BY <1>3, <2>3, <3>1, <3>2
  <2> QED BY <2>1, <2>2, <2>3
<1>7. k = r
  BY <1>6
<1>8. IsWalk(g, k, m)
  <2> HIDE DEF k
  <2> QED BY <1>7 DEF IsWalk
<1> QED BY <1>2, <1>8

LEMMA ChainIsWalk ==
    ASSUME NEW g
    PROVE  \E f : IsWalk(g, f, MaxLen) /\ Chain(g) = f[MaxLen]
<1> DEFINE step[n \in 0 .. MaxLen] ==
              IF n = 0 THEN <<HeapStart>>
              ELSE LET walked == step[n - 1]
                       next   == g.seg[walked[Len(walked)]].next
                   IN  IF next = NULL THEN walked ELSE Append(walked, next)
<1>1. Chain(g) = step[MaxLen]
  BY Zenon DEF Chain
<1>2. PICK f : IsWalk(g, f, MaxLen)
  BY WalkExists, HeapAssumption
<1>3. IsWalk(g, step, MaxLen)
  BY <1>2, Zenon DEF IsWalk, Walked
<1> HIDE DEF step
<1> QED BY <1>1, <1>3

(* The walk of a list meets its segments one after the other, and no other. *)
WalkIn(g, S, w) ==
    /\ w \in Seq(S) /\ w # <<>> /\ w[1] = HeapStart
    /\ \A i \in 1 .. Len(w) : w[i] >= i
    /\ \A i \in 1 .. (Len(w) - 1) : g.seg[w[i]].next = w[i + 1]

LEMMA WalkStep ==
    ASSUME NEW g, NEW S, Listed(g, S), NEW w, WalkIn(g, S, w)
    PROVE  /\ WalkIn(g, S, Walked(g, w))
           /\ w[Len(w)] # g.lastHdr => Len(Walked(g, w)) = Len(w) + 1
           /\ w[Len(w)] = g.lastHdr => Walked(g, w) = w
<1> DEFINE a == w[Len(w)]
           next == g.seg[a].next
<1>1. /\ Len(w) \in Nat \ {0} /\ a \in S /\ a >= Len(w)
      /\ S \subseteq Nat \ {0} /\ NULL \notin S
  <2>1. Len(w) \in Nat \ {0}
    BY DEF WalkIn
  <2>2. a \in S /\ a >= Len(w)
    BY <2>1 DEF WalkIn
  <2>3. S \subseteq Nat \ {0} /\ NULL \notin S
    BY HeapAssumption DEF Listed, Addresses, HeapStart, NULL
  <2> QED BY <2>1, <2>2, <2>3
<1>2. CASE a = g.lastHdr
  <2>1. next = NULL
    BY <1>1, <1>2 DEF Listed
  <2>2. Walked(g, w) = w
    BY <2>1 DEF Walked
  <2> QED BY <1>2, <2>2
<1>3. CASE a # g.lastHdr
  <2>1. next = EndOf(g, a) /\ next \in S /\ g.seg[a].length \in Nat
    BY <1>1, <1>3 DEF Listed
  <2>2. next # NULL /\ next >= Len(w) + 1
    <3>1. a \in Nat /\ a >= Len(w) /\ Len(w) \in Nat /\ NULL \notin S
      BY <1>1
    <3> HIDE DEF a, next
    <3>2. next = a + HeaderLen + g.seg[a].length
      BY <2>1 DEF EndOf
    <3> QED BY <2>1, <3>1, <3>2, HeapAssumption
  <2>3. Walked(g, w) = Append(w, next)
    BY <2>2 DEF Walked
  <2> HIDE DEF next
  <2> DEFINE v == Append(w, next)
  <2>4. /\ v \in Seq(S) /\ Len(v) = Len(w) + 1
        /\ \A i \in 1 .. Len(w) : v[i] = w[i]
        /\ v[Len(w) + 1] = next
    BY <1>1, <2>1 DEF WalkIn
  <2> HIDE DEF v
  <2>5. \A i \in 1 .. Len(v) : v[i] >= i
    BY <1>1, <2>2, <2>4 DEF WalkIn
  <2>6. \A i \in 1 .. (Len(v) - 1) : g.seg[v[i]].next = v[i + 1]
    <3> SUFFICES ASSUME NEW i \in 1 .. (Len(v) - 1)
                 PROVE  g.seg[v[i]].next = v[i + 1]
      OBVIOUS
    <3>1. CASE i = Len(w)
      BY <1>1, <2>4, <3>1 DEF next
    <3>2. CASE i # Len(w)
      <4>1. i \in 1 .. (Len(w) - 1) /\ i \in 1 .. Len(w) /\ i + 1 \in 1 .. Len(w)
        BY <1>1, <2>4, <3>2
      <4> QED BY <2>4, <4>1 DEF WalkIn
    <3> QED BY <3>1, <3>2
  <2>7. v # <<>> /\ v[1] = HeapStart
    BY <1>1, <2>4 DEF WalkIn
  <2>8. WalkIn(g, S, v)
    BY <2>4, <2>5, <2>6, <2>7 DEF WalkIn
  <2> QED BY <1>3, <2>3, <2>4, <2>8 DEF v
<1> QED BY <1>2, <1>3

(* The walk ends with the last segment, as it has no more steps than there  *)
(* are addresses.                                                           *)
LEMMA ChainEnds ==
    ASSUME NEW g, NEW S, Listed(g, S)
    PROVE  LET c == Chain(g) IN WalkIn(g, S, c) /\ c[Len(c)] = g.lastHdr
<1>1. PICK f : IsWalk(g, f, MaxLen) /\ Chain(g) = f[MaxLen]
  BY ChainIsWalk
<1> DEFINE Good(m) == /\ WalkIn(g, S, f[m])
                      /\ f[m][Len(f[m])] = g.lastHdr \/ Len(f[m]) = m + 1
           T == {m \in 0 .. MaxLen : ~Good(m)}
<1>2. \A m \in 0 .. MaxLen :
          f[m] = IF m = 0 THEN <<HeapStart>> ELSE Walked(g, f[m - 1])
  <2>1. f = [m \in 0 .. MaxLen |->
                IF m = 0 THEN <<HeapStart>> ELSE Walked(g, f[m - 1])]
    BY <1>1 DEF IsWalk
  <2> QED BY <2>1
<1>3. T = {}
  <2> SUFFICES ASSUME T # {} PROVE FALSE
    OBVIOUS
  <2>1. T \subseteq Nat
    BY HeapAssumption
  <2>2. PICK m \in T : \A k \in T : m <= k
    <3> HIDE DEF T
    <3> QED BY <2>1, LeastNatural
  <2>3. m \in 0 .. MaxLen /\ ~Good(m)
    BY <2>2
  <2>4. m # 0
    <3> SUFFICES ASSUME m = 0 PROVE FALSE
      OBVIOUS
    <3>1. f[m] = <<HeapStart>>
      BY <1>2, <2>3
    <3>2. HeapStart \in S /\ HeapStart >= 1
      BY DEF Listed, HeapStart
    <3>3. WalkIn(g, S, f[m]) /\ Len(f[m]) = 1
      BY <3>1, <3>2 DEF WalkIn
    <3> QED BY <2>3, <3>3
  <2>5. Good(m - 1)
    <3>1. m - 1 \in 0 .. MaxLen /\ ~(m <= m - 1)
      BY <2>3, <2>4, HeapAssumption
    <3>2. m - 1 \notin T
      BY <2>1, <2>2, <3>1
    <3> QED BY <3>1, <3>2
  <2>6. f[m] = Walked(g, f[m - 1])
    BY <1>2, <2>3, <2>4
  <2> DEFINE w == f[m - 1]
  <2>7. /\ WalkIn(g, S, Walked(g, w))
        /\ w[Len(w)] # g.lastHdr => Len(Walked(g, w)) = Len(w) + 1
        /\ w[Len(w)] = g.lastHdr => Walked(g, w) = w
    BY <2>5, WalkStep
  <2>8. w[Len(w)] = g.lastHdr \/ Len(w) = m
    BY <2>3, <2>5
  <2>9. f[m] = Walked(g, w)
    BY <2>6
  <2> HIDE DEF w
  <2> QED BY <2>3, <2>7, <2>8, <2>9
<1>4. WalkIn(g, S, f[MaxLen])
      /\ (f[MaxLen][Len(f[MaxLen])] = g.lastHdr \/ Len(f[MaxLen]) = MaxLen + 1)
  <2>1. MaxLen \in 0 .. MaxLen
    BY HeapAssumption
  <2> QED BY <1>3, <2>1
<1> DEFINE c == Chain(g)
<1>5. WalkIn(g, S, c) /\ (c[Len(c)] = g.lastHdr \/ Len(c) = MaxLen + 1)
  BY <1>1, <1>4
<1> HIDE DEF c
<1>6. Len(c) # MaxLen + 1
  <2> SUFFICES ASSUME Len(c) = MaxLen + 1 PROVE FALSE
    OBVIOUS
  <2>1. Len(c) \in 1 .. Len(c) /\ c \in Seq(S)
    BY <1>5, HeapAssumption DEF WalkIn
  <2>2. c[Len(c)] \in S /\ c[Len(c)] >= Len(c)
    BY <1>5, <2>1 DEF WalkIn
  <2>3. c[Len(c)] \in 1 .. MaxLen
    BY <2>2 DEF Listed, Addresses, HeapStart
  <2> HIDE DEF c
  <2>4. c[Len(c)] <= MaxLen /\ c[Len(c)] \in Nat
    BY <2>3, HeapAssumption
  <2> QED BY <2>2, <2>4, HeapAssumption
<1> QED BY <1>5, <1>6 DEF c

LEMMA ChainIsList ==
    ASSUME NEW g, NEW S, Listed(g, S)
    PROVE  /\ Chain(g) \in Seq(S) /\ Range(Chain(g)) = S
           /\ ToSet(Chain(g)) = S
<1> DEFINE c == Chain(g)
<1>1. WalkIn(g, S, c) /\ c[Len(c)] = g.lastHdr
  BY ChainEnds
<1> HIDE DEF c
<1>2. c \in Seq(S) /\ Len(c) \in Nat /\ DOMAIN c = 1 .. Len(c) /\ Len(c) >= 1
  BY <1>1 DEF WalkIn
<1> DEFINE T == {a \in S : ~\E i \in 1 .. Len(c) : c[i] = a}
<1>3. T = {}
  <2> SUFFICES ASSUME T # {} PROVE FALSE
    OBVIOUS
  <2>1. T \subseteq Nat
    <3>1. S \subseteq Nat
      BY HeapAssumption DEF Listed, Addresses, HeapStart
    <3> QED BY <3>1
  <2>2. PICK a \in T : \A k \in T : a <= k
    <3> HIDE DEF T
    <3> QED BY <2>1, LeastNatural
  <2>3. a \in S /\ a \in Nat /\ \A i \in 1 .. Len(c) : c[i] # a
    BY <2>1, <2>2
  <2>4. a # HeapStart
    BY <1>1, <1>2, <2>3 DEF WalkIn
  <2> DEFINE p == g.seg[a].last
  <2>5. p \in S /\ EndOf(g, p) = a /\ g.seg[p].length \in Nat
    BY <2>3, <2>4 DEF Listed
  <2>6. p \in Nat /\ p < a
    <3>1. S \subseteq Nat
      BY HeapAssumption DEF Listed, Addresses, HeapStart
    <3> HIDE DEF p
    <3> QED BY <2>5, <3>1, HeapAssumption DEF EndOf
  <2> HIDE DEF p
  <2>7. p \notin T
    BY <2>1, <2>2, <2>6
  <2>8. PICK i \in 1 .. Len(c) : c[i] = p
    BY <2>5, <2>7
  <2>9. p # g.lastHdr
    <3> SUFFICES ASSUME p = g.lastHdr PROVE FALSE
      OBVIOUS
    <3>1. a = g.heapEnd /\ EndOf(g, a) <= g.heapEnd /\ g.seg[a].length \in Nat
      BY <2>3, <2>5 DEF Listed
    <3> QED BY <2>3, <3>1, HeapAssumption DEF EndOf
  <2>10. i \in 1 .. (Len(c) - 1) /\ i + 1 \in 1 .. Len(c)
    BY <1>1, <1>2, <2>8, <2>9
  <2>11. g.seg[p].next = c[i + 1]
    BY <1>1, <2>8, <2>10 DEF WalkIn
  <2>12. g.seg[p].next = a
    BY <2>5, <2>9 DEF Listed
  <2> QED BY <2>3, <2>10, <2>11, <2>12
<1>4. \A i \in 1 .. Len(c) : c[i] \in S
  BY <1>2, ElementOfSeq
<1>5. \A a \in S : \E i \in 1 .. Len(c) : c[i] = a
  BY <1>3
<1>6. ToSet(c) = S
  BY <1>2, <1>4, <1>5 DEF ToSet
<1>7. Range(c) = S
  BY <1>2, <1>4, <1>5 DEF Range
<1> QED BY <1>2, <1>6, <1>7 DEF c

-----------------------------------------------------------------------------
(* What the changes of headers do to the list.                              *)
LEMMA SegmentFacts ==
    ASSUME NEW g, NEW S, Listed(g, S)
    PROVE  /\ MaxLen \in Nat /\ HeaderLen \in Nat /\ HeaderLen >= 1
           /\ g.seg \in [Addresses -> Headers] /\ g.heapEnd \in Int
           /\ \A a \in S : /\ a \in Addresses /\ a \in Nat /\ a >= 1 /\ a <= MaxLen
                           /\ g.seg[a] \in Headers /\ g.seg[a].length \in Nat \ {0}
                           /\ EndOf(g, a) = a + HeaderLen + g.seg[a].length
                           /\ EndOf(g, a) \in Nat /\ EndOf(g, a) > a
<1>1. MaxLen \in Nat /\ HeaderLen \in Nat /\ HeaderLen >= 1
  BY HeapAssumption
<1>2. g.seg \in [Addresses -> Headers] /\ g.heapEnd \in Int
  BY DEF Listed, Heaps
<1>3. ASSUME NEW a \in S
      PROVE  /\ a \in Addresses /\ a \in Nat /\ a >= 1 /\ a <= MaxLen
             /\ g.seg[a] \in Headers /\ g.seg[a].length \in Nat \ {0}
             /\ EndOf(g, a) = a + HeaderLen + g.seg[a].length
             /\ EndOf(g, a) \in Nat /\ EndOf(g, a) > a
  <2>1. a \in Addresses /\ g.seg[a].length \in Nat \ {0}
    BY DEF Listed
  <2>2. a \in Nat /\ a >= 1 /\ a <= MaxLen
    BY <1>1, <2>1 DEF Addresses, HeapStart
  <2>3. g.seg[a] \in Headers
    BY <1>2, <2>1
  <2>4. EndOf(g, a) = a + HeaderLen + g.seg[a].length
    BY DEF EndOf
  <2> QED BY <1>1, <2>1, <2>2, <2>3, <2>4
<1> QED BY <1>1, <1>2, <1>3

LEMMA CombineForwardKeeps ==
    ASSUME NEW g, NEW S, Listed(g, S), NEW a \in S, g.seg[a].free
    PROVE  LET k == CombineForward(g, a)
           IN  /\ \E T : /\ Listed(k, T) /\ Keeps(g, S, k, T) /\ a \in T
                         /\ \A B : MergedBut(g, S, {a}, B) => MergedBut(k, T, {}, B)
               /\ k.seg[a].free
<1> DEFINE k == CombineForward(g, a)
           n == g.seg[a].next
           s == g.seg[n]
           m == s.next
           T == S \ {n}
<1>1. CASE n = NULL \/ ~s.free
  <2>1. k = g
    BY <1>1 DEF CombineForward
  <2>2. Keeps(g, S, g, S)
    BY DEF Keeps, KeepsBut, CountsKept
  <2>3. a # g.lastHdr => ~g.seg[EndOf(g, a)].free
    <3>1. a # g.lastHdr => n = EndOf(g, a) /\ n \in S
      BY DEF Listed
    <3>2. n \in S => n # NULL
      BY SegmentFacts DEF NULL
    <3> QED BY <1>1, <3>1, <3>2
  <2>4. \A B : MergedBut(g, S, {a}, B) => MergedBut(g, S, {}, B)
    BY <2>3 DEF MergedBut
  <2> QED BY <2>1, <2>2, <2>4
<1>2. CASE n # NULL /\ s.free
  <2>1. /\ a # g.lastHdr /\ n \in S /\ n = EndOf(g, a) /\ s.last = a
        /\ n \in Nat /\ n > a
    BY <1>2, SegmentFacts DEF Listed
  <2> DEFINE ha == [g.seg[a] EXCEPT !.length = @ + s.length + HeaderLen,
                                    !.next = m]
             seg == [b \in Addresses |->
                        IF b = a THEN ha
                        ELSE IF b = m THEN [g.seg[b] EXCEPT !.last = a]
                        ELSE g.seg[b]]
  <2>2. k = [g EXCEPT !.seg = seg, !.lastHdr = IF g.lastHdr = n THEN a ELSE g.lastHdr,
                      !.heapCount = g.heapCount - 1]
    <3>1. ~(n = NULL \/ ~s.free)
      BY <1>2
    <3> HIDE DEF seg
    <3>2. CombineForward(g, a) =
             IF n = NULL \/ ~s.free THEN g
             ELSE [g EXCEPT !.seg = seg,
                            !.lastHdr = IF g.lastHdr = n THEN a ELSE g.lastHdr,
                            !.heapCount = g.heapCount - 1]
      BY Zenon DEF CombineForward, seg
    <3> QED BY <3>1, <3>2
  <2>3. /\ g \in Heaps /\ a \in Addresses /\ n \in Addresses
        /\ g.seg[a] \in Headers /\ s \in Headers /\ HeaderLen \in Nat
        /\ a \in Int /\ \A b \in Addresses : g.seg[b] \in Headers
    BY <2>1, SegmentFacts DEF Listed
  <2> DEFINE len == g.seg[a].length + s.length + HeaderLen
  <2>4. /\ ha \in Headers /\ ha.length = len
        /\ ha.next = m /\ ha.last = g.seg[a].last
        /\ ha.magic = g.seg[a].magic /\ ha.free = g.seg[a].free
    <3>1. ha = [g.seg[a] EXCEPT !.length = len, !.next = m]
      OBVIOUS
    <3> DEFINE e == g.seg[a]
    <3>2. len \in 0 .. MaxLen /\ m \in 0 .. MaxLen
      <4>1. m \in 0 .. MaxLen
        BY <2>3 DEF Headers
      <4>2. EndOf(g, n) = n + HeaderLen + s.length /\ EndOf(g, n) <= MaxLen + 1
        <5>1. EndOf(g, n) <= g.heapEnd /\ g.heapEnd <= MaxLen + 1
          BY <2>1 DEF Listed
        <5>2. EndOf(g, n) = n + HeaderLen + s.length /\ EndOf(g, n) \in Nat
              /\ g.heapEnd \in Int /\ MaxLen \in Nat
          BY <2>1, SegmentFacts
        <5> HIDE DEF n, s
        <5> QED BY <5>1, <5>2
      <4>3. /\ n = a + HeaderLen + e.length /\ a \in Nat /\ a >= 1 /\ MaxLen \in Nat
            /\ s.length \in Nat /\ e.length \in Nat /\ HeaderLen \in Nat
        BY <2>1, SegmentFacts
      <4>4. len = e.length + s.length + HeaderLen
        OBVIOUS
      <4> HIDE DEF n, s, e, len, m
      <4>5. len \in 0 .. MaxLen
        BY <4>2, <4>3, <4>4
      <4> QED BY <4>1, <4>5
    <3>3. e \in Headers /\ ha = [e EXCEPT !.length = len, !.next = m]
      BY <2>3, <3>1
    <3> HIDE DEF ha, len, m, e
    <3>4. /\ ha \in Headers /\ ha.length = len
          /\ ha.next = m /\ ha.last = e.last
          /\ ha.magic = e.magic /\ ha.free = e.free
      BY <3>2, <3>3 DEF Headers
    <3> QED BY <3>4 DEF e
  <2> HIDE DEF ha
  <2>5. seg \in [Addresses -> Headers]
    <3>0. a \in 0 .. MaxLen
      BY <2>3, HeapAssumption DEF Addresses, HeapStart
    <3>1. \A e \in Headers : [e EXCEPT !.last = a] \in Headers
      BY <3>0 DEF Headers
    <3> HIDE DEF m
    <3> QED BY <2>3, <2>4, <3>1
  <2>6. /\ k \in Heaps /\ k.seg = seg /\ k.heapEnd = g.heapEnd
        /\ k.lastHdr = IF g.lastHdr = n THEN a ELSE g.lastHdr
    <3> DEFINE l == IF g.lastHdr = n THEN a ELSE g.lastHdr
               c == g.heapCount - 1
    <3>1. l \in Int /\ c \in Int
      BY <2>3 DEF Heaps
    <3>2. k = [g EXCEPT !.seg = seg, !.lastHdr = l, !.heapCount = c]
      BY <2>2
    <3> HIDE DEF seg, k, l, c
    <3>3. k \in Heaps /\ k.seg = seg /\ k.heapEnd = g.heapEnd /\ k.lastHdr = l
      BY <2>3, <2>5, <3>1, <3>2 DEF Heaps
    <3> QED BY <3>3 DEF l
  <2>24. /\ k.heapCount = g.heapCount - 1
         /\ k.usedHeapCount = g.usedHeapCount /\ k.usedHeapAmount = g.usedHeapAmount
    <3> DEFINE l == IF g.lastHdr = n THEN a ELSE g.lastHdr
               c == g.heapCount - 1
    <3>1. k = [g EXCEPT !.seg = seg, !.lastHdr = l, !.heapCount = c]
      BY <2>2
    <3> HIDE DEF seg, k, l, c
    <3>2. /\ k.heapCount = c /\ k.usedHeapCount = g.usedHeapCount
          /\ k.usedHeapAmount = g.usedHeapAmount
      BY <2>3, <3>1 DEF Heaps
    <3> QED BY <3>2 DEF c
  <2>7. /\ k.seg[a] = ha
        /\ (m \in Addresses /\ m # a) => k.seg[m] = [g.seg[m] EXCEPT !.last = a]
        /\ \A b \in Addresses \ {a, m} : k.seg[b] = g.seg[b]
    <3> HIDE DEF m, k
    <3> QED BY <2>3, <2>6
  <2> HIDE DEF seg, k
  <2>8. ASSUME NEW b \in S \ {a}
        PROVE  /\ k.seg[b].length = g.seg[b].length /\ k.seg[b].next = g.seg[b].next
               /\ k.seg[b].magic = g.seg[b].magic /\ k.seg[b].free = g.seg[b].free
               /\ k.seg[b].last = IF b = m THEN a ELSE g.seg[b].last
    <3>1. b \in Addresses /\ g.seg[b] \in Headers
      BY <2>3 DEF Listed
    <3> HIDE DEF m
    <3>2. CASE b = m
      <4>1. k.seg[b] = [g.seg[b] EXCEPT !.last = a]
        BY <2>7, <3>1, <3>2
      <4> DEFINE e == g.seg[b]
                 d == k.seg[b]
      <4>2. e \in Headers /\ d = [e EXCEPT !.last = a]
        BY <3>1, <4>1
      <4> HIDE DEF e, d
      <4>3. /\ d.length = e.length /\ d.next = e.next /\ d.magic = e.magic
            /\ d.free = e.free /\ d.last = a
        BY <2>3, <4>2 DEF Headers
      <4> QED BY <3>2, <4>3 DEF d, e
    <3>3. CASE b # m
      BY <2>7, <3>1, <3>3
    <3> QED BY <3>2, <3>3
  <2>9. /\ EndOf(k, a) = EndOf(g, n)
        /\ \A b \in S \ {a} : EndOf(k, b) = EndOf(g, b)
    <3>1. EndOf(k, a) = EndOf(g, n)
      <4>1. /\ k.seg[a].length = g.seg[a].length + s.length + HeaderLen
            /\ EndOf(g, n) = n + HeaderLen + s.length
            /\ n = a + HeaderLen + g.seg[a].length
            /\ EndOf(k, a) = a + HeaderLen + k.seg[a].length
        BY <2>1, <2>4, <2>7 DEF EndOf
      <4>2. /\ a \in Nat /\ HeaderLen \in Nat
            /\ g.seg[a].length \in Nat /\ s.length \in Nat
        BY <2>1, SegmentFacts
      <4> HIDE DEF n, s
      <4> QED BY <4>1, <4>2
    <3> QED BY <2>8, <3>1 DEF EndOf
  <2>10. /\ n = g.lastHdr => m = NULL
         /\ n # g.lastHdr => m = EndOf(g, n) /\ m \in S /\ m > n /\ g.seg[m].last = n
    BY <2>1, SegmentFacts DEF Listed
  <2> HIDE DEF n, s, m
  <2>11. /\ HeapStart \in T /\ T \subseteq Addresses /\ k.lastHdr \in T
         /\ a \in T /\ n # HeapStart /\ m # HeapStart
    <3>1. n > 1 /\ (m = NULL \/ m > 1)
      <4>1. a >= 1 /\ a \in Nat /\ \A b \in S : b \in Nat
        BY SegmentFacts
      <4>2. n > 1
        BY <2>1, <4>1
      <4>3. ASSUME n # g.lastHdr PROVE m > 1
        <5>1. m \in Nat /\ n \in Nat /\ m > n
          BY <2>1, <2>10, <4>1, <4>3
        <5> QED BY <4>2, <5>1
      <4> QED BY <2>10, <4>2, <4>3
    <3>2. n # HeapStart /\ m # HeapStart
      BY <2>1, <3>1 DEF HeapStart, NULL
    <3>3. a # n
      BY <2>1, SegmentFacts
    <3> QED BY <2>1, <2>6, <3>2, <3>3 DEF Listed
  <2>12. EndOf(k, k.lastHdr) = k.heapEnd /\ k.heapEnd <= MaxLen + 1
    BY <2>1, <2>6, <2>9 DEF Listed
  <2>13. \A b \in T : /\ k.seg[b].magic /\ k.seg[b].length \in Nat \ {0}
                      /\ EndOf(k, b) <= k.heapEnd
    <3>1. /\ k.seg[a].magic /\ k.seg[a].length \in Nat \ {0}
          /\ EndOf(k, a) <= k.heapEnd
      <4>1. k.seg[a].magic /\ EndOf(k, a) <= k.heapEnd
        BY <2>1, <2>4, <2>6, <2>7, <2>9 DEF Listed
      <4>2. /\ HeaderLen \in Nat /\ g.seg[a].length \in Nat \ {0}
            /\ g.seg[n].length \in Nat
        BY <2>1, SegmentFacts
      <4>3. k.seg[a].length = g.seg[a].length + g.seg[n].length + HeaderLen
        BY <2>4, <2>7 DEF s
      <4> QED BY <4>1, <4>2, <4>3
    <3> QED BY <2>6, <2>8, <2>9, <3>1 DEF Listed
  <2>14. \A b \in T : k.seg[b].next = IF b = k.lastHdr THEN NULL ELSE EndOf(k, b)
    BY <2>1, <2>4, <2>6, <2>7, <2>8, <2>9, <2>10 DEF Listed
  <2>15. ASSUME NEW b \in T, b # k.lastHdr
         PROVE  EndOf(k, b) \in T /\ k.seg[EndOf(k, b)].last = b
    <3>1. CASE b = a
      <4>1. n # g.lastHdr
        BY <2>6, <2>15, <3>1
      <4>2. m # n /\ m # a /\ m = EndOf(k, b) /\ m \in S
        BY <2>1, <2>9, <2>10, <3>1, <4>1, SegmentFacts
      <4> QED BY <2>8, <3>1, <4>2
    <3>2. CASE b # a
      <4>1. b # g.lastHdr /\ b \in S
        BY <2>6, <2>15, <3>2
      <4> DEFINE e == EndOf(g, b)
      <4>2. e \in S /\ g.seg[e].last = b /\ EndOf(k, b) = e
        BY <2>9, <3>2, <4>1 DEF Listed
      <4>3. e # n /\ e # m
        <5>1. e # n
          BY <2>1, <3>2, <4>2 DEF s
        <5>2. n = g.lastHdr => e # m
          BY <2>10, <2>11, <4>2, SegmentFacts DEF NULL
        <5>3. n # g.lastHdr => e # m
          BY <2>10, <2>15, <4>2
        <5> QED BY <5>1, <5>2, <5>3
      <4>4. k.seg[e].last = b
        BY <2>4, <2>7, <2>8, <4>2, <4>3
      <4> QED BY <4>2, <4>3, <4>4
    <3> QED BY <3>1, <3>2
  <2>16. k.seg[HeapStart].last = NULL
    BY <2>4, <2>7, <2>8, <2>11 DEF Listed
  <2>17. ASSUME NEW b \in T, b # HeapStart
         PROVE  k.seg[b].last \in T /\ EndOf(k, k.seg[b].last) = b
    <3>1. CASE b = m
      <4>1. m # a /\ EndOf(g, n) = m
        <5>1. b \in S /\ b >= 1
          BY SegmentFacts
        <5>2. m = EndOf(g, n) /\ m > n /\ m \in Nat
          BY <2>10, <3>1, <5>1, SegmentFacts DEF NULL
        <5>3. a \in Nat
          BY SegmentFacts
        <5> HIDE DEF T
        <5> QED BY <2>1, <5>2, <5>3
      <4> QED BY <2>8, <2>9, <2>11, <3>1, <4>1
    <3>2. CASE b # m
      <4> DEFINE p == g.seg[b].last
      <4>1. p \in S /\ EndOf(g, p) = b /\ k.seg[b].last = p
        BY <2>4, <2>7, <2>8, <2>17, <3>2 DEF Listed
      <4>2. p # a
        BY <2>1, <4>1
      <4>3. p # n
        <5>1. n = g.lastHdr => EndOf(g, n) = g.heapEnd /\ EndOf(g, b) <= g.heapEnd
          BY DEF Listed
        <5>2. /\ EndOf(g, b) > b /\ EndOf(g, b) \in Nat /\ b \in Nat
              /\ g.heapEnd \in Int
          BY SegmentFacts
        <5>3. n # g.lastHdr => EndOf(g, n) # b
          BY <2>10, <3>2
        <5> HIDE DEF p
        <5> QED BY <4>1, <5>1, <5>2, <5>3
      <4> QED BY <2>9, <4>1, <4>2, <4>3
    <3> QED BY <3>1, <3>2
  <2>18. ASSUME NEW b \in T, NEW c \in T, b < c
         PROVE  EndOf(k, b) <= c
    <3>1. CASE b = a
      <4>1. n <= c /\ n # c
        BY <2>1, <2>18, <3>1 DEF Listed
      <4>2. n < c
        BY <2>1, <4>1, SegmentFacts
      <4> QED BY <2>1, <2>9, <3>1, <4>2 DEF Listed
    <3>2. CASE b # a
      BY <2>9, <2>18, <3>2 DEF Listed
    <3> QED BY <3>1, <3>2
  <2>19. Listed(k, T)
    BY <2>6, <2>11, <2>12, <2>13, <2>14, <2>15, <2>16, <2>17, <2>18
       DEF Listed
  <2>20. KeepsBut(g, S, k, T, {})
    BY <1>2, <2>8 DEF KeepsBut, s
  <2>21. k.seg[a].free
    BY <2>4, <2>7
  <2>22. ASSUME NEW B, MergedBut(g, S, {a}, B)
         PROVE  MergedBut(k, T, {}, B)
    <3> SUFFICES ASSUME NEW b \in T, b # k.lastHdr, k.seg[b].free,
                        k.seg[EndOf(k, b)].free
                 PROVE  EndOf(k, b) \in B
      BY DEF MergedBut
    <3>1. CASE b = a
      <4>1. n # g.lastHdr
        BY <2>6, <3>1
      <4>2. m = EndOf(k, b) /\ m \in S /\ m # a /\ m = EndOf(g, n)
        BY <2>1, <2>9, <2>10, <3>1, <4>1, SegmentFacts
      <4>3. g.seg[n].free /\ g.seg[m].free
        BY <1>2, <2>8, <4>2 DEF s
      <4>4. n \in {a} \/ m \in B
        BY <2>1, <2>22, <4>1, <4>2, <4>3 DEF MergedBut
      <4>5. n # a
        BY <2>1, SegmentFacts
      <4> QED BY <4>2, <4>4, <4>5
    <3>2. CASE b # a
      <4> DEFINE e == EndOf(k, b)
      <4>1. b \in S /\ b # g.lastHdr /\ e = EndOf(g, b) /\ g.seg[b].free
        BY <2>6, <2>8, <2>9, <3>2
      <4>2. e \in T /\ g.seg[e].free
        <5>1. e \in T
          BY <2>15
        <5>0. k.seg[e].free
          OBVIOUS
        <5> HIDE DEF e
        <5>2. CASE e = a
          BY <5>1, <5>2
        <5>3. CASE e # a
          BY <2>8, <5>0, <5>1, <5>3
        <5> QED BY <5>1, <5>2, <5>3
      <4>3. b \in {a} \/ e \in B
        BY <2>22, <4>1, <4>2 DEF MergedBut
      <4> QED BY <3>2, <4>3
    <3> QED BY <3>1, <3>2
  <2>23. Keeps(g, S, k, T)
    <3>1. Merged(g, S) => MergedBut(g, S, {a}, {})
      BY DEF Merged, MergedBut
    <3>2. SameUse(g, S, k, T)
      <4>1. IsFiniteSet(S) /\ Cardinality(S) \in Nat /\ g.heapCount \in Int
        BY <2>3, CellsFinite DEF Listed, Heaps
      <4>2. Cardinality(T) = Cardinality(S) - 1
        BY <2>1, <4>1, FS_RemoveElement
      <4>3. \A b \in T : ~k.seg[b].free => b \in S /\ ~g.seg[b].free
        BY <2>8, <2>21
      <4> HIDE DEF T
      <4> QED BY <2>24, <4>1, <4>2, <4>3 DEF SameUse
    <3>3. CountsKept(g, S, k, T)
      <4> HIDE DEF T
      <4> QED BY <2>19, <2>20, <3>2, SameUseCounted
    <3> QED BY <2>20, <2>22, <3>1, <3>3 DEF Keeps, Merged
  <2> QED BY <2>11, <2>19, <2>21, <2>22, <2>23 DEF k
<1> QED BY <1>1, <1>2

(* A free segment cut after n blocks.                                       *)
IsCut(g, S, a, n, k) ==
    /\ \E T : /\ Listed(k, T) /\ KeepsBut(g, S, k, T, {}) /\ a \in T
              /\ Merged(g, S) => MergedBut(k, T, {a}, {})
              /\ CountsKept(g, S, k, T)
    /\ k.seg[a].free /\ k.seg[a].length = n

LEMMA SplitKeeps ==
    ASSUME NEW g, NEW S, Listed(g, S), NEW a \in S, g.seg[a].free,
           NEW n \in Nat \ {0}, g.seg[a].length - n - HeaderLen >= 1
    PROVE  IsCut(g, S, a, n, Split(g, a, n))
<1> DEFINE k == Split(g, a, n)
           s == g.seg[a]
           new == a + n + HeaderLen
           m == s.next
           rest == Header(s.length - n - HeaderLen, m, a, s.free)
           linked == IF m = NULL THEN g.seg ELSE [g.seg EXCEPT ![m].last = new]
           seg == [linked EXCEPT ![a].next = new, ![a].length = n, ![new] = rest]
           T == S \cup {new}
<1>1. /\ a \in Nat /\ a >= 1 /\ a \in Addresses /\ g.seg \in [Addresses -> Headers]
      /\ s \in Headers /\ s.length \in Nat /\ HeaderLen \in Nat /\ HeaderLen >= 1
      /\ EndOf(g, a) = a + HeaderLen + s.length
      /\ \A b \in S : b \in Addresses /\ b \in Nat /\ g.seg[b] \in Headers
  BY SegmentFacts
<1>2. EndOf(g, a) <= MaxLen + 1 /\ MaxLen \in Nat
  <2>1. EndOf(g, a) <= g.heapEnd /\ g.heapEnd <= MaxLen + 1
    BY DEF Listed
  <2> QED BY <2>1, SegmentFacts
<1>3. /\ new \in Nat /\ new > a /\ new + HeaderLen + (s.length - n - HeaderLen) = EndOf(g, a)
      /\ new < EndOf(g, a) /\ s.length - n - HeaderLen \in Nat \ {0}
  <2> DEFINE x == s.length
             e == EndOf(g, a)
  <2>1. x \in Nat /\ x - n - HeaderLen >= 1 /\ e = a + HeaderLen + x
    BY <1>1
  <2>2. new = a + n + HeaderLen
    OBVIOUS
  <2> HIDE DEF s, x, e, new
  <2>3. /\ new \in Nat /\ new > a /\ new + HeaderLen + (x - n - HeaderLen) = e
        /\ new < e /\ x - n - HeaderLen \in Nat \ {0}
    BY <1>1, <2>1, <2>2
  <2> QED BY <2>3 DEF x, e
<1>4. new \in Addresses
  <2> DEFINE e == EndOf(g, a)
  <2>1. e <= MaxLen + 1 /\ new < e /\ new > a /\ a >= 1 /\ new \in Nat /\ a \in Nat
        /\ e \in Nat
    BY <1>1, <1>2, <1>3, SegmentFacts
  <2> HIDE DEF e, new
  <2> QED BY <1>2, <2>1 DEF Addresses, HeapStart
<1>5. new \notin S
  <2> SUFFICES ASSUME new \in S PROVE FALSE
    OBVIOUS
  <2>1. EndOf(g, a) <= new
    BY <1>3 DEF Listed
  <2> HIDE DEF new
  <2> QED BY <1>1, <1>3, <2>1, SegmentFacts
<1>6. /\ a = g.lastHdr => m = NULL
      /\ a # g.lastHdr => m = EndOf(g, a) /\ m \in S /\ m > a /\ g.seg[m].last = a
  BY SegmentFacts DEF Listed
<1>7. k = [g EXCEPT !.seg = seg, !.lastHdr = IF g.lastHdr = a THEN new ELSE g.lastHdr,
                    !.heapCount = g.heapCount + 1]
  BY Zenon DEF Split
<1>8. rest \in Headers /\ new \in 0 .. MaxLen /\ n \in 0 .. MaxLen
  <2> DEFINE x == s.length - n - HeaderLen
             y == s.length
             z == EndOf(g, a)
  <2>1. /\ x \in Nat /\ new + HeaderLen + x = z /\ z <= MaxLen + 1 /\ MaxLen \in Nat
        /\ new \in Nat /\ new > a /\ new = a + n + HeaderLen
    BY <1>2, <1>3
  <2>2. m \in 0 .. MaxLen /\ s.free \in BOOLEAN /\ z \in Nat /\ a \in Nat /\ a >= 1
        /\ HeaderLen \in Nat /\ HeaderLen >= 1
    BY <1>1, SegmentFacts DEF Headers
  <2>3. rest = [length |-> x, next |-> m, last |-> a, free |-> s.free, magic |-> TRUE]
    BY DEF Header
  <2> HIDE DEF x, z, new, s, m, rest
  <2>4. x \in 0 .. MaxLen /\ a \in 0 .. MaxLen /\ new \in 0 .. MaxLen /\ n \in 0 .. MaxLen
    BY <2>1, <2>2
  <2>5. rest \in Headers
    BY <2>2, <2>3, <2>4 DEF Headers
  <2> QED BY <2>4, <2>5
<1>9. linked \in [Addresses -> Headers]
  <2>1. CASE m = NULL
    BY <1>1, <2>1
  <2>2. CASE m # NULL
    <3>1. m \in Addresses
      BY <1>1, <1>6, <2>2
    <3>2. \A e \in Headers : [e EXCEPT !.last = new] \in Headers
      BY <1>8 DEF Headers
    <3> HIDE DEF m, new
    <3> QED BY <1>1, <2>2, <3>1, <3>2
  <2> QED BY <2>1, <2>2
<1>10. ASSUME NEW b \in S
       PROVE  LET e == g.seg[b]
                  d == linked[b]
              IN  /\ e \in Headers /\ d \in Headers /\ d.length = e.length
                  /\ d.next = e.next /\ d.magic = e.magic /\ d.free = e.free
                  /\ d.last = IF b = m THEN new ELSE e.last
  <2> DEFINE e == g.seg[b]
             d == linked[b]
  <2>1. b \in Addresses /\ e \in Headers /\ d \in Headers
    BY <1>1, <1>9
  <2>2. CASE b = m
    <3>1. m # NULL
      BY <1>1, <2>2, SegmentFacts DEF NULL
    <3>2. d = [e EXCEPT !.last = new]
      BY <1>1, <2>1, <2>2, <3>1
    <3> HIDE DEF d, e, m, new, linked
    <3>3. /\ d.length = e.length /\ d.next = e.next /\ d.magic = e.magic
          /\ d.free = e.free /\ d.last = new
      BY <2>1, <3>2 DEF Headers
    <3> QED BY <2>1, <2>2, <3>3 DEF d, e
  <2>3. CASE b # m
    <3>1. d = e
      BY <1>1, <2>1, <2>3
    <3> HIDE DEF d, e, m
    <3> QED BY <2>1, <2>3, <3>1 DEF d, e
  <2> QED BY <2>2, <2>3
<1> HIDE DEF linked, rest
<1>11. /\ seg \in [Addresses -> Headers] /\ seg[new] = rest
       /\ \A b \in S \ {a} : seg[b] = linked[b]
       /\ seg[a].length = n /\ seg[a].next = new /\ seg[a].last = linked[a].last
       /\ seg[a].magic = linked[a].magic /\ seg[a].free = linked[a].free
  <2> DEFINE f == [linked EXCEPT ![a].next = new, ![a].length = n]
             e == linked[a]
             y == [e EXCEPT !.next = new]
             d == [y EXCEPT !.length = n]
  <2>1. e \in Headers
    BY <1>1, <1>9
  <2>2. f = [linked EXCEPT ![a] = d]
    BY <1>1, <1>9
  <2>3. seg = [f EXCEPT ![new] = rest]
    BY Zenon
  <2>4. /\ d \in Headers /\ d.length = n /\ d.next = new /\ d.last = e.last
        /\ d.magic = e.magic /\ d.free = e.free
    <3>1. y = [e EXCEPT !.next = new] /\ d = [y EXCEPT !.length = n]
          /\ new \in 0 .. MaxLen /\ n \in 0 .. MaxLen
      BY <1>8
    <3> HIDE DEF e, y, d, new
    <3>2. /\ y \in Headers /\ y.next = new /\ y.last = e.last
          /\ y.magic = e.magic /\ y.free = e.free
      BY <2>1, <3>1 DEF Headers
    <3>3. /\ d \in Headers /\ d.length = n /\ d.next = y.next /\ d.last = y.last
          /\ d.magic = y.magic /\ d.free = y.free
      BY <3>1, <3>2 DEF Headers
    <3> QED BY <3>2, <3>3
  <2> HIDE DEF e, y
  <2> HIDE DEF d, f, seg, new
  <2>5. /\ f \in [Addresses -> Headers] /\ f[a] = d
        /\ \A b \in Addresses \ {a} : f[b] = linked[b]
    BY <1>1, <1>9, <2>2, <2>4
  <2>6. /\ seg \in [Addresses -> Headers] /\ seg[new] = rest
        /\ \A b \in Addresses \ {new} : seg[b] = f[b]
    BY <1>4, <1>8, <2>3, <2>5
  <2>7. a # new /\ \A b \in S : b # new /\ b \in Addresses
    BY <1>1, <1>5
  <2>8. seg[a] = d
    BY <1>1, <2>5, <2>6, <2>7
  <2>9. \A b \in S \ {a} : seg[b] = linked[b]
    BY <2>5, <2>6, <2>7
  <2> QED BY <2>4, <2>6, <2>8, <2>9 DEF e
<1>12. /\ k \in Heaps /\ k.seg = seg /\ k.heapEnd = g.heapEnd
       /\ k.lastHdr = IF g.lastHdr = a THEN new ELSE g.lastHdr
       /\ k.heapCount = g.heapCount + 1
       /\ k.usedHeapCount = g.usedHeapCount /\ k.usedHeapAmount = g.usedHeapAmount
  <2> DEFINE l == IF g.lastHdr = a THEN new ELSE g.lastHdr
             c == g.heapCount + 1
  <2>1. g \in Heaps /\ l \in Int /\ c \in Int
    BY <1>3 DEF Listed, Heaps
  <2>2. k = [g EXCEPT !.seg = seg, !.lastHdr = l, !.heapCount = c]
    BY <1>7
  <2>3. seg \in [Addresses -> Headers]
    BY <1>11
  <2> HIDE DEF seg, k, l, c
  <2>4. k \in Heaps /\ k.seg = seg /\ k.heapEnd = g.heapEnd /\ k.lastHdr = l
        /\ k.heapCount = c /\ k.usedHeapCount = g.usedHeapCount
        /\ k.usedHeapAmount = g.usedHeapAmount
    BY <2>1, <2>2, <2>3 DEF Heaps
  <2> QED BY <2>4 DEF l, c
<1> HIDE DEF seg, k
<1>13. /\ k.seg[new].length = s.length - n - HeaderLen /\ k.seg[new].next = m
       /\ k.seg[new].last = a /\ k.seg[new].magic /\ k.seg[new].free = s.free
  <2>1. k.seg[new] = rest
    BY <1>11, <1>12
  <2> HIDE DEF new
  <2>2. rest = [length |-> s.length - n - HeaderLen, next |-> m, last |-> a,
                free |-> s.free, magic |-> TRUE]
    BY DEF rest, Header
  <2> QED BY <2>1, <2>2
<1>14. /\ k.seg[a].length = n /\ k.seg[a].next = new /\ k.seg[a].last = s.last
       /\ k.seg[a].magic = s.magic /\ k.seg[a].free = s.free
  <2>1. a # m
    BY <1>1, <1>6 DEF NULL
  <2>2. linked[a].last = s.last /\ linked[a].magic = s.magic /\ linked[a].free = s.free
    BY <1>10, <2>1
  <2> QED BY <1>11, <1>12, <2>2
<1>15. \A b \in S \ {a} :
          /\ k.seg[b].length = g.seg[b].length /\ k.seg[b].next = g.seg[b].next
          /\ k.seg[b].magic = g.seg[b].magic /\ k.seg[b].free = g.seg[b].free
          /\ k.seg[b].last = IF b = m THEN new ELSE g.seg[b].last
  <2> HIDE DEF m, new
  <2> QED BY <1>10, <1>11, <1>12
<1>16. /\ EndOf(k, a) = new /\ EndOf(k, new) = EndOf(g, a)
       /\ \A b \in S \ {a} : EndOf(k, b) = EndOf(g, b)
  <2>1. EndOf(k, a) = a + HeaderLen + n
    BY <1>14 DEF EndOf
  <2>2. EndOf(k, new) = new + HeaderLen + (s.length - n - HeaderLen)
    BY <1>13 DEF EndOf
  <2>3. EndOf(k, a) = new
    BY <1>1, <2>1
  <2> QED BY <1>3, <1>15, <2>2, <2>3 DEF EndOf
<1> HIDE DEF new, s, m
<1>17. /\ HeapStart \in T /\ T \subseteq Addresses /\ k.lastHdr \in T /\ a \in T
       /\ a # new /\ new # HeapStart /\ (m = NULL \/ m # HeapStart)
  <2>1. m # NULL => m # HeapStart
    BY <1>1, <1>6, SegmentFacts DEF HeapStart
  <2>2. new # HeapStart /\ a # new
    BY <1>5 DEF Listed
  <2> QED BY <1>4, <1>12, <2>1, <2>2 DEF Listed
<1>18. EndOf(k, k.lastHdr) = k.heapEnd /\ k.heapEnd <= MaxLen + 1
  BY <1>12, <1>16 DEF Listed
<1>19. \A b \in T : /\ k.seg[b].magic /\ k.seg[b].length \in Nat \ {0}
                    /\ EndOf(k, b) <= k.heapEnd
  <2>1. /\ k.seg[new].magic /\ k.seg[new].length \in Nat \ {0}
        /\ EndOf(k, new) <= k.heapEnd
    BY <1>3, <1>12, <1>13, <1>16 DEF Listed
  <2>2. /\ k.seg[a].magic /\ k.seg[a].length \in Nat \ {0}
        /\ EndOf(k, a) <= k.heapEnd
    <3>1. k.seg[a].magic /\ k.seg[a].length \in Nat \ {0}
      BY <1>14 DEF Listed, s
    <3>2. EndOf(g, a) <= g.heapEnd /\ EndOf(g, a) \in Nat /\ g.heapEnd \in Int
      BY SegmentFacts DEF Listed
    <3> QED BY <1>3, <1>12, <1>16, <3>1, <3>2
  <2> QED BY <1>12, <1>15, <1>16, <2>1, <2>2 DEF Listed
<1>20. \A b \in T : k.seg[b].next = IF b = k.lastHdr THEN NULL ELSE EndOf(k, b)
  <2>1. k.seg[new].next = IF new = k.lastHdr THEN NULL ELSE EndOf(k, new)
    <3>1. g.lastHdr # new
      BY <1>5 DEF Listed
    <3> QED BY <1>6, <1>12, <1>13, <1>16, <3>1
  <2>2. k.seg[a].next = IF a = k.lastHdr THEN NULL ELSE EndOf(k, a)
    BY <1>12, <1>14, <1>16, <1>17
  <2>3. \A b \in S \ {a} :
           k.seg[b].next = IF b = k.lastHdr THEN NULL ELSE EndOf(k, b)
    BY <1>5, <1>12, <1>15, <1>16 DEF Listed
  <2> QED BY <2>1, <2>2, <2>3
<1>21. ASSUME NEW b \in T, b # k.lastHdr
       PROVE  EndOf(k, b) \in T /\ k.seg[EndOf(k, b)].last = b
  <2>1. CASE b = new
    <3>1. g.lastHdr # a /\ m \in S /\ m # a
      BY <1>1, <1>6, <1>12, <1>21, <2>1
    <3> QED BY <1>6, <1>15, <1>16, <2>1, <3>1
  <2>2. CASE b = a
    BY <1>13, <1>16, <2>2
  <2>3. CASE b # a /\ b # new
    <3>1. b \in S /\ b # g.lastHdr
      BY <1>12, <1>21, <2>3
    <3> DEFINE e == EndOf(g, b)
    <3>2. e \in S /\ g.seg[e].last = b /\ EndOf(k, b) = e
      BY <1>16, <2>3, <3>1 DEF Listed
    <3>3. e # m
      <4>1. e # NULL
        BY <3>2, SegmentFacts DEF NULL
      <4> HIDE DEF e
      <4> QED BY <1>6, <2>3, <3>2, <4>1
    <3>4. k.seg[e].last = b
      BY <1>14, <1>15, <3>2, <3>3 DEF s
    <3> QED BY <3>2, <3>4
  <2> QED BY <2>1, <2>2, <2>3
<1>22. k.seg[HeapStart].last = NULL
  <2>1. HeapStart # m
    BY <1>17 DEF HeapStart, NULL
  <2> QED BY <1>14, <1>15, <2>1 DEF Listed, s
<1>23. ASSUME NEW b \in T, b # HeapStart
       PROVE  k.seg[b].last \in T /\ EndOf(k, k.seg[b].last) = b
  <2>1. CASE b = new
    BY <1>13, <1>16, <1>17, <2>1
  <2>2. CASE b # new /\ b = m
    <3>1. b \in S /\ b # a /\ a # g.lastHdr
      BY <1>1, <1>6, <2>2, SegmentFacts DEF NULL
    <3> QED BY <1>6, <1>15, <1>16, <2>2, <3>1
  <2>3. CASE b # new /\ b # m
    <3> DEFINE p == g.seg[b].last
    <3>1. b \in S
      BY <2>3
    <3>2. p \in S /\ EndOf(g, p) = b /\ k.seg[b].last = p
      BY <1>14, <1>15, <1>23, <2>3, <3>1 DEF Listed, s
    <3>3. p # a
      <4>1. a = g.lastHdr => EndOf(g, a) = g.heapEnd /\ EndOf(g, b) <= g.heapEnd
        BY <3>1 DEF Listed
      <4>2. /\ EndOf(g, b) > b /\ EndOf(g, b) \in Nat /\ b \in Nat
            /\ g.heapEnd \in Int
        BY <3>1, SegmentFacts
      <4>3. a # g.lastHdr => EndOf(g, a) # b
        BY <1>6, <2>3
      <4> HIDE DEF p
      <4> QED BY <3>2, <4>1, <4>2, <4>3
    <3> QED BY <1>16, <3>2, <3>3
  <2> QED BY <2>1, <2>2, <2>3
<1>24. ASSUME NEW b \in T, NEW c \in T, b < c
       PROVE  EndOf(k, b) <= c
  <2>0. /\ b \in Nat /\ c \in Nat /\ a \in Nat /\ new \in Nat
        /\ EndOf(g, a) \in Nat
    BY <1>1, <1>3, SegmentFacts
  <2>1. CASE b = new
    <3>1. c \in S /\ a < c
      BY <1>3, <1>24, <2>0, <2>1
    <3> QED BY <1>16, <2>1, <3>1 DEF Listed
  <2>2. CASE b = a
    <3>1. CASE c = new
      BY <1>16, <2>0, <2>2, <3>1
    <3>2. CASE c # new
      <4>1. EndOf(g, a) <= c
        BY <1>24, <2>2, <3>2 DEF Listed
      <4> QED BY <1>3, <1>16, <2>0, <2>2, <4>1
    <3> QED BY <3>1, <3>2
  <2>3. CASE b # a /\ b # new
    <3>1. b \in S /\ EndOf(k, b) = EndOf(g, b) /\ EndOf(g, b) \in Nat
      BY <1>16, <2>3, SegmentFacts
    <3>2. CASE c # new
      BY <1>24, <2>3, <3>1, <3>2 DEF Listed
    <3>3. CASE c = new
      <4>1. b < a
        <5> SUFFICES ASSUME ~(b < a) PROVE FALSE
          OBVIOUS
        <5>1. a < b
          BY <2>0, <2>3
        <5>2. EndOf(g, a) <= b
          BY <3>1, <5>1 DEF Listed
        <5> QED BY <1>3, <1>24, <2>0, <3>3, <5>2
      <4>2. EndOf(g, b) <= a
        BY <3>1, <4>1 DEF Listed
      <4> QED BY <1>3, <2>0, <3>1, <3>3, <4>2
    <3> QED BY <3>2, <3>3
  <2> QED BY <2>1, <2>2, <2>3
<1>25. Listed(k, T)
  BY <1>12, <1>17, <1>18, <1>19, <1>20, <1>21, <1>22, <1>23, <1>24 DEF Listed
<1>26. KeepsBut(g, S, k, T, {})
  BY <1>15 DEF KeepsBut, s
<1>27. k.seg[a].free /\ k.seg[a].length = n
  BY <1>14 DEF s
<1>28. ASSUME Merged(g, S) PROVE MergedBut(k, T, {a}, {})
  <2> SUFFICES ASSUME NEW b \in T, b # k.lastHdr, k.seg[b].free,
                      k.seg[EndOf(k, b)].free, b # a
               PROVE  FALSE
    BY DEF MergedBut
  <2>1. CASE b = new
    <3>1. a # g.lastHdr /\ EndOf(k, b) = EndOf(g, a) /\ EndOf(g, a) = m
          /\ m \in S /\ m # a
      BY <1>1, <1>6, <1>12, <1>16, <2>1
    <3>2. g.seg[m].free
      BY <1>15, <3>1
    <3> QED BY <1>28, <3>1, <3>2 DEF Merged, MergedBut
  <2>2. CASE b # new
    <3> DEFINE e == EndOf(g, b)
    <3>1. b \in S /\ b # g.lastHdr /\ e = EndOf(k, b) /\ g.seg[b].free
      BY <1>12, <1>15, <1>16, <2>2
    <3>2. e \in S
      BY <3>1 DEF Listed
    <3>3. g.seg[e].free
      <4> HIDE DEF e
      <4> QED BY <1>15, <3>1, <3>2
    <3> QED BY <1>28, <3>1, <3>3 DEF Merged, MergedBut
  <2> QED BY <2>1, <2>2
<1>30. SameUse(g, S, k, T)
  <2>1. IsFiniteSet(S) /\ Cardinality(S) \in Nat /\ g.heapCount \in Int
    BY CellsFinite DEF Listed, Heaps
  <2>2. Cardinality(T) = Cardinality(S) + 1
    BY <1>5, <2>1, FS_AddElement DEF new
  <2>3. \A b \in T : ~k.seg[b].free => b \in S /\ ~g.seg[b].free
    BY <1>13, <1>14, <1>15 DEF s
  <2> HIDE DEF T
  <2> QED BY <1>12, <2>1, <2>2, <2>3 DEF SameUse
<1>31. CountsKept(g, S, k, T)
  <2> HIDE DEF T
  <2> QED BY <1>25, <1>26, <1>30, SameUseCounted
<1>29. IsCut(g, S, a, n, k)
  BY <1>17, <1>25, <1>26, <1>27, <1>28, <1>31 DEF IsCut
<1> QED BY <1>29 DEF k

(* A list stays one when only what its headers say of use changes.          *)
LEMMA SameLinks ==
    ASSUME NEW g, NEW S, Listed(g, S), NEW k \in Heaps,
           k.lastHdr = g.lastHdr, k.heapEnd = g.heapEnd,
           \A b \in S : /\ k.seg[b].length = g.seg[b].length
                        /\ k.seg[b].next = g.seg[b].next
                        /\ k.seg[b].last = g.seg[b].last
                        /\ k.seg[b].magic = g.seg[b].magic
    PROVE  Listed(k, S)
<1>1. \A b \in S : EndOf(k, b) = EndOf(g, b)
  BY DEF EndOf
<1>2. g.lastHdr \in S /\ HeapStart \in S
  BY DEF Listed
<1>3. \A b \in S : b # k.lastHdr => /\ EndOf(k, b) \in S
                                    /\ k.seg[EndOf(k, b)].last = b
  BY <1>1 DEF Listed
<1>4. \A b \in S : b # HeapStart => /\ k.seg[b].last \in S
                                    /\ EndOf(k, k.seg[b].last) = b
  BY <1>1 DEF Listed
<1>5. \A b \in S : k.seg[b].next = IF b = k.lastHdr THEN NULL ELSE EndOf(k, b)
  BY <1>1 DEF Listed
<1>6. \A b \in S : /\ k.seg[b].magic /\ k.seg[b].length \in Nat \ {0}
                   /\ EndOf(k, b) <= k.heapEnd
  BY <1>1 DEF Listed
<1>7. k.seg[HeapStart].last = NULL
  BY <1>2 DEF Listed
<1>8. \A b, c \in S : b < c => EndOf(k, b) <= c
  BY <1>1 DEF Listed
<1>9. /\ S \subseteq Addresses /\ k.lastHdr \in S /\ k.heapEnd <= MaxLen + 1
      /\ EndOf(k, k.lastHdr) = k.heapEnd
  BY <1>1, <1>2 DEF Listed
<1> QED BY <1>2, <1>3, <1>4, <1>5, <1>6, <1>7, <1>8, <1>9 DEF Listed

LEMMA CombineBackwardKeeps ==
    ASSUME NEW g, NEW S, Listed(g, S), NEW a \in S
    PROVE  LET k == CombineBackward(g, a)
           IN  \E T : /\ Listed(k, T) /\ Keeps(g, S, k, T)
                      /\ MergedBut(g, S, {}, {a}) => Merged(k, T)
<1> DEFINE p == g.seg[a].last
<1>1. CASE p # NULL /\ g.seg[p].free
  <2>1. p \in S
    BY <1>1 DEF Listed
  <2>2. CombineBackward(g, a) = CombineForward(g, p)
    BY <1>1 DEF CombineBackward
  <2>3. MergedBut(g, S, {}, {a}) => MergedBut(g, S, {p}, {})
    <3>1. \A b \in S : b # g.lastHdr /\ EndOf(g, b) = a => b = p
      BY DEF Listed
    <3> HIDE DEF p
    <3> QED BY <3>1 DEF MergedBut
  <2> HIDE DEF p
  <2> QED BY <1>1, <2>1, <2>2, <2>3, CombineForwardKeeps DEF Merged
<1>2. CASE ~(p # NULL /\ g.seg[p].free)
  <2>1. CombineBackward(g, a) = g
    BY <1>2 DEF CombineBackward
  <2>2. Keeps(g, S, g, S)
    BY DEF Keeps, KeepsBut, CountsKept
  <2>3. MergedBut(g, S, {}, {a}) => Merged(g, S)
    <3>1. \A b \in S : b # g.lastHdr /\ EndOf(g, b) = a => b = p /\ b # NULL
      BY SegmentFacts DEF Listed, NULL
    <3> HIDE DEF p
    <3>2. \A b \in S : b # g.lastHdr /\ EndOf(g, b) = a => ~g.seg[b].free
      BY <1>2, <3>1
    <3> QED BY <3>2 DEF Merged, MergedBut
  <2> QED BY <2>1, <2>2, <2>3
<1> QED BY <1>1, <1>2

LEMMA MarkUsedKeeps ==
    ASSUME NEW g, NEW S, Listed(g, S), NEW a \in S, g.seg[a].free,
           NEW n \in Nat, g.seg[a].length = n
    PROVE  LET k == MarkUsed(g, a, n)
           IN  /\ Listed(k, S) /\ Keeps(g, S, k, S)
               /\ MergedBut(g, S, {a}, {}) => Merged(k, S)
               /\ ~k.seg[a].free /\ k.seg[a].length = g.seg[a].length
<1> DEFINE k == MarkUsed(g, a, n)
           e == g.seg[a]
           d == [e EXCEPT !.free = FALSE]
           seg == [g.seg EXCEPT ![a] = d]
           x == g.usedHeapCount + 1
           y == g.usedHeapAmount + n
<1>1. k = [g EXCEPT !.seg = seg, !.usedHeapCount = x, !.usedHeapAmount = y]
  BY DEF MarkUsed
<1>2. /\ g \in Heaps /\ e \in Headers /\ a \in Addresses /\ x \in Int /\ y \in Int
      /\ g.seg \in [Addresses -> Headers] /\ S \subseteq Addresses
  BY SegmentFacts DEF Listed, Heaps
<1>3. d = [e EXCEPT !.free = FALSE] /\ seg = [g.seg EXCEPT ![a] = d]
  OBVIOUS
<1> HIDE DEF k, e, d, seg, x, y
<1>4. /\ d \in Headers /\ ~d.free /\ d.length = e.length /\ d.next = e.next
      /\ d.last = e.last /\ d.magic = e.magic
  BY <1>2, <1>3 DEF Headers
<1>5. /\ seg \in [Addresses -> Headers] /\ seg[a] = d
      /\ \A b \in Addresses : b # a => seg[b] = g.seg[b]
  BY <1>2, <1>3, <1>4
<1>6. /\ k \in Heaps /\ k.seg = seg /\ k.lastHdr = g.lastHdr /\ k.heapEnd = g.heapEnd
      /\ k.heapCount = g.heapCount /\ k.usedHeapCount = x /\ k.usedHeapAmount = y
  BY <1>1, <1>2, <1>5 DEF Heaps
<1>7. \A b \in S : /\ k.seg[b].length = g.seg[b].length
                   /\ k.seg[b].next = g.seg[b].next
                   /\ k.seg[b].last = g.seg[b].last
                   /\ k.seg[b].magic = g.seg[b].magic
                   /\ ~g.seg[b].free => ~k.seg[b].free
                   /\ k.seg[b].free => g.seg[b].free /\ b # a
  BY <1>2, <1>4, <1>5, <1>6 DEF e
<1>8. Listed(k, S)
  BY <1>6, <1>7, SameLinks
<1>9. ASSUME MergedBut(g, S, {a}, {}) PROVE Merged(k, S)
  <2>1. \A b \in S : EndOf(k, b) = EndOf(g, b)
    BY <1>7 DEF EndOf
  <2>2. \A b \in S : b # g.lastHdr => EndOf(g, b) \in S
    BY DEF Listed
  <2> QED BY <1>6, <1>7, <1>9, <2>1, <2>2 DEF Merged, MergedBut
<1>10. Keeps(g, S, k, S)
  <2>1. Merged(g, S) => MergedBut(g, S, {a}, {})
    BY DEF Merged, MergedBut
  <2>2. CountsKept(g, S, k, S)
    <3>0. ~k.seg[a].free /\ \A b \in S : b # a => (~k.seg[b].free <=> ~g.seg[b].free)
      <4>1. k.seg[a] = d /\ \A b \in S : b # a => k.seg[b] = g.seg[b]
        BY <1>2, <1>5, <1>6
      <4> QED BY <1>4, <4>1
    <3>1. UsedOf(k, S) = UsedOf(g, S) \cup {a}
      BY <3>0 DEF UsedOf
    <3>2. a \notin UsedOf(g, S) /\ a \in Addresses /\ UsedOf(g, S) \in SUBSET Addresses
      BY <1>2 DEF UsedOf
    <3>3. \A b \in UsedOf(g, S) \cup {a} : k.seg[b].length = g.seg[b].length
      BY <1>7 DEF UsedOf
    <3>4. k.usedHeapCount = g.usedHeapCount + 1 /\ k.usedHeapAmount = g.usedHeapAmount + n
      BY <1>6 DEF x, y
    <3> DEFINE U == UsedOf(g, S)
    <3> HIDE DEF U
    <3>5. Cardinality(Cells(k, U \cup {a})) = Cardinality(Cells(g, U)) + n
      <4>1. Cardinality(Cells(g, U \cup {a})) = Cardinality(Cells(g, U)) + g.seg[a].length
        BY <1>2, <3>2, CellsAdd DEF U
      <4>2. Cells(k, U \cup {a}) = Cells(g, U \cup {a})
        BY <3>3, CellsSame DEF U
      <4> QED BY <4>1, <4>2
    <3>6. /\ Cardinality(U \cup {a}) = Cardinality(U) + 1
          /\ Cardinality(U) \in Nat /\ Cardinality(Cells(g, U)) \in Nat
      BY <1>2, <3>2, CellsFinite, FS_AddElement DEF U
    <3> DEFINE p == Cardinality(U)
               q == Cardinality(Cells(g, U))
    <3>7. Cardinality(UsedOf(k, S)) = p + 1 /\ Cardinality(Cells(k, UsedOf(k, S))) = q + n
      BY <3>1, <3>5, <3>6 DEF U
    <3>8. p \in Nat /\ q \in Nat /\ p = Cardinality(UsedOf(g, S))
          /\ q = Cardinality(Cells(g, UsedOf(g, S)))
      BY <3>6 DEF U
    <3> HIDE DEF p, q
    <3> QED BY <1>6, <3>4, <3>7, <3>8 DEF CountsKept, Counted
  <2> QED BY <1>7, <1>9, <2>1, <2>2 DEF Keeps, KeepsBut
<1>11. ~k.seg[a].free /\ k.seg[a].length = g.seg[a].length
  BY <1>4, <1>5, <1>6, <1>7
<1> QED BY <1>8, <1>9, <1>10, <1>11 DEF k

LEMMA MarkFreeKeeps ==
    ASSUME NEW g, NEW S, Listed(g, S), NEW a \in S
    PROVE  LET k == MarkFree(g, a)
           IN  /\ Listed(k, S) /\ KeepsBut(g, S, k, S, {a}) /\ k.seg[a].free
               /\ Merged(g, S) => MergedBut(k, S, {a}, {a})
               /\ ~g.seg[a].free /\ Counted(g, S, 0) => Counted(k, S, 1)
<1> DEFINE k == MarkFree(g, a)
           e == g.seg[a]
           d == [e EXCEPT !.free = TRUE]
           seg == [g.seg EXCEPT ![a] = d]
           y == g.usedHeapAmount - e.length
<1>1. k = [g EXCEPT !.seg = seg, !.usedHeapAmount = y]
  BY DEF MarkFree
<1>2. /\ g \in Heaps /\ e \in Headers /\ a \in Addresses /\ y \in Int
      /\ g.seg \in [Addresses -> Headers] /\ S \subseteq Addresses
  BY SegmentFacts DEF Listed, Heaps
<1>3. d = [e EXCEPT !.free = TRUE] /\ seg = [g.seg EXCEPT ![a] = d]
  OBVIOUS
<1> HIDE DEF k, e, d, seg, y
<1>4. /\ d \in Headers /\ d.free /\ d.length = e.length /\ d.next = e.next
      /\ d.last = e.last /\ d.magic = e.magic
  BY <1>2, <1>3 DEF Headers
<1>5. /\ seg \in [Addresses -> Headers] /\ seg[a] = d
      /\ \A b \in Addresses : b # a => seg[b] = g.seg[b]
  BY <1>2, <1>3, <1>4
<1>6. /\ k \in Heaps /\ k.seg = seg /\ k.lastHdr = g.lastHdr /\ k.heapEnd = g.heapEnd
      /\ k.heapCount = g.heapCount /\ k.usedHeapCount = g.usedHeapCount
      /\ k.usedHeapAmount = y
  BY <1>1, <1>2, <1>5 DEF Heaps
<1>7. \A b \in S : /\ k.seg[b].length = g.seg[b].length
                   /\ k.seg[b].next = g.seg[b].next
                   /\ k.seg[b].last = g.seg[b].last
                   /\ k.seg[b].magic = g.seg[b].magic
                   /\ b # a => k.seg[b].free = g.seg[b].free
  BY <1>2, <1>4, <1>5, <1>6 DEF e
<1>8. Listed(k, S)
  BY <1>6, <1>7, SameLinks
<1>9. KeepsBut(g, S, k, S, {a})
  BY <1>7 DEF KeepsBut
<1>10. ASSUME Merged(g, S) PROVE MergedBut(k, S, {a}, {a})
  <2>1. \A b \in S : EndOf(k, b) = EndOf(g, b)
    BY <1>7 DEF EndOf
  <2>2. \A b \in S : b # g.lastHdr => EndOf(g, b) \in S
    BY DEF Listed
  <2> QED BY <1>6, <1>7, <1>10, <2>1, <2>2 DEF Merged, MergedBut
<1>11. ASSUME ~g.seg[a].free, Counted(g, S, 0)
       PROVE  Counted(k, S, 1)
  <2> DEFINE U == UsedOf(k, S)
  <2>1. UsedOf(g, S) = U \cup {a} /\ a \notin U /\ U \in SUBSET Addresses
    BY <1>2, <1>4, <1>5, <1>6, <1>7, <1>11 DEF UsedOf
  <2>2. Cells(k, U) = Cells(g, U)
    <3>1. \A b \in U : k.seg[b].length = g.seg[b].length
      BY <1>7 DEF UsedOf
    <3> HIDE DEF U
    <3> QED BY <3>1, CellsSame
  <2> HIDE DEF U
  <2>3. Cardinality(Cells(g, U \cup {a})) = Cardinality(Cells(g, U)) + g.seg[a].length
    BY <1>2, <2>1, CellsAdd
  <2>4. /\ Cardinality(U \cup {a}) = Cardinality(U) + 1
        /\ Cardinality(U) \in Nat /\ Cardinality(Cells(g, U)) \in Nat
    BY <1>2, <2>1, CellsFinite, FS_AddElement
  <2>5. g.seg[a].length \in Nat
    BY SegmentFacts
  <2> DEFINE p == Cardinality(U)
             q == Cardinality(Cells(g, U))
             n == g.seg[a].length
  <2>6. /\ g.heapCount = Cardinality(S) /\ g.usedHeapCount = p + 1 + 0
        /\ g.usedHeapAmount = q + n
    BY <1>11, <2>1, <2>3, <2>4 DEF Counted
  <2>7. p \in Nat /\ q \in Nat /\ n \in Nat /\ p = Cardinality(UsedOf(k, S))
        /\ q = Cardinality(Cells(k, UsedOf(k, S))) /\ k.usedHeapAmount = g.usedHeapAmount - n
    BY <1>6, <2>2, <2>4, <2>5 DEF U, y, e
  <2> HIDE DEF p, q, n
  <2> QED BY <1>6, <2>6, <2>7 DEF Counted
<1> QED BY <1>4, <1>5, <1>6, <1>8, <1>9, <1>10, <1>11 DEF k

LEMMA CountFreedKeeps ==
    ASSUME NEW g, NEW S, Listed(g, S)
    PROVE  LET k == CountFreed(g)
           IN  /\ Listed(k, S) /\ k.seg = g.seg /\ k.lastHdr = g.lastHdr
               /\ Counted(g, S, 1) => Counted(k, S, 0)
<1> DEFINE k == CountFreed(g)
           x == g.usedHeapCount - 1
<1>1. k = [g EXCEPT !.usedHeapCount = x]
  BY DEF CountFreed
<1>2. g \in Heaps /\ x \in Int
  BY DEF Listed, Heaps
<1> HIDE DEF k, x
<1>3. /\ k \in Heaps /\ k.seg = g.seg /\ k.lastHdr = g.lastHdr /\ k.heapEnd = g.heapEnd
      /\ k.heapCount = g.heapCount /\ k.usedHeapCount = x
      /\ k.usedHeapAmount = g.usedHeapAmount
  BY <1>1, <1>2 DEF Heaps
<1>4. Listed(k, S)
  BY <1>3, SameLinks
<1>5. Counted(g, S, 1) => Counted(k, S, 0)
  <2>1. UsedOf(k, S) = UsedOf(g, S)
    BY <1>3 DEF UsedOf
  <2>2. \A U : Cells(k, U) = Cells(g, U)
    BY <1>3 DEF Cells
  <2>3. Cardinality(UsedOf(g, S)) \in Nat
    BY <1>2, CellsFinite DEF Listed, UsedOf
  <2>4. k.usedHeapCount = g.usedHeapCount - 1
    BY <1>3 DEF x
  <2> QED BY <1>3, <2>1, <2>2, <2>3, <2>4 DEF Counted
<1> QED BY <1>3, <1>4, <1>5 DEF k

LEMMA FreedKeeps ==
    ASSUME NEW g, NEW S, Listed(g, S), NEW a \in S
    PROVE  LET k == Freed(g, a)
           IN  \E T : /\ Listed(k, T) /\ KeepsBut(g, S, k, T, {a})
                      /\ ~g.seg[a].free /\ Whole(g, S) => Whole(k, T)
<1> DEFINE m == MarkFree(g, a)
           f == CombineForward(m, a)
           b == CombineBackward(f, a)
           k == CountFreed(b)
<1>1. /\ Listed(m, S) /\ KeepsBut(g, S, m, S, {a}) /\ m.seg[a].free
      /\ Merged(g, S) => MergedBut(m, S, {a}, {a})
      /\ ~g.seg[a].free /\ Counted(g, S, 0) => Counted(m, S, 1)
  BY MarkFreeKeeps
<1>2. Freed(g, a) = k
  BY DEF Freed
<1> HIDE DEF m
<1>3. PICK R : /\ Listed(f, R) /\ Keeps(m, S, f, R) /\ a \in R
               /\ \A B : MergedBut(m, S, {a}, B) => MergedBut(f, R, {}, B)
  BY <1>1, CombineForwardKeeps
<1> HIDE DEF f
<1>4. PICK T : /\ Listed(b, T) /\ Keeps(f, R, b, T)
               /\ MergedBut(f, R, {}, {a}) => Merged(b, T)
  BY <1>3, CombineBackwardKeeps
<1> HIDE DEF b
<1>5. /\ Listed(k, T) /\ k.seg = b.seg /\ k.lastHdr = b.lastHdr
      /\ Counted(b, T, 1) => Counted(k, T, 0)
  BY <1>4, CountFreedKeeps
<1> HIDE DEF k
<1>6. KeepsBut(g, S, k, T, {a})
  BY <1>1, <1>3, <1>4, <1>5 DEF Keeps, KeepsBut
<1>7. Merged(b, T) => Merged(k, T)
  BY <1>5 DEF Merged, MergedBut, EndOf
<1>8. Counted(m, S, 1) => Counted(b, T, 1)
  BY <1>3, <1>4 DEF Keeps, CountsKept
<1>9. ~g.seg[a].free /\ Whole(g, S) => Whole(k, T)
  BY <1>1, <1>3, <1>4, <1>5, <1>7, <1>8 DEF Whole
<1> QED BY <1>2, <1>5, <1>6, <1>9

(* The heap grows by at least one page.                                     *)
LEMMA PagesForBound ==
    ASSUME NEW n \in Nat \ {0}
    PROVE  PagesFor(n) \in Nat /\ PagesFor(n) > HeaderLen
<1> DEFINE x == n + PageLen - 1
           q == x \div PageLen
<1>1. /\ PageLen \in Nat /\ PageLen > HeaderLen /\ HeaderLen \in Nat
      /\ PageLen \in Nat \ {0}
  BY HeapAssumption
<1>2. x \in Nat /\ x >= PageLen
  BY <1>1
<1>3. PagesFor(n) = q * PageLen
  BY DEF PagesFor
<1> HIDE DEF x
<1>4. q \in Nat /\ q * PageLen <= x /\ x < q * PageLen + PageLen
  BY <1>1, <1>2
<1> HIDE DEF q
<1>5. q # 0
  BY <1>1, <1>2, <1>4
<1>6. q * PageLen \in Nat /\ q * PageLen >= PageLen
  BY <1>1, <1>4, <1>5
<1> QED BY <1>1, <1>3, <1>6

LEMMA ExpandedKeeps ==
    ASSUME NEW g, NEW S, Listed(g, S), NEW n \in Nat \ {0}, CanExpand(g, n)
    PROVE  LET k == Expanded(g, n)
           IN  \E T : Listed(k, T) /\ Keeps(g, S, k, T)
<1> DEFINE new == g.heapEnd
           len == PagesFor(n)
           l == g.lastHdr
           e == g.seg[l]
           d == [e EXCEPT !.next = new]
           rest == Header(len - HeaderLen, NULL, l, TRUE)
           linked == [g.seg EXCEPT ![l] = d]
           seg == [linked EXCEPT ![new] = rest]
           cnt == g.heapCount + 1
           end == new + len
           k == [g EXCEPT !.seg = seg, !.lastHdr = new, !.heapEnd = end,
                          !.heapCount = cnt]
           T == S \cup {new}
<1>1. Expanded(g, n) = CombineBackward(k, new)
  BY Zenon DEF Expanded
<1>2. /\ len \in Nat /\ len - HeaderLen \in Nat \ {0} /\ HeaderLen \in Nat
      /\ HeaderLen >= 1 /\ MaxLen \in Nat /\ len >= 1
  <2>1. len \in Nat /\ len > HeaderLen
    BY PagesForBound
  <2> HIDE DEF len
  <2> QED BY <2>1, HeapAssumption
<1>3. /\ l \in S /\ e \in Headers /\ g.seg \in [Addresses -> Headers] /\ new \in Int
      /\ l \in 0 .. MaxLen /\ S \subseteq Addresses /\ l \in Addresses /\ g \in Heaps /\ cnt \in Int
      /\ EndOf(g, l) = new /\ l \in Nat /\ HeapStart \in S
  BY SegmentFacts DEF Listed, Heaps
<1>4. \A b \in S : b \in Nat /\ b >= 1 /\ EndOf(g, b) <= new /\ b < new
                   /\ EndOf(g, b) \in Nat
  <2> SUFFICES ASSUME NEW b \in S
               PROVE  b \in Nat /\ b >= 1 /\ EndOf(g, b) <= new /\ b < new
                      /\ EndOf(g, b) \in Nat
    OBVIOUS
  <2>1. EndOf(g, b) <= new /\ EndOf(g, b) > b /\ EndOf(g, b) \in Nat /\ b \in Nat
        /\ b >= 1
    BY SegmentFacts DEF Listed
  <2> HIDE DEF new
  <2> QED BY <1>3, <2>1
<1>5. /\ new \in Nat /\ new >= 1 /\ new \in Addresses /\ new \notin S /\ end \in Nat
      /\ end <= MaxLen + 1 /\ end > new /\ new \in 0 .. MaxLen
      /\ len - HeaderLen \in 0 .. MaxLen
  <2>1. new - 1 + len <= MaxLen
    BY DEF CanExpand
  <2>2. new \in Nat /\ new > 1
    BY <1>3, <1>4
  <2>3. end = new + len
    OBVIOUS
  <2> HIDE DEF new, len, end
  <2>4. new \in Addresses /\ new \in 0 .. MaxLen /\ len - HeaderLen \in 0 .. MaxLen
    BY <1>2, <2>1, <2>2 DEF Addresses, HeapStart
  <2> QED BY <1>2, <1>4, <2>1, <2>2, <2>3, <2>4
<1>6. /\ rest \in Headers /\ rest.length = len - HeaderLen /\ rest.next = NULL
      /\ rest.last = l /\ rest.free /\ rest.magic
  <2> DEFINE x == len - HeaderLen
  <2>1. x \in 0 .. MaxLen /\ l \in 0 .. MaxLen /\ NULL \in 0 .. MaxLen
    BY <1>2, <1>3, <1>5 DEF NULL
  <2> HIDE DEF x, l
  <2> QED BY <2>1 DEF Header, Headers, x
<1>7. /\ d \in Headers /\ d.next = new /\ d.length = e.length /\ d.last = e.last
      /\ d.magic = e.magic /\ d.free = e.free
  <2>1. d = [e EXCEPT !.next = new]
    OBVIOUS
  <2> HIDE DEF d, e, new
  <2> QED BY <1>3, <1>5, <2>1 DEF Headers
<1>8. /\ seg \in [Addresses -> Headers] /\ seg[new] = rest /\ seg[l] = d
      /\ \A b \in S : b # l => seg[b] = g.seg[b]
  <2>1. linked = [g.seg EXCEPT ![l] = d] /\ seg = [linked EXCEPT ![new] = rest]
    OBVIOUS
  <2> HIDE DEF d, rest, linked, seg, l, new
  <2>2. /\ linked \in [Addresses -> Headers] /\ linked[l] = d
        /\ \A b \in Addresses : b # l => linked[b] = g.seg[b]
    BY <1>3, <1>7, <2>1
  <2>3. /\ seg \in [Addresses -> Headers] /\ seg[new] = rest
        /\ \A b \in Addresses : b # new => seg[b] = linked[b]
    BY <1>5, <1>6, <2>1, <2>2
  <2> QED BY <1>3, <1>5, <2>2, <2>3
<1>9. /\ k \in Heaps /\ k.seg = seg /\ k.lastHdr = new /\ k.heapEnd = end
      /\ k.heapCount = cnt /\ k.usedHeapCount = g.usedHeapCount
      /\ k.usedHeapAmount = g.usedHeapAmount
  <2>1. k = [g EXCEPT !.seg = seg, !.lastHdr = new, !.heapEnd = end,
                      !.heapCount = cnt]
    OBVIOUS
  <2> HIDE DEF k, seg, new, end, cnt
  <2>2. /\ g \in Heaps /\ new \in Int /\ end \in Int /\ cnt \in Int
        /\ seg \in [Addresses -> Headers]
    BY <1>3, <1>5, <1>8
  <2> QED BY <2>1, <2>2 DEF Heaps
<1> HIDE DEF k, seg, linked, d, rest, end
<1>10. /\ k.seg[new].length = len - HeaderLen /\ k.seg[new].next = NULL
       /\ k.seg[new].last = l /\ k.seg[new].free /\ k.seg[new].magic
  BY <1>6, <1>8, <1>9
<1>11. \A b \in S :
          /\ k.seg[b].length = g.seg[b].length /\ k.seg[b].last = g.seg[b].last
          /\ k.seg[b].magic = g.seg[b].magic /\ k.seg[b].free = g.seg[b].free
          /\ k.seg[b].next = IF b = l THEN new ELSE g.seg[b].next
  <2> HIDE DEF l, new
  <2> QED BY <1>7, <1>8, <1>9 DEF e
<1>12. EndOf(k, new) = end /\ \A b \in S : EndOf(k, b) = EndOf(g, b)
  <2>1. EndOf(k, new) = new + HeaderLen + (len - HeaderLen)
    BY <1>10 DEF EndOf
  <2>2. end = new + len
    BY DEF end
  <2> HIDE DEF new, len
  <2>3. EndOf(k, new) = end
    BY <1>2, <1>5, <2>1, <2>2
  <2> QED BY <1>11, <2>3 DEF EndOf
<1> HIDE DEF new, l
<1>13. /\ T \subseteq Addresses /\ HeapStart \in T /\ k.lastHdr \in T
       /\ EndOf(k, k.lastHdr) = k.heapEnd /\ k.heapEnd <= MaxLen + 1
  BY <1>3, <1>5, <1>9, <1>12
<1>14. \A b \in T : /\ k.seg[b].magic /\ k.seg[b].length \in Nat \ {0}
                    /\ EndOf(k, b) <= k.heapEnd
  <2>1. ASSUME NEW b \in S
        PROVE  k.seg[b].magic /\ k.seg[b].length \in Nat \ {0} /\ EndOf(k, b) <= k.heapEnd
    <3>1. EndOf(k, b) <= new /\ EndOf(k, b) \in Nat
      BY <1>4, <1>12
    <3>2. EndOf(k, b) <= k.heapEnd
      BY <1>5, <1>9, <3>1
    <3> QED BY <1>11, <3>2 DEF Listed
  <2> QED BY <1>2, <1>5, <1>9, <1>10, <1>12, <2>1
<1>15. \A b \in T : k.seg[b].next = IF b = k.lastHdr THEN NULL ELSE EndOf(k, b)
  <2>1. \A b \in S : k.seg[b].next = EndOf(k, b)
    BY <1>3, <1>11, <1>12 DEF Listed, l
  <2> QED BY <1>5, <1>9, <1>10, <2>1
<1>16. ASSUME NEW b \in T, b # k.lastHdr
       PROVE  EndOf(k, b) \in T /\ k.seg[EndOf(k, b)].last = b
  <2>1. b \in S
    BY <1>9, <1>16
  <2>2. CASE b = l
    BY <1>3, <1>10, <1>12, <2>1, <2>2
  <2>3. CASE b # l
    BY <1>11, <1>12, <2>1, <2>3 DEF Listed, l
  <2> QED BY <2>2, <2>3
<1>17. ASSUME NEW b \in T, b # HeapStart
       PROVE  k.seg[b].last \in T /\ EndOf(k, k.seg[b].last) = b
  <2>1. CASE b = new
    BY <1>3, <1>10, <1>12, <2>1
  <2>2. CASE b # new
    BY <1>11, <1>12, <1>17, <2>2 DEF Listed
  <2> QED BY <2>1, <2>2
<1>18. k.seg[HeapStart].last = NULL
  BY <1>3, <1>11 DEF Listed
<1>19. ASSUME NEW b \in T, NEW c \in T, b < c
       PROVE  EndOf(k, b) <= c
  <2>1. b \in S
    BY <1>4, <1>5, <1>19
  <2>2. CASE c = new
    BY <1>4, <1>12, <2>1, <2>2
  <2>3. CASE c # new
    BY <1>12, <1>19, <2>1, <2>3 DEF Listed
  <2> QED BY <2>2, <2>3
<1>20. Listed(k, T)
  BY <1>9, <1>13, <1>14, <1>15, <1>16, <1>17, <1>18, <1>19 DEF Listed
<1> DEFINE z == CombineBackward(k, new)
<1>21. PICK R : /\ Listed(z, R) /\ Keeps(k, T, z, R)
                /\ MergedBut(k, T, {}, {new}) => Merged(z, R)
  BY <1>20, CombineBackwardKeeps
<1>22. Expanded(g, n) = z
  BY <1>1 DEF k, seg, linked, d, rest, end, new, l
<1> HIDE DEF z
<1>23. Merged(g, S) => MergedBut(k, T, {}, {new})
  <2> SUFFICES ASSUME Merged(g, S), NEW b \in T, b # k.lastHdr, k.seg[b].free,
                      k.seg[EndOf(k, b)].free, EndOf(k, b) # new
               PROVE  FALSE
    BY DEF MergedBut
  <2>1. b \in S /\ b # l /\ EndOf(k, b) = EndOf(g, b) /\ g.seg[b].free
    BY <1>3, <1>9, <1>11, <1>12
  <2>2. EndOf(g, b) \in S
    BY <2>1 DEF Listed, l
  <2>3. g.seg[EndOf(g, b)].free
    BY <1>11, <2>1, <2>2
  <2> QED BY <2>1, <2>3 DEF Merged, MergedBut, l
<1>25. CountsKept(g, S, k, T)
  <2>1. IsFiniteSet(S) /\ Cardinality(S) \in Nat /\ g.heapCount \in Int
    BY CellsFinite DEF Listed, Heaps
  <2>2. Cardinality(T) = Cardinality(S) + 1
    BY <1>5, <2>1, FS_AddElement
  <2>3. \A b \in T : ~k.seg[b].free => b \in S /\ ~g.seg[b].free
    BY <1>10, <1>11
  <2>4. KeepsBut(g, S, k, T, {})
    BY <1>11 DEF KeepsBut
  <2> HIDE DEF T
  <2>5. SameUse(g, S, k, T)
    BY <1>9, <2>1, <2>2, <2>3 DEF SameUse
  <2> QED BY <1>20, <2>4, <2>5, SameUseCounted
<1>24. Keeps(g, S, z, R)
  BY <1>11, <1>21, <1>23, <1>25 DEF Keeps, KeepsBut, CountsKept
<1> QED BY <1>21, <1>22, <1>24

-----------------------------------------------------------------------------
(* malloc, without the cache.                                               *)
LEMMA TakeKeeps ==
    ASSUME NEW g, NEW S, Listed(g, S), NEW a \in S, NEW n \in Nat \ {0},
           Fits(g, a, n)
    PROVE  LET k == Take(g, a, n)
           IN  \E T : /\ Listed(k, T) /\ Keeps(g, S, k, T) /\ a \in T
                      /\ ~k.seg[a].free /\ k.seg[a].length = n
<1>0. g.seg[a].free
  BY DEF Fits
<1>1. CASE CanSplit(g, a, n)
  <2> DEFINE m == Split(g, a, n)
             k == MarkUsed(m, a, n)
  <2>1. Take(g, a, n) = k
    BY <1>1 DEF Take
  <2>2. g.seg[a].length - n - HeaderLen >= 1
    <3> DEFINE x == g.seg[a].length
    <3>1. x \in Nat /\ x > n + HeaderLen + 1 /\ HeaderLen \in Nat
      BY <1>1, SegmentFacts DEF CanSplit
    <3> HIDE DEF x
    <3>2. x - n - HeaderLen >= 1
      BY <3>1
    <3> QED BY <3>2 DEF x
  <2>3. PICK T : /\ Listed(m, T) /\ KeepsBut(g, S, m, T, {}) /\ a \in T
                 /\ m.seg[a].length = n
                 /\ Merged(g, S) => MergedBut(m, T, {a}, {})
                 /\ CountsKept(g, S, m, T) /\ m.seg[a].free
    <3>1. IsCut(g, S, a, n, m)
      BY <1>0, <2>2, SplitKeeps
    <3> HIDE DEF m
    <3> QED BY <3>1 DEF IsCut
  <2> HIDE DEF m
  <2>4. /\ Listed(k, T) /\ Keeps(m, T, k, T)
        /\ ~k.seg[a].free /\ k.seg[a].length = n
        /\ MergedBut(m, T, {a}, {}) => Merged(k, T)
    BY <2>3, MarkUsedKeeps
  <2> HIDE DEF k
  <2>5. Keeps(g, S, k, T)
    BY <2>3, <2>4 DEF Keeps, KeepsBut, CountsKept
  <2> QED BY <2>1, <2>3, <2>4, <2>5
<1>2. CASE ~CanSplit(g, a, n)
  <2>1. g.seg[a].length = n
    BY <1>2 DEF Fits
  <2> DEFINE k == MarkUsed(g, a, n)
  <2>2. Take(g, a, n) = k
    BY <1>2 DEF Take
  <2>3. /\ Listed(k, S) /\ Keeps(g, S, k, S)
        /\ ~k.seg[a].free /\ k.seg[a].length = g.seg[a].length
    BY <1>0, <2>1, MarkUsedKeeps
  <2> HIDE DEF k
  <2> QED BY <2>1, <2>2, <2>3
<1> QED BY <1>1, <1>2

LEMMA FitFits ==
    ASSUME NEW g, NEW S, Listed(g, S), NEW n, Fit(g, n) # 0
    PROVE  LET a == Chain(g)[Fit(g, n)] IN a \in S /\ Fits(g, a, n)
<1> DEFINE c == Chain(g)
           T == {i \in 1 .. Len(c) : Fits(g, c[i], n)}
<1>1. Fit(g, n) = IF T # {} THEN Min(T) ELSE 0
  BY DEF Fit, SelectInSeq
<1>2. c \in Seq(S)
  BY ChainIsList
<1> HIDE DEF c
<1>3. T \subseteq Nat /\ T # {} /\ Fit(g, n) = Min(T)
  BY <1>1
<1>4. Min(T) \in T
  <2> HIDE DEF T
  <2> QED BY <1>3, MinIsLeast
<1>5. Fit(g, n) \in 1 .. Len(c) /\ Fits(g, c[Fit(g, n)], n)
  BY <1>3, <1>4
<1>6. c[Fit(g, n)] \in S
  BY <1>2, <1>5, ElementOfSeq
<1> QED BY <1>5, <1>6 DEF c

LEMMA GrownForKeeps ==
    ASSUME NEW g, NEW S, Listed(g, S), NEW n \in Nat \ {0}
    PROVE  LET k == GrownFor(g, n)
           IN  \E T : Listed(k, T) /\ Keeps(g, S, k, T)
<1>1. CASE Fit(g, n) # 0 \/ ~CanExpand(g, n)
  <2>1. GrownFor(g, n) = g
    BY <1>1 DEF GrownFor
  <2>2. Keeps(g, S, g, S)
    BY DEF Keeps, KeepsBut, CountsKept
  <2> QED BY <2>1, <2>2
<1>2. CASE ~(Fit(g, n) # 0 \/ ~CanExpand(g, n))
  <2>1. GrownFor(g, n) = Expanded(g, n)
    BY <1>2 DEF GrownFor
  <2> QED BY <1>2, <2>1, ExpandedKeeps
<1> QED BY <1>1, <1>2

LEMMA BlockFacts ==
    ASSUME NEW a \in Nat
    PROVE  /\ Block(a) \in Nat /\ Block(a) # NULL /\ HeaderOf(Block(a)) = a
           /\ \A b \in Int : HeaderOf(b) = a <=> b = Block(a)
  BY HeapAssumption DEF Block, HeaderOf, NULL

(* malloc gives a segment that nobody had.                                  *)
Granted(g, S, k, T, n, block) ==
    /\ Listed(k, T) /\ Keeps(g, S, k, T)
    /\ block # NULL =>
          /\ block \in Int /\ HeaderOf(block) \in T
          /\ ~k.seg[HeaderOf(block)].free
          /\ k.seg[HeaderOf(block)].length = n
          /\ \A a \in S : ~g.seg[a].free => a # HeaderOf(block)

LEMMA ScanMallocGrants ==
    ASSUME NEW g, NEW S, Listed(g, S), NEW n \in Nat \ {0}
    PROVE  LET got == ScanMalloc(g, n)
           IN  \E T : Granted(g, S, got.h, T, n, got.block)
<1> DEFINE f == GrownFor(g, n)
           r == GrownFor(f, n)
           i == Fit(r, n)
           a == Chain(r)[i]
           k == Take(r, a, n)
           got == ScanMalloc(g, n)
<1>1. got = IF i = 0 THEN [h |-> r, block |-> NULL]
            ELSE [h |-> k, block |-> Block(a)]
  BY DEF ScanMalloc, Served
<1> HIDE DEF got
<1>2. PICK F : Listed(f, F) /\ Keeps(g, S, f, F)
  BY GrownForKeeps
<1> HIDE DEF f
<1>3. PICK R : Listed(r, R) /\ Keeps(f, F, r, R)
  BY <1>2, GrownForKeeps
<1> HIDE DEF r
<1>4. Keeps(g, S, r, R)
  BY <1>2, <1>3 DEF Keeps, KeepsBut, CountsKept
<1>5. CASE i = 0
  <2>1. got.h = r /\ got.block = NULL
    BY <1>1, <1>5
  <2> QED BY <1>3, <1>4, <2>1 DEF got, Granted
<1>6. CASE i # 0
  <2>1. got.h = k /\ got.block = Block(a)
    BY <1>1, <1>6
  <2>2. a \in R /\ Fits(r, a, n)
    BY <1>3, <1>6, FitFits
  <2> HIDE DEF a
  <2>3. PICK T : /\ Listed(k, T) /\ Keeps(r, R, k, T) /\ a \in T
                 /\ ~k.seg[a].free /\ k.seg[a].length = n
    BY <1>3, <2>2, TakeKeeps
  <2> HIDE DEF k
  <2>4. Keeps(g, S, k, T)
    BY <1>4, <2>3 DEF Keeps, KeepsBut, CountsKept
  <2>5. \A b \in S : ~g.seg[b].free => b # a
    BY <1>4, <2>2 DEF Keeps, KeepsBut, Fits
  <2>6. Block(a) \in Int /\ HeaderOf(Block(a)) = a
    <3>1. a \in Nat
      BY <1>3, <2>2, SegmentFacts
    <3> QED BY <3>1, BlockFacts
  <2>7. Granted(g, S, k, T, n, Block(a))
    BY <2>3, <2>4, <2>5, <2>6 DEF Granted
  <2> QED BY <2>1, <2>7 DEF got
<1> QED BY <1>5, <1>6

-----------------------------------------------------------------------------
(* The heap, the cache and the blocks that callers have: each block and     *)
(* each entry of the cache has a segment that is in use, no two entries     *)
(* have the same one, and no caller has the block of an entry in reserve.   *)
InUse(g, S, b) == b \in Int /\ HeaderOf(b) \in S /\ ~g.seg[HeaderOf(b)].free

Sane(g, e, B, S) ==
    /\ Listed(g, S)
    /\ e \in [Slots -> [addr : Int, free : BOOLEAN]]
    /\ \A b \in B : InUse(g, S, b)
    /\ \A i \in Slots : e[i].addr # NULL =>
          /\ InUse(g, S, e[i].addr)
          /\ g.seg[HeaderOf(e[i].addr)].length = CacheLen
    /\ \A i, j \in Slots :
          e[i].addr # NULL /\ e[i].addr = e[j].addr => i = j
    /\ \A i \in Slots : e[i].addr # NULL /\ e[i].free => e[i].addr \notin B

Filled(e) == \A i \in Slots : e[i].addr # NULL

LEMMA SameHeader ==
    ASSUME NEW b \in Int, NEW c \in Int, HeaderOf(b) = HeaderOf(c)
    PROVE  b = c
  BY HeapAssumption DEF HeaderOf

LEMMA InUseFacts ==
    ASSUME NEW g, NEW S, Listed(g, S), NEW b, InUse(g, S, b)
    PROVE  b # NULL /\ HeaderOf(b) \in S /\ HeaderOf(b) \in Nat
           /\ Block(HeaderOf(b)) = b
<1>1. /\ b \in Int /\ HeaderOf(b) \in S /\ S \subseteq Addresses
      /\ HeaderLen \in Nat /\ HeaderLen >= 1 /\ MaxLen \in Nat
  BY SegmentFacts DEF InUse, Listed
<1>2. b - HeaderLen \in 1 .. MaxLen
  BY <1>1 DEF HeaderOf, Addresses, HeapStart
<1> QED BY <1>1, <1>2 DEF HeaderOf, Block, NULL

LEMMA InUseBlock ==
    ASSUME NEW g, NEW S, Listed(g, S), NEW b, InUse(g, S, b)
    PROVE  b \in Blocks
<1> DEFINE a == HeaderOf(b)
<1>1. /\ b \in Int /\ a \in S /\ MaxLen \in Nat /\ HeaderLen \in Nat
      /\ a \in Nat /\ a >= 1 /\ g.heapEnd \in Int
  BY SegmentFacts DEF InUse
<1>2. EndOf(g, a) <= g.heapEnd /\ g.heapEnd <= MaxLen + 1
  BY <1>1 DEF Listed
<1>3. /\ g.seg[a].length \in Nat \ {0}
      /\ EndOf(g, a) = a + HeaderLen + g.seg[a].length
  BY <1>1, SegmentFacts
<1>4. b = a + HeaderLen
  BY <1>1 DEF HeaderOf
<1> HIDE DEF a
<1>5. b <= MaxLen /\ b >= 1 + HeaderLen
  BY <1>1, <1>2, <1>3, <1>4
<1> QED BY <1>1, <1>5 DEF Blocks, HeapStart

LEMMA SaneKept ==
    ASSUME NEW g, NEW e, NEW B, NEW S, Sane(g, e, B, S),
           NEW k, NEW T, Listed(k, T), KeepsBut(g, S, k, T, {})
    PROVE  Sane(k, e, B, T)
<1>1. \A b : InUse(g, S, b) => /\ InUse(k, T, b)
                               /\ k.seg[HeaderOf(b)].length = g.seg[HeaderOf(b)].length
  BY DEF InUse, KeepsBut
<1>2. \A b \in B : InUse(k, T, b)
  BY <1>1 DEF Sane
<1>3. \A i \in Slots : e[i].addr # NULL =>
          /\ InUse(k, T, e[i].addr)
          /\ k.seg[HeaderOf(e[i].addr)].length = CacheLen
  BY <1>1 DEF Sane
<1> QED BY <1>2, <1>3 DEF Sane

LEMMA SaneFewer ==
    ASSUME NEW g, NEW e, NEW B, NEW S, Sane(g, e, B, S), NEW C, C \subseteq B
    PROVE  Sane(g, e, C, S)
  BY DEF Sane

(* A block that malloc gives is one that nobody has.                        *)
LEMMA GrantedIsNew ==
    ASSUME NEW g, NEW e, NEW B, NEW S, Sane(g, e, B, S),
           NEW k, NEW T, NEW n, NEW b, Granted(g, S, k, T, n, b), b # NULL
    PROVE  /\ Sane(k, e, B, T) /\ InUse(k, T, b) /\ b \notin B
           /\ \A i \in Slots : e[i].addr # b
           /\ k.seg[HeaderOf(b)].length = n
<1>1. Sane(k, e, B, T) /\ InUse(k, T, b) /\ k.seg[HeaderOf(b)].length = n
  BY SaneKept DEF Granted, InUse, Keeps
<1>2. ~InUse(g, S, b)
  BY DEF Granted, InUse
<1> QED BY <1>1, <1>2 DEF Sane

LEMMA SaneGrant ==
    ASSUME NEW g, NEW e, NEW B, NEW S, Sane(g, e, B, S),
           NEW k, NEW T, NEW n, NEW b, Granted(g, S, k, T, n, b), b # NULL
    PROVE  b \notin B /\ Sane(k, e, B \cup {b}, T)
<1> DEFINE C == B \cup {b}
<1>1. /\ Sane(k, e, B, T) /\ InUse(k, T, b) /\ b \notin B
      /\ \A i \in Slots : e[i].addr # b
  BY GrantedIsNew
<1>2. \A i \in Slots : e[i].addr # NULL /\ e[i].free => e[i].addr \notin C
  BY <1>1 DEF Sane
<1>3. \A c \in C : InUse(k, T, c)
  BY <1>1 DEF Sane
<1> HIDE DEF C
<1>4. Sane(k, e, C, T)
  BY <1>1, <1>2, <1>3 DEF Sane
<1> QED BY <1>1, <1>4 DEF C

LEMMA SaneFill ==
    ASSUME NEW g, NEW e, NEW B, NEW S, Sane(g, e, B, S),
           NEW k, NEW T, NEW b, Granted(g, S, k, T, CacheLen, b), b # NULL,
           NEW i \in Slots
    PROVE  Sane(k, [e EXCEPT ![i] = [addr |-> b, free |-> TRUE]], B, T)
<1> DEFINE y == [addr |-> b, free |-> TRUE]
           f == [e EXCEPT ![i] = y]
<1>1. /\ Sane(k, e, B, T) /\ InUse(k, T, b) /\ b \notin B
      /\ \A j \in Slots : e[j].addr # b
      /\ k.seg[HeaderOf(b)].length = CacheLen
  BY GrantedIsNew
<1>2. e \in [Slots -> [addr : Int, free : BOOLEAN]] /\ b \in Int
  BY <1>1 DEF Sane, InUse
<1>3. y \in [addr : Int, free : BOOLEAN] /\ y.addr = b /\ y.free
  BY <1>2
<1>4. f = [e EXCEPT ![i] = y]
  OBVIOUS
<1> HIDE DEF y, f
<1>5. /\ f \in [Slots -> [addr : Int, free : BOOLEAN]] /\ f[i] = y
      /\ \A j \in Slots : j # i => f[j] = e[j]
  BY <1>2, <1>3, <1>4
<1>6. \A j \in Slots : f[j].addr # NULL =>
          InUse(k, T, f[j].addr) /\ k.seg[HeaderOf(f[j].addr)].length = CacheLen
  BY <1>1, <1>3, <1>5 DEF Sane
<1>7. \A j, l \in Slots : f[j].addr # NULL /\ f[j].addr = f[l].addr => j = l
  BY <1>1, <1>3, <1>5 DEF Sane
<1>8. \A j \in Slots : f[j].addr # NULL /\ f[j].free => f[j].addr \notin B
  BY <1>1, <1>3, <1>5 DEF Sane
<1>9. Listed(k, T) /\ \A c \in B : InUse(k, T, c)
  BY <1>1 DEF Sane
<1>10. Sane(k, f, B, T)
  BY <1>5, <1>6, <1>7, <1>8, <1>9 DEF Sane
<1> QED BY <1>10 DEF f, y

LEMMA SaneTaken ==
    ASSUME NEW g, NEW e, NEW B, NEW S, Sane(g, e, B, S),
           NEW i \in Slots, e[i].free, e[i].addr # NULL
    PROVE  /\ e[i].addr \notin B
           /\ Sane(g, [e EXCEPT ![i].free = FALSE], B \cup {e[i].addr}, S)
<1> DEFINE x == e[i]
           y == [x EXCEPT !.free = FALSE]
           f == [e EXCEPT ![i] = y]
           C == B \cup {x.addr}
<1>1. e \in [Slots -> [addr : Int, free : BOOLEAN]]
  BY DEF Sane
<1>2. x \in [addr : Int, free : BOOLEAN] /\ x.free /\ x.addr # NULL
  BY <1>1
<1>3. y = [x EXCEPT !.free = FALSE] /\ f = [e EXCEPT ![i] = y]
  OBVIOUS
<1>4. x.addr \notin B /\ InUse(g, S, x.addr)
  BY DEF Sane
<1>5. \A j \in Slots : j # i => e[j].addr # x.addr
  BY <1>2 DEF Sane
<1> HIDE DEF y, f
<1>6. y \in [addr : Int, free : BOOLEAN] /\ y.addr = x.addr /\ ~y.free
  BY <1>2, <1>3
<1>7. /\ f \in [Slots -> [addr : Int, free : BOOLEAN]] /\ f[i] = y
      /\ \A j \in Slots : j # i => f[j] = e[j]
  BY <1>1, <1>3, <1>6
<1>8. \A j \in Slots : f[j].addr = e[j].addr
  BY <1>6, <1>7
<1>9. \A j \in Slots : f[j].addr # NULL =>
          InUse(g, S, f[j].addr) /\ g.seg[HeaderOf(f[j].addr)].length = CacheLen
  BY <1>8 DEF Sane
<1>10. \A j, l \in Slots : f[j].addr # NULL /\ f[j].addr = f[l].addr => j = l
  BY <1>8 DEF Sane
<1>11. \A j \in Slots : f[j].addr # NULL /\ f[j].free => f[j].addr \notin C
  BY <1>5, <1>6, <1>7, <1>8 DEF Sane
<1>12. Listed(g, S) /\ \A c \in C : InUse(g, S, c)
  BY <1>4 DEF Sane
<1>13. Sane(g, f, C, S)
  BY <1>7, <1>9, <1>10, <1>11, <1>12 DEF Sane
<1> QED BY <1>4, <1>13 DEF f, y

(* malloc of a handler gives a block that nobody has, or NULL.              *)
LEMMA HandlerMallocGrants ==
    ASSUME NEW g, NEW e, NEW B, NEW S, Sane(g, e, B, S), Filled(e),
           NEW n \in Nat \ {0}
    PROVE  LET r == HandlerMalloc(g, e, n)
           IN  /\ Filled(r.cache)
               /\ \E T : /\ Whole(g, S) => Whole(r.h, T)
                         /\ \/ r.block = NULL /\ Sane(r.h, r.cache, B, T)
                            \/ /\ r.block # NULL /\ r.block \notin B
                               /\ Sane(r.h, r.cache, B \cup {r.block}, T)
<1> DEFINE r == HandlerMalloc(g, e, n)
           F == FreeSlots(e)
<1>1. CASE n = CacheLen /\ ~mallocToCache /\ F # {}
  <2> DEFINE i == Min(F)
             f == [e EXCEPT ![i].free = FALSE]
  <2>1. r = [h |-> g, cache |-> f, block |-> e[i].addr]
    BY <1>1 DEF HandlerMalloc
  <2>2. F \subseteq Nat
    BY DEF FreeSlots, Slots
  <2>3. i \in F
    <3> HIDE DEF F
    <3> QED BY <1>1, <2>2, MinIsLeast
  <2>4. i \in Slots /\ e[i].free
    BY <2>3 DEF FreeSlots
  <2>5. e[i].addr # NULL
    BY <2>4 DEF Filled
  <2> HIDE DEF i
  <2>6. e[i].addr \notin B /\ Sane(g, f, B \cup {e[i].addr}, S)
    BY <2>4, <2>5, SaneTaken
  <2>7. Filled(f)
    <3>1. e \in [Slots -> [addr : Int, free : BOOLEAN]]
      BY DEF Sane
    <3>2. \A j \in Slots : f[j].addr = e[j].addr
      BY <3>1
    <3> QED BY <3>2 DEF Filled
  <2> HIDE DEF r, f
  <2> QED BY <2>1, <2>5, <2>6, <2>7 DEF r
<1>2. CASE ~(n = CacheLen /\ ~mallocToCache /\ F # {})
  <2> DEFINE got == ScanMalloc(g, n)
  <2>1. r = [h |-> got.h, cache |-> e, block |-> got.block]
    BY <1>2 DEF HandlerMalloc
  <2>2. Listed(g, S)
    BY DEF Sane
  <2>3. PICK T : Granted(g, S, got.h, T, n, got.block)
    BY <2>2, ScanMallocGrants
  <2> HIDE DEF got, r
  <2>4. r.h = got.h /\ r.cache = e /\ r.block = got.block
    BY <2>1
  <2>7. Whole(g, S) => Whole(got.h, T)
    BY <2>3, KeepsWhole DEF Granted
  <2>5. CASE got.block = NULL
    <3>1. Sane(got.h, e, B, T)
      BY <2>3, SaneKept DEF Granted, Keeps
    <3> QED BY <2>4, <2>5, <2>7, <3>1 DEF r
  <2>6. CASE got.block # NULL
    <3>1. got.block \notin B /\ Sane(got.h, e, B \cup {got.block}, T)
      BY <2>3, <2>6, SaneGrant
    <3> QED BY <2>4, <2>6, <2>7, <3>1 DEF r
  <2> QED BY <2>5, <2>6
<1> QED BY <1>1, <1>2

(* The block of a caller can be freed, and belongs to one entry at most.    *)
LEMMA FreePanicNone ==
    ASSUME NEW g, NEW e, NEW B, NEW S, Sane(g, e, B, S), NEW b \in B,
           ~mallocToCache
    PROVE  /\ FreePanic(g, e, b) = "none"
           /\ \A i \in SlotsOf(g, e, b) : ~e[i].free
           /\ \A i \in Slots : i \in SlotsOf(g, e, b) <=> e[i].addr = b
<1>1. InUse(g, S, b) /\ b # NULL /\ Listed(g, S) /\ HeaderOf(b) \in S
  BY InUseFacts DEF Sane
<1>2. g.seg[HeaderOf(b)].magic /\ ~g.seg[HeaderOf(b)].free
  BY <1>1 DEF Listed, InUse
<1>3. \A i \in Slots : i \in SlotsOf(g, e, b) <=> e[i].addr = b
  BY <1>1 DEF Sane, SlotsOf
<1>4. \A i \in SlotsOf(g, e, b) : ~e[i].free
  BY <1>1, <1>3 DEF Sane, SlotsOf
<1>5. ~\E i \in SlotsOf(g, e, b) : e[i].free
  BY <1>4
<1>6. FreePanic(g, e, b) = "none"
  BY <1>2, <1>5 DEF FreePanic
<1> QED BY <1>3, <1>4, <1>6

LEMMA SaneWithout ==
    ASSUME NEW g, NEW e, NEW B, NEW S, Sane(g, e, B, S), NEW b \in B,
           \A i \in Slots : e[i].addr # b,
           NEW k, NEW T, Listed(k, T), KeepsBut(g, S, k, T, {HeaderOf(b)})
    PROVE  Sane(k, e, B \ {b}, T)
<1>1. b \in Int
  BY DEF Sane, InUse
<1>2. ASSUME NEW c, InUse(g, S, c), c # b
      PROVE  /\ InUse(k, T, c)
             /\ k.seg[HeaderOf(c)].length = g.seg[HeaderOf(c)].length
  <2>1. HeaderOf(c) # HeaderOf(b)
    BY <1>1, <1>2, SameHeader DEF InUse
  <2> QED BY <1>2, <2>1 DEF InUse, KeepsBut
<1>3. \A c \in B \ {b} : InUse(k, T, c)
  BY <1>2 DEF Sane
<1>4. \A i \in Slots : e[i].addr # NULL =>
          /\ InUse(k, T, e[i].addr)
          /\ k.seg[HeaderOf(e[i].addr)].length = CacheLen
  BY <1>2 DEF Sane
<1> QED BY <1>3, <1>4 DEF Sane

(* r is what a free of b leaves of the heap and the cache.                  *)
IsFreed(g, e, B, S, b, r) ==
    /\ \E T : /\ Sane(r.h, r.cache, B \ {b}, T)
              /\ Whole(g, S) => Whole(r.h, T)
    /\ \A i \in Slots : r.cache[i].addr = e[i].addr
    /\ SlotsOf(g, e, b) # {} => r.h = g

LEMMA HandlerFreeFrees ==
    ASSUME NEW g, NEW e, NEW B, NEW S, Sane(g, e, B, S), NEW b \in B,
           ~mallocToCache
    PROVE  IsFreed(g, e, B, S, b, HandlerFree(g, e, b))
<1> DEFINE own == SlotsOf(g, e, b)
           r == HandlerFree(g, e, b)
           f == [i \in Slots |-> IF i \in own THEN [e[i] EXCEPT !.free = TRUE]
                                 ELSE e[i]]
<1>1. \A i \in Slots : i \in own <=> e[i].addr = b
  BY FreePanicNone
<1>2. CASE own # {}
  <2>1. r = [h |-> g, cache |-> f]
    BY <1>2 DEF HandlerFree
  <2>2. e \in [Slots -> [addr : Int, free : BOOLEAN]]
    BY DEF Sane
  <2>3. ASSUME NEW i \in Slots
        PROVE  /\ f[i] \in [addr : Int, free : BOOLEAN] /\ f[i].addr = e[i].addr
               /\ i \notin own => f[i].free = e[i].free
    <3> DEFINE x == e[i]
               y == [x EXCEPT !.free = TRUE]
    <3>1. f[i] = IF i \in own THEN y ELSE x
      OBVIOUS
    <3>2. x \in [addr : Int, free : BOOLEAN] /\ y = [x EXCEPT !.free = TRUE]
      BY <2>2
    <3> HIDE DEF x, y
    <3>3. y \in [addr : Int, free : BOOLEAN] /\ y.addr = x.addr
      BY <3>2
    <3>4. CASE i \in own
      BY <3>1, <3>3, <3>4 DEF x
    <3>5. CASE i \notin own
      BY <3>1, <3>2, <3>5 DEF x
    <3> QED BY <3>4, <3>5
  <2>4. f \in [Slots -> [addr : Int, free : BOOLEAN]]
    <3>1. \A i \in Slots : f[i] \in [addr : Int, free : BOOLEAN]
      BY <2>3
    <3>2. f = [i \in Slots |-> f[i]]
      OBVIOUS
    <3> HIDE DEF f
    <3> QED BY <3>1, <3>2
  <2> HIDE DEF f
  <2>5. \A i \in Slots : f[i].addr # NULL =>
            InUse(g, S, f[i].addr) /\ g.seg[HeaderOf(f[i].addr)].length = CacheLen
    BY <2>3 DEF Sane
  <2>6. \A i, j \in Slots : f[i].addr # NULL /\ f[i].addr = f[j].addr => i = j
    BY <2>3 DEF Sane
  <2>7. \A i \in Slots : f[i].addr # NULL /\ f[i].free => f[i].addr \notin B \ {b}
    BY <1>1, <2>3 DEF Sane
  <2>8. Listed(g, S) /\ \A c \in B \ {b} : InUse(g, S, c)
    BY DEF Sane
  <2>9. Sane(g, f, B \ {b}, S)
    BY <2>4, <2>5, <2>6, <2>7, <2>8 DEF Sane
  <2> HIDE DEF r
  <2>10. IsFreed(g, e, B, S, b, r)
    BY <2>1, <2>3, <2>9 DEF IsFreed
  <2> QED BY <2>10 DEF r
<1>3. CASE own = {}
  <2> DEFINE k == Freed(g, HeaderOf(b))
  <2>1. r = [h |-> k, cache |-> e]
    BY <1>3 DEF HandlerFree
  <2>2. HeaderOf(b) \in S /\ Listed(g, S) /\ ~g.seg[HeaderOf(b)].free
    BY DEF Sane, InUse
  <2>3. PICK T : /\ Listed(k, T) /\ KeepsBut(g, S, k, T, {HeaderOf(b)})
                 /\ Whole(g, S) => Whole(k, T)
    BY <2>2, FreedKeeps
  <2> HIDE DEF k
  <2>4. Sane(k, e, B \ {b}, T)
    BY <1>1, <1>3, <2>3, SaneWithout
  <2> HIDE DEF r
  <2>5. IsFreed(g, e, B, S, b, r)
    BY <1>3, <2>1, <2>3, <2>4 DEF IsFreed
  <2> QED BY <2>5 DEF r
<1> QED BY <1>2, <1>3

-----------------------------------------------------------------------------
(* The refresh of the cache in one go, entry by entry.                      *)
Refilled(x, i, aged) ==
    LET got == ScanMalloc(x.h, CacheLen)
    IN  IF i \in aged /\ got.block # NULL
        THEN [h |-> got.h,
              cache |-> [x.cache EXCEPT ![i] = [addr |-> got.block, free |-> TRUE]]]
        ELSE x

IsRefill(g, e, aged, f, n) ==
    f = [m \in 0 .. n |-> IF m = 0 THEN [h |-> g, cache |-> e]
                          ELSE Refilled(f[m - 1], m, aged)]

LEMMA RefillExists ==
    ASSUME NEW g, NEW e, NEW aged, NEW n \in Nat
    PROVE  \E f : IsRefill(g, e, aged, f, n)
<1> DEFINE T == {m \in Nat : ~\E f : IsRefill(g, e, aged, f, m)}
           start == [h |-> g, cache |-> e]
<1> SUFFICES ASSUME T # {} PROVE FALSE
  OBVIOUS
<1>1. PICK m \in T : \A k \in T : m <= k
  <2>1. T \subseteq Nat
    OBVIOUS
  <2> HIDE DEF T
  <2> QED BY <2>1, LeastNatural
<1>2. m \in Nat /\ ~\E f : IsRefill(g, e, aged, f, m)
  BY <1>1
<1>3. m # 0
  <2> DEFINE f == [i \in 0 .. 0 |-> start]
  <2> HIDE DEF start
  <2>1. f = [i \in 0 .. 0 |-> IF i = 0 THEN start
                              ELSE Refilled(f[i - 1], i, aged)]
    OBVIOUS
  <2> HIDE DEF f
  <2> QED BY <1>2, <2>1 DEF IsRefill, start
<1>4. PICK f : IsRefill(g, e, aged, f, m - 1)
  <2>1. m - 1 \in Nat /\ ~(m <= m - 1)
    BY <1>2, <1>3
  <2>2. m - 1 \notin T
    BY <1>1, <2>1
  <2> QED BY <2>1, <2>2
<1> DEFINE k == [i \in 0 .. m |-> IF i = m THEN Refilled(f[m - 1], m, aged) ELSE f[i]]
           r == [i \in 0 .. m |-> IF i = 0 THEN start
                                  ELSE Refilled(k[i - 1], i, aged)]
<1>5. \A i \in 0 .. (m - 1) :
          f[i] = IF i = 0 THEN start ELSE Refilled(f[i - 1], i, aged)
  <2>1. f = [i \in 0 .. (m - 1) |-> IF i = 0 THEN start
                                    ELSE Refilled(f[i - 1], i, aged)]
    BY <1>4 DEF IsRefill
  <2> QED BY <2>1
<1> HIDE DEF start
<1>6. ASSUME NEW i \in 0 .. m PROVE k[i] = r[i]
  <2>1. CASE i = 0
    BY <1>2, <1>3, <1>5, <2>1
  <2>2. CASE i # 0 /\ i # m
    <3>1. i \in 0 .. (m - 1) /\ i - 1 \in 0 .. m /\ i - 1 # m
      BY <1>2, <2>2
    <3>2. k[i] = f[i] /\ k[i - 1] = f[i - 1]
      BY <2>2, <3>1
    <3> QED BY <1>5, <2>2, <3>1, <3>2
  <2>3. CASE i = m
    <3>1. m \in 0 .. m /\ m - 1 \in 0 .. m /\ m - 1 # m
      BY <1>2, <1>3
    <3>2. k[m] = Refilled(f[m - 1], m, aged) /\ k[m - 1] = f[m - 1]
      BY <3>1
    <3> QED BY <1>3, <2>3, <3>1, <3>2
  <2> QED BY <2>1, <2>2, <2>3
<1>7. k = r
  BY <1>6
<1>8. IsRefill(g, e, aged, k, m)
  <2> HIDE DEF k
  <2> QED BY <1>7 DEF IsRefill, start
<1> QED BY <1>2, <1>8

LEMMA RefreshAllIsRefill ==
    ASSUME NEW g, NEW e, NEW aged
    PROVE  \E f : IsRefill(g, e, aged, f, CacheCount)
                  /\ RefreshAll(g, e, aged) = f[CacheCount]
<1> DEFINE after[i \in 0 .. CacheCount] ==
            IF i = 0 THEN [h |-> g, cache |-> e]
            ELSE LET before == after[i - 1]
                     got    == ScanMalloc(before.h, CacheLen)
                 IN  IF i \in aged /\ got.block # NULL
                     THEN [h |-> got.h,
                           cache |-> [before.cache EXCEPT
                                        ![i] = [addr |-> got.block,
                                                free |-> TRUE]]]
                     ELSE before
<1>1. RefreshAll(g, e, aged) = after[CacheCount]
  BY Zenon DEF RefreshAll
<1>2. PICK f : IsRefill(g, e, aged, f, CacheCount)
  BY RefillExists, HeapCallersAssumption
<1>3. IsRefill(g, e, aged, after, CacheCount)
  BY <1>2, Zenon DEF IsRefill, Refilled
<1> HIDE DEF after
<1> QED BY <1>1, <1>3

LEMMA RefreshAllKeeps ==
    ASSUME NEW g, NEW e, NEW B, NEW S, Sane(g, e, B, S), NEW aged
    PROVE  LET r == RefreshAll(g, e, aged)
           IN  /\ \E T : /\ Sane(r.h, r.cache, B, T)
                         /\ Whole(g, S) => Whole(r.h, T)
               /\ Filled(e) => Filled(r.cache)
<1>1. PICK f : IsRefill(g, e, aged, f, CacheCount)
               /\ RefreshAll(g, e, aged) = f[CacheCount]
  BY RefreshAllIsRefill
<1> DEFINE start == [h |-> g, cache |-> e]
           Good(m) == /\ \E T : /\ Sane(f[m].h, f[m].cache, B, T)
                                /\ Whole(g, S) => Whole(f[m].h, T)
                      /\ Filled(e) => Filled(f[m].cache)
           Bad == {m \in 0 .. CacheCount : ~Good(m)}
<1>2. \A m \in 0 .. CacheCount :
          f[m] = IF m = 0 THEN start ELSE Refilled(f[m - 1], m, aged)
  <2>1. f = [m \in 0 .. CacheCount |-> IF m = 0 THEN start
                                       ELSE Refilled(f[m - 1], m, aged)]
    BY <1>1 DEF IsRefill
  <2> QED BY <2>1
<1>3. Bad = {}
  <2> SUFFICES ASSUME Bad # {} PROVE FALSE
    OBVIOUS
  <2>1. Bad \subseteq Nat
    BY HeapCallersAssumption
  <2>2. PICK m \in Bad : \A k \in Bad : m <= k
    <3> HIDE DEF Bad
    <3> QED BY <2>1, LeastNatural
  <2>3. m \in 0 .. CacheCount /\ ~Good(m)
    BY <2>2
  <2>4. m # 0
    <3> SUFFICES ASSUME m = 0 PROVE FALSE
      OBVIOUS
    <3>1. f[m].h = g /\ f[m].cache = e
      BY <1>2, <2>3
    <3> QED BY <2>3, <3>1
  <2>5. Good(m - 1) /\ m \in Slots
    <3>1. m - 1 \in 0 .. CacheCount /\ ~(m <= m - 1) /\ m \in Slots
      BY <2>3, <2>4, HeapCallersAssumption DEF Slots
    <3>2. m - 1 \notin Bad
      BY <2>1, <2>2, <3>1
    <3> QED BY <3>1, <3>2
  <2> DEFINE x == f[m - 1]
             got == ScanMalloc(x.h, CacheLen)
             y == [addr |-> got.block, free |-> TRUE]
             d == [x.cache EXCEPT ![m] = y]
  <2>6. f[m] = IF m \in aged /\ got.block # NULL THEN [h |-> got.h, cache |-> d]
               ELSE x
    BY <1>2, <2>3, <2>4, Zenon DEF Refilled
  <2>7. PICK T : /\ Sane(x.h, x.cache, B, T)
                 /\ Whole(g, S) => Whole(x.h, T)
    BY <2>5
  <2>8. Filled(e) => Filled(x.cache)
    BY <2>5
  <2> HIDE DEF x
  <2>9. CASE m \in aged /\ got.block # NULL
    <3>1. f[m].h = got.h /\ f[m].cache = d
      BY <2>6, <2>9
    <3>2. Listed(x.h, T)
      BY <2>7 DEF Sane
    <3>3. PICK R : Granted(x.h, T, got.h, R, CacheLen, got.block)
      BY <3>2, ScanMallocGrants, HeapCallersAssumption
    <3> HIDE DEF got
    <3>4. Sane(got.h, d, B, R)
      BY <2>5, <2>7, <2>9, <3>3, SaneFill
    <3>5. Filled(x.cache) => Filled(d)
      <4>1. x.cache \in [Slots -> [addr : Int, free : BOOLEAN]]
        BY <2>7 DEF Sane
      <4>2. \A i \in Slots : d[i].addr = IF i = m THEN got.block ELSE x.cache[i].addr
        BY <4>1
      <4> HIDE DEF d
      <4> QED BY <2>9, <4>2 DEF Filled
    <3>6. Whole(g, S) => Whole(got.h, R)
      BY <2>7, <3>3, KeepsWhole DEF Granted
    <3> HIDE DEF d
    <3> QED BY <2>3, <2>8, <3>1, <3>4, <3>5, <3>6
  <2>10. CASE ~(m \in aged /\ got.block # NULL)
    <3>1. f[m] = x
      BY <2>6, <2>10
    <3> QED BY <2>3, <2>7, <2>8, <3>1
  <2> QED BY <2>9, <2>10
<1>4. CacheCount \in 0 .. CacheCount
  BY HeapCallersAssumption
<1>5. Good(CacheCount)
  BY <1>3, <1>4
<1> QED BY <1>1, <1>5

-----------------------------------------------------------------------------
(* The inductive invariant.  Between calls the callers are those that       *)
(* NoDoubleGrant names; a block that free was called for is nobody's        *)
(* before its segment is marked, but it is not free.                        *)
Freeing == IF pc = "free" THEN {Block(current)} ELSE {}
Callers == held \cup serial \cup {keyboard.arr} \cup Freeing

OneCaller ==
    /\ held \cap serial = {}
    /\ keyboard.arr \notin held \cup serial
    /\ Freeing \cap (held \cup serial \cup {keyboard.arr}) = {}

Outside == {"idle", "free", "forward", "backward"}
Inside == {"refresh", "scan", "split", "mark", "expand"}

Control ==
    /\ Filled(cache)
    /\ pc \in Locations /\ current \in Int
    /\ mallocToCache \in BOOLEAN /\ (mallocToCache => pc \in Inside)
    /\ pc \notin Outside => want \in Sizes
    /\ pc = "refresh" => mallocToCache /\ slot \in 1 .. (CacheCount + 1)
    /\ mallocToCache /\ pc # "refresh" => slot \in Slots
    /\ pc = "take" => slot \in FreeSlots(cache)
    /\ keyboard \in [arr : Int, cap : Nat \ {0}, count : Int]
    /\ panic \in {"none", "NO MORE RAM!!!!!!!"}

(* The step of malloc or free that comes next finds the segment as the one  *)
(* before left it.                                                          *)
Working(S) ==
    /\ pc \in {"scan", "split", "mark", "forward", "backward"} => current \in S
    /\ pc \in {"split", "mark", "forward", "backward"} => h.seg[current].free
    /\ pc = "split" => CanSplit(h, current, Request)
    /\ pc = "mark" => h.seg[current].length = Request

(* Two free neighbours are found only around the segment that malloc has    *)
(* just split or that free has just marked, and only a block that free has  *)
(* marked is not counted yet.                                               *)
Ahead == IF pc \in {"mark", "forward"} THEN {current} ELSE {}
Behind == IF pc \in {"forward", "backward"} THEN {current} ELSE {}
Uncounted == IF pc \in {"forward", "backward"} THEN 1 ELSE 0
Pieces(S) == MergedBut(h, S, Ahead, Behind) /\ Counted(h, S, Uncounted)

HInv ==
    /\ Control
    /\ OneCaller
    /\ \E S : Sane(h, cache, Callers, S) /\ Working(S) /\ Pieces(S)

(* Elsewhere all free neighbours are merged and all blocks counted, and     *)
(* that is enough wherever nothing is left to count.                        *)
LEMMA WholeElsewhere ==
    ASSUME NEW S, Pieces(S), pc \notin {"mark", "forward", "backward"}
    PROVE  Whole(h, S)
  BY DEF Pieces, Ahead, Behind, Uncounted, Merged, Whole

LEMMA WholePieces ==
    ASSUME NEW S, Whole(h', S), pc' \notin {"forward", "backward"}
    PROVE  Pieces(S)'
  BY DEF Pieces, Merged, MergedBut, Uncounted, Whole

LEMMA SizesAssumption ==
    /\ Sizes \subseteq Nat \ {0} /\ CacheLen \in Nat \ {0} /\ CacheCount \in Nat
  BY HeapCallersAssumption

LEMMA FreshHeapListed == Listed(FreshHeap, {HeapStart})
<1> DEFINE x == StartLen - HeaderLen
           g == FreshHeap
           e == HeapStart + StartLen
<1>1. /\ x \in Nat \ {0} /\ x \in 0 .. MaxLen /\ HeapStart \in Addresses /\ e \in Int /\ e <= MaxLen + 1
      /\ HeapStart + HeaderLen + x = e /\ HeapStart \in Int
      /\ StartLen \in Nat /\ HeaderLen \in Nat
  BY HeapAssumption DEF Addresses, HeapStart
<1> DEFINE u == Header(x, NULL, NULL, TRUE)
           seg == [a \in Addresses |-> IF a = HeapStart THEN u ELSE NoHeader]
<1>2. g = [seg |-> seg, lastHdr |-> HeapStart, heapEnd |-> e,
           heapCount |-> 1, usedHeapCount |-> 0, usedHeapAmount |-> 0]
  BY DEF FreshHeap
<1> HIDE DEF x, e, g
<1>3. /\ u \in Headers /\ NoHeader \in Headers
      /\ u.length = x /\ u.next = NULL /\ u.last = NULL /\ u.magic
  <2>1. 0 \in 0 .. MaxLen
    BY HeapAssumption
  <2> QED BY <1>1, <2>1 DEF Header, NoHeader, Headers, NULL
<1> HIDE DEF u
<1>4. seg \in [Addresses -> Headers] /\ seg[HeapStart] = u
  BY <1>1, <1>3
<1> HIDE DEF seg
<1>5. /\ g \in Heaps /\ g.seg = seg /\ g.lastHdr = HeapStart /\ g.heapEnd = e
  BY <1>1, <1>2, <1>4 DEF Heaps
<1>6. EndOf(g, HeapStart) = e
  BY <1>1, <1>3, <1>4, <1>5 DEF EndOf
<1>7. Listed(g, {HeapStart})
  BY <1>1, <1>3, <1>4, <1>5, <1>6 DEF Listed
<1> QED BY <1>7 DEF g

LEMMA FreshHeapWhole == Whole(FreshHeap, {HeapStart})
<1> DEFINE g == FreshHeap
<1>1. g \in Heaps /\ HeapStart \in Addresses
  BY FreshHeapListed DEF Listed
<1>2. g.heapCount = 1 /\ g.usedHeapCount = 0 /\ g.usedHeapAmount = 0
  BY DEF FreshHeap
<1>3. g.seg[HeapStart].free /\ g.lastHdr = HeapStart
  BY <1>1 DEF FreshHeap, Header
<1> HIDE DEF g
<1>4. UsedOf(g, {HeapStart}) = {} /\ Cells(g, {}) = {}
  BY <1>3 DEF UsedOf, Cells
<1>5. Counted(g, {HeapStart}, 0)
  BY <1>2, <1>4, FS_EmptySet, FS_Singleton DEF Counted
<1>6. Merged(g, {HeapStart})
  BY <1>3 DEF Merged, MergedBut
<1> QED BY <1>5, <1>6 DEF Whole, g

(* The heap starts with one free segment, from which the cache and the      *)
(* keyboard queue take their first blocks.                                  *)
THEOREM HInvInit == Init => HInv
<1> SUFFICES ASSUME Init PROVE HInv
  OBVIOUS
<1> DEFINE e == [i \in Slots |-> [addr |-> NULL, free |-> TRUE]]
           filled == RefreshAll(FreshHeap, e, Slots)
           queue == ScanMalloc(filled.h, 1)
           b == queue.block
<1>1. Sane(FreshHeap, e, {}, {HeapStart})
  <2>1. e \in [Slots -> [addr : Int, free : BOOLEAN]]
        /\ \A i \in Slots : e[i].addr = NULL
    BY DEF NULL
  <2> HIDE DEF e
  <2> QED BY <2>1, FreshHeapListed DEF Sane
<1>2. /\ b # NULL /\ \A i \in Slots : filled.cache[i].addr # NULL
      /\ h = queue.h /\ cache = filled.cache /\ mallocToCache = FALSE
      /\ pc = "idle" /\ want = 0 /\ current = NULL /\ slot = 0 /\ held = {}
      /\ keyboard = [arr |-> b, cap |-> 1, count |-> 0]
      /\ serial = {} /\ panic = "none"
  BY DEF Init
<1> HIDE DEF e
<1>3. PICK R : Sane(filled.h, filled.cache, {}, R) /\ Whole(filled.h, R)
  <2>1. Whole(FreshHeap, {HeapStart})
    BY FreshHeapWhole
  <2> QED BY <1>1, <2>1, RefreshAllKeeps
<1> HIDE DEF filled
<1>4. PICK T : Granted(filled.h, R, queue.h, T, 1, b)
  <2>1. Listed(filled.h, R)
    BY <1>3 DEF Sane
  <2> QED BY <2>1, ScanMallocGrants
<1> HIDE DEF queue
<1>5. Sane(queue.h, filled.cache, {} \cup {b}, T)
  BY <1>2, <1>3, <1>4, SaneGrant
<1>6. b \in Int
  BY <1>2, <1>4 DEF Granted
<1>7. Callers = {} \cup {b}
  BY <1>2 DEF Callers, Freeing
<1>8. Sane(h, cache, Callers, T)
  BY <1>2, <1>5, <1>7
<1>9. Working(T)
  BY <1>2 DEF Working
<1>10. OneCaller
  BY <1>2 DEF OneCaller, Freeing
<1>11. Control
  <2>1. keyboard \in [arr : Int, cap : Nat \ {0}, count : Int]
    <3> HIDE DEF b
    <3> QED BY <1>2, <1>6
  <2>2. Filled(cache)
    BY <1>2 DEF Filled
  <2>3. pc \in Locations /\ pc \in Outside /\ pc # "refresh" /\ pc # "take"
        /\ current \in Int
    BY <1>2 DEF Locations, Outside, NULL
  <2> QED BY <1>2, <2>1, <2>2, <2>3 DEF Control
<1>12. Pieces(T)
  <2>1. Whole(h, T)
    BY <1>2, <1>3, <1>4, KeepsWhole DEF Granted
  <2> QED BY <1>2, <2>1 DEF Pieces, Ahead, Behind, Uncounted, Merged, Whole
<1> QED BY <1>8, <1>9, <1>10, <1>11, <1>12 DEF HInv

-----------------------------------------------------------------------------
(* The steps of the main loop that change neither the heap nor the cache,   *)
(* and neither begin nor end a free.                                        *)
LEMMA QuietSteps ==
    ASSUME HInv,
           \/ \E size \in Sizes : CallMalloc(size)
           \/ UpdateLater \/ UpdateNow
           \/ RefreshNext \/ RefreshEntry \/ RefreshDone
           \/ Lookup \/ OutOfMemory \/ HandleKey
    PROVE  HInv'
<1>1. PICK S : Sane(h, cache, Callers, S) /\ Working(S) /\ Pieces(S)
  BY DEF HInv
<1>2. Control /\ OneCaller /\ CacheCount \in Nat
  BY SizesAssumption DEF HInv
<1>3. HeapStart \in S /\ HeapStart \in Int
  BY <1>1 DEF Sane, Listed, HeapStart
<1>0. h' = h /\ Ahead' = Ahead /\ Behind' = Behind /\ Uncounted' = Uncounted
  BY DEF CallMalloc, UpdateLater, UpdateNow, RefreshNext, RefreshEntry, RefreshDone,
     Lookup, OutOfMemory, HandleKey, At, Goto, Stop, main, Ahead, Behind, Uncounted
<1> SUFFICES /\ h' = h /\ cache' = cache /\ serial' = serial /\ held' = held
             /\ keyboard'.arr = keyboard.arr /\ Freeing' = Freeing
             /\ Control' /\ Working(S)'
  <2>1. Callers' = Callers
    BY DEF Callers
  <2>2. OneCaller'
    BY <1>2 DEF OneCaller
  <2>3. Sane(h', cache', Callers', S)
    BY <1>1, <2>1
  <2>4. Pieces(S)'
    BY <1>0, <1>1 DEF Pieces
  <2> QED BY <2>2, <2>3, <2>4 DEF HInv
<1>4. CASE \E size \in Sizes : CallMalloc(size)
  <2>1. PICK size \in Sizes : CallMalloc(size)
    BY <1>4
  <2>2. Control'
    BY <1>2, <2>1 DEF CallMalloc, At, Goto, Control, Filled, Locations, Outside,
       Inside, FreeSlots
  <2> QED BY <2>1, <2>2 DEF CallMalloc, At, Goto, Freeing, Working
<1>5. CASE UpdateLater
  <2>1. Control'
    BY <1>2, <1>5 DEF UpdateLater, At, Goto, Control, Filled, Locations, Outside,
       Inside, FreeSlots
  <2> QED BY <1>5, <2>1 DEF UpdateLater, At, Goto, Freeing, Working
<1>6. CASE UpdateNow
  <2>1. Control'
    <3>1. /\ cache' = cache /\ mallocToCache' = TRUE /\ pc' = "refresh"
          /\ want' = want /\ current' = current /\ keyboard' = keyboard
          /\ panic' = panic /\ slot' = 1 /\ pc = "update"
      BY <1>6 DEF UpdateNow, At, Goto
    <3>2. slot' \in 1 .. (CacheCount + 1)
      BY <1>2, <3>1
    <3>3. Filled(cache)'
      BY <1>2, <3>1 DEF Control, Filled
    <3> QED BY <1>2, <3>1, <3>2, <3>3 DEF Control, Locations, Outside, Inside
  <2> QED BY <1>6, <2>1 DEF UpdateNow, At, Goto, Freeing, Working
<1>7. CASE RefreshNext
  <2>1. Control'
    <3>1. /\ cache' = cache /\ mallocToCache' = mallocToCache /\ pc' = "refresh"
          /\ want' = want /\ current' = current /\ keyboard' = keyboard
          /\ panic' = panic /\ slot' = slot + 1 /\ pc = "refresh"
          /\ slot <= CacheCount
      BY <1>7 DEF RefreshNext, At
    <3>2. slot \in 1 .. (CacheCount + 1)
      BY <1>2, <3>1 DEF Control
    <3>3. slot' \in 1 .. (CacheCount + 1)
      BY <1>2, <3>1, <3>2
    <3>4. Filled(cache)'
      BY <1>2, <3>1 DEF Control, Filled
    <3> QED BY <1>2, <3>1, <3>3, <3>4 DEF Control, Outside, Inside
  <2> QED BY <1>7, <2>1 DEF RefreshNext, At, Goto, Freeing, Working
<1>8. CASE RefreshEntry
  <2>1. Control'
    <3>1. /\ cache' = cache /\ mallocToCache' = mallocToCache /\ pc' = "scan"
          /\ want' = want /\ current' = HeapStart /\ keyboard' = keyboard
          /\ panic' = panic /\ slot' = slot /\ pc = "refresh"
          /\ slot <= CacheCount
      BY <1>8 DEF RefreshEntry, At, Goto
    <3>2. slot \in 1 .. (CacheCount + 1)
      BY <1>2, <3>1 DEF Control
    <3>3. slot' \in Slots
      BY <1>2, <3>1, <3>2 DEF Slots
    <3>4. Filled(cache)'
      BY <1>2, <3>1 DEF Control, Filled
    <3> QED BY <1>2, <1>3, <3>1, <3>3, <3>4 DEF Control, Locations, Outside, Inside
  <2> QED BY <1>3, <1>8, <2>1 DEF RefreshEntry, At, Goto, Freeing, Working
<1>9. CASE RefreshDone
  <2>1. Control'
    <3>1. /\ cache' = cache /\ mallocToCache' = FALSE /\ pc' = "lookup"
          /\ want' = want /\ current' = current /\ keyboard' = keyboard
          /\ panic' = panic /\ pc = "refresh"
      BY <1>9 DEF RefreshDone, At, Goto
    <3>2. Filled(cache)'
      BY <1>2, <3>1 DEF Control, Filled
    <3> QED BY <1>2, <3>1, <3>2 DEF Control, Locations, Outside, Inside
  <2> QED BY <1>9, <2>1 DEF RefreshDone, At, Goto, Freeing, Working
<1>10. CASE Lookup
  <2>1. ~mallocToCache /\ pc = "lookup" /\ cache' = cache
    BY <1>2, <1>10 DEF Lookup, At, Control, Inside
  <2>2. CASE want = CacheLen /\ FreeSlots(cache) # {}
    <3>1. slot' = Min(FreeSlots(cache)) /\ pc' = "take" /\ current' = current
      BY <1>10, <2>2 DEF Lookup, Goto
    <3>2. FreeSlots(cache) \subseteq Nat
      BY DEF FreeSlots, Slots
    <3>3. slot' \in FreeSlots(cache)
      BY <2>2, <3>1, <3>2, MinIsLeast
    <3>4. slot' \in FreeSlots(cache)'
      BY <2>1, <3>3 DEF FreeSlots
    <3>5. Control'
      BY <1>2, <1>10, <2>1, <3>1, <3>4 DEF Lookup, At, Goto, Control, Filled,
         Locations, Outside, Inside
    <3> QED BY <1>10, <3>1, <3>5 DEF Lookup, At, Goto, Freeing, Working
  <2>3. CASE ~(want = CacheLen /\ FreeSlots(cache) # {})
    <3>1. slot' = slot /\ pc' = "scan" /\ current' = HeapStart
      BY <1>10, <2>3 DEF Lookup, Goto
    <3>2. Control'
      <4>1. /\ cache' = cache /\ mallocToCache' = mallocToCache
            /\ want' = want /\ keyboard' = keyboard /\ panic' = panic
        BY <1>10 DEF Lookup
      <4>2. Filled(cache)'
        BY <1>2, <4>1 DEF Control, Filled
      <4> QED BY <1>2, <1>3, <2>1, <3>1, <4>1, <4>2 DEF Control, Locations, Outside, Inside
    <3> QED BY <1>3, <1>10, <3>1, <3>2 DEF Lookup, At, Goto, Freeing, Working
  <2> QED BY <2>2, <2>3
<1>11. CASE OutOfMemory
  <2>1. /\ h' = h /\ cache' = cache /\ mallocToCache' = mallocToCache
        /\ pc' = pc /\ want' = want /\ current' = current /\ slot' = slot
        /\ held' = held /\ keyboard' = keyboard /\ serial' = serial
        /\ panic' = "NO MORE RAM!!!!!!!"
    BY <1>11 DEF OutOfMemory, Stop, main
  <2>2. Control'
    BY <1>2, <2>1 DEF Control, Filled, Locations, Outside, Inside, FreeSlots
  <2>3. Freeing' = Freeing
    BY <2>1 DEF Freeing
  <2>4. Working(S)'
    BY <1>1, <2>1 DEF Working, CanSplit, Request
  <2> QED BY <2>1, <2>2, <2>3, <2>4
<1>12. CASE HandleKey
  <2>1. /\ h' = h /\ cache' = cache /\ mallocToCache' = mallocToCache
        /\ pc' = pc /\ want' = want /\ current' = current /\ slot' = slot
        /\ held' = held /\ serial' = serial /\ panic' = panic
        /\ keyboard' = [keyboard EXCEPT !.count = @ - 1]
    BY <1>12 DEF HandleKey, main
  <2>2. keyboard \in [arr : Int, cap : Nat \ {0}, count : Int]
    BY <1>2 DEF Control
  <2>3. /\ keyboard' \in [arr : Int, cap : Nat \ {0}, count : Int]
        /\ keyboard'.arr = keyboard.arr
    BY <2>1, <2>2
  <2>4. Control'
    BY <1>2, <2>1, <2>3 DEF Control, Filled, Locations, Outside, Inside, FreeSlots
  <2>5. Freeing' = Freeing
    BY <2>1 DEF Freeing
  <2>6. Working(S)'
    BY <1>1, <2>1 DEF Working, CanSplit, Request
  <2> QED BY <2>1, <2>3, <2>4, <2>5, <2>6
<1> QED BY <1>4, <1>5, <1>6, <1>7, <1>8, <1>9, <1>10, <1>11, <1>12

(* An entry of the cache that is taken has the new caller only.             *)
LEMMA TakeEntryStep ==
    ASSUME HInv, TakeEntry
    PROVE  HInv'
<1>1. PICK S : Sane(h, cache, Callers, S) /\ Working(S) /\ Pieces(S)
  BY DEF HInv
<1>2. Control /\ OneCaller
  BY DEF HInv
<1> DEFINE b == cache[slot].addr
           f == [cache EXCEPT ![slot].free = FALSE]
<1>3. /\ pc = "take" /\ pc' = "idle" /\ h' = h /\ cache' = f
      /\ held' = held \cup {b} /\ serial' = serial /\ keyboard' = keyboard
      /\ mallocToCache' = mallocToCache /\ current' = current /\ panic' = panic
  BY DEF TakeEntry, At, Goto
<1>4. slot \in Slots /\ cache[slot].free /\ b # NULL
  BY <1>2, <1>3 DEF Control, FreeSlots, Filled
<1>5. b \notin Callers /\ Sane(h, f, Callers \cup {b}, S)
  BY <1>1, <1>4, SaneTaken
<1>6. Filled(f)
  <2>1. cache \in [Slots -> [addr : Int, free : BOOLEAN]]
    BY <1>1 DEF Sane
  <2>2. \A i \in Slots : f[i].addr = cache[i].addr
    BY <2>1
  <2> QED BY <1>2, <2>2 DEF Control, Filled
<1> HIDE DEF b, f
<1>7. Freeing = {} /\ Freeing' = {}
  BY <1>3 DEF Freeing
<1>8. Callers' = Callers \cup {b}
  BY <1>3, <1>7 DEF Callers
<1>9. OneCaller'
  BY <1>2, <1>3, <1>5, <1>7 DEF OneCaller, Callers
<1>10. ~mallocToCache
  BY <1>2, <1>3 DEF Control, Inside
<1>11. Control'
  BY <1>2, <1>3, <1>6, <1>10 DEF Control, Locations, Outside
<1>12. Sane(h', cache', Callers', S)
  BY <1>3, <1>5, <1>8
<1>13. Working(S)'
  BY <1>3 DEF Working
<1>14. Pieces(S)'
  BY <1>1, <1>3, WholeElsewhere, WholePieces
<1> QED BY <1>9, <1>11, <1>12, <1>13, <1>14 DEF HInv

(* The steps of the search.                                                 *)
LEMMA ScanStep ==
    ASSUME HInv, Scan
    PROVE  HInv'
<1>1. PICK S : Sane(h, cache, Callers, S) /\ Working(S) /\ Pieces(S)
  BY DEF HInv
<1>2. Control /\ OneCaller
  BY DEF HInv
<1> DEFINE n == h.seg[current].next
           fits == Fits(h, current, Request)
           cut == CanSplit(h, current, Request)
<1>3. /\ Listed(h, S) /\ pc = "scan" /\ current \in S
  BY <1>1 DEF Scan, At, Sane, Working
<1>4. h.seg[current].magic
  BY <1>3 DEF Listed
<1>5. /\ h' = h /\ cache' = cache /\ mallocToCache' = mallocToCache /\ want' = want
      /\ slot' = slot /\ held' = held /\ keyboard' = keyboard
      /\ serial' = serial /\ panic' = panic
      /\ \/ fits /\ current' = current /\ pc' = IF cut THEN "split" ELSE "mark"
         \/ pc' = "expand" /\ current' = current
         \/ n # NULL /\ current' = n /\ pc' = pc
  BY <1>4 DEF Scan, Goto
<1>6. Request' = Request
  BY <1>5 DEF Request
<1>7. n # NULL => n \in S
  BY <1>3 DEF Listed
<1>8. S \subseteq Int
  BY <1>3, SegmentFacts
<1>9. current' \in S
  BY <1>3, <1>5, <1>7
<1>10. Working(S)'
  <2>1. CASE fits /\ current' = current /\ pc' = IF cut THEN "split" ELSE "mark"
    <3>1. h'.seg[current'].free
      BY <1>5, <2>1 DEF Fits
    <3>2. pc' = "split" => CanSplit(h', current', Request')
      BY <1>5, <1>6, <2>1
    <3>3. pc' = "mark" => h'.seg[current'].length = Request'
      BY <1>5, <1>6, <2>1 DEF Fits
    <3>4. pc' \in {"split", "mark"}
      BY <2>1
    <3> QED BY <1>9, <3>1, <3>2, <3>3, <3>4 DEF Working
  <2>2. CASE pc' = "expand"
    BY <2>2 DEF Working
  <2>3. CASE pc' = pc
    BY <1>3, <1>9, <2>3 DEF Working
  <2> QED BY <1>5, <2>1, <2>2, <2>3
<1>11. pc' \in {"scan", "split", "mark", "expand"}
  BY <1>3, <1>5
<1>12. Freeing = {} /\ Freeing' = {}
  BY <1>3, <1>11 DEF Freeing
<1>13. Callers' = Callers /\ OneCaller'
  BY <1>2, <1>5, <1>12 DEF Callers, OneCaller
<1>14. Control'
  <2>1. current' \in Int
    BY <1>8, <1>9
  <2>2. Filled(cache)'
    BY <1>2, <1>5 DEF Control, Filled
  <2>3. /\ pc' \in Locations /\ pc' \in Inside /\ pc' \notin Outside
        /\ pc' # "refresh" /\ pc' # "take"
    BY <1>11 DEF Locations, Inside, Outside
  <2>4. want \in Sizes /\ (mallocToCache => slot \in Slots)
    BY <1>2, <1>3 DEF Control, Outside
  <2> QED BY <1>2, <1>5, <2>1, <2>2, <2>3, <2>4 DEF Control
<1>15. Sane(h', cache', Callers', S)
  BY <1>1, <1>5, <1>13
<1>16. Pieces(S)'
  BY <1>1, <1>3, <1>5, WholeElsewhere, WholePieces
<1> QED BY <1>10, <1>13, <1>14, <1>15, <1>16 DEF HInv

LEMMA NullIsInt == NULL \in Int
  BY DEF NULL

LEMMA RequestFacts ==
    ASSUME Control, pc \in Inside
    PROVE  /\ Request \in Nat \ {0} /\ (mallocToCache => Request = CacheLen)
           /\ (mallocToCache /\ pc # "refresh" => slot \in Slots)
           /\ want \in Sizes
  BY SizesAssumption DEF Control, Inside, Outside, Request

LEMMA SplitSegmentStep ==
    ASSUME HInv, SplitSegment
    PROVE  HInv'
<1>1. PICK S : Sane(h, cache, Callers, S) /\ Working(S) /\ Pieces(S)
  BY DEF HInv
<1>2. Control /\ OneCaller
  BY DEF HInv
<1>3. /\ pc = "split" /\ current \in S /\ h.seg[current].free /\ Listed(h, S)
      /\ CanSplit(h, current, Request)
  BY <1>1 DEF SplitSegment, At, Working, Sane
<1>4. Request \in Nat \ {0}
  BY <1>2, <1>3, RequestFacts DEF Inside
<1>5. h.seg[current].length - Request - HeaderLen >= 1
  <2> DEFINE x == h.seg[current].length
             n == Request
  <2>1. x > n + HeaderLen + 1 /\ x \in Nat /\ HeaderLen \in Nat /\ n \in Nat
    BY <1>3, <1>4, SegmentFacts DEF CanSplit
  <2> HIDE DEF x, n
  <2>2. x - n - HeaderLen >= 1
    BY <2>1
  <2> QED BY <2>2 DEF x, n
<1> DEFINE k == Split(h, current, Request)
<1>6. /\ h' = k /\ cache' = cache /\ mallocToCache' = mallocToCache
      /\ want' = want /\ slot' = slot /\ held' = held /\ keyboard' = keyboard
      /\ serial' = serial /\ panic' = panic /\ current' = current /\ pc' = "mark"
  BY <1>5 DEF SplitSegment, Goto
<1>7. PICK T : /\ Listed(k, T) /\ KeepsBut(h, S, k, T, {}) /\ current \in T
               /\ k.seg[current].free /\ k.seg[current].length = Request
               /\ MergedBut(k, T, {current}, {}) /\ Counted(k, T, 0)
  <2> DEFINE n == Request
  <2>1. n \in Nat \ {0} /\ h.seg[current].length - n - HeaderLen >= 1
    BY <1>4, <1>5
  <2> HIDE DEF n
  <2>2. IsCut(h, S, current, n, Split(h, current, n))
    BY <1>3, <2>1, SplitKeeps
  <2>3. Merged(h, S) /\ Counted(h, S, 0)
    BY <1>1, <1>3, WholeElsewhere DEF Whole
  <2>4. IsCut(h, S, current, Request, k)
    BY <2>2 DEF n
  <2> HIDE DEF k
  <2> QED BY <2>3, <2>4 DEF IsCut, CountsKept
<1> HIDE DEF k
<1>8. Sane(k, cache, Callers, T)
  BY <1>1, <1>7, SaneKept
<1>9. Freeing = {} /\ Freeing' = {}
  BY <1>3, <1>6 DEF Freeing
<1>10. Callers' = Callers /\ OneCaller'
  BY <1>2, <1>6, <1>9 DEF Callers, OneCaller
<1>11. Request' = Request
  BY <1>6 DEF Request
<1>12. Working(T)'
  BY <1>6, <1>7, <1>11 DEF Working
<1>13. Control'
  <2>1. Filled(cache)'
    BY <1>2, <1>6 DEF Control, Filled
  <2> QED BY <1>2, <1>3, <1>6, <2>1 DEF Control, Locations, Inside, Outside
<1>14. Sane(h', cache', Callers', T)
  BY <1>6, <1>8, <1>10
<1>15. Pieces(T)'
  BY <1>6, <1>7 DEF Pieces, Ahead, Behind, Uncounted
<1> QED BY <1>10, <1>12, <1>13, <1>14, <1>15 DEF HInv

(* A segment that is marked goes to an entry of the cache or to the caller. *)
LEMMA MarkSegmentStep ==
    ASSUME HInv, MarkSegment
    PROVE  HInv'
<1>1. PICK S : Sane(h, cache, Callers, S) /\ Working(S) /\ Pieces(S)
  BY DEF HInv
<1>2. Control /\ OneCaller
  BY DEF HInv
<1>3. /\ pc = "mark" /\ current \in S /\ h.seg[current].free /\ Listed(h, S)
      /\ h.seg[current].length = Request
  BY <1>1 DEF MarkSegment, At, Working, Sane
<1>4. /\ Request \in Nat \ {0} /\ (mallocToCache => Request = CacheLen)
      /\ (mallocToCache => slot \in Slots)
  BY <1>2, <1>3, RequestFacts DEF Inside
<1> DEFINE k == MarkUsed(h, current, Request)
           b == Block(current)
<1>5. Granted(h, S, k, S, Request, b) /\ Whole(k, S)
  <2>0. MergedBut(h, S, {current}, {}) /\ Counted(h, S, 0)
    BY <1>1, <1>3 DEF Pieces, Ahead, Behind, Uncounted
  <2>1. /\ Listed(k, S) /\ Keeps(h, S, k, S) /\ ~k.seg[current].free
        /\ Merged(k, S)
        /\ k.seg[current].length = h.seg[current].length
    BY <1>3, <1>4, <2>0, MarkUsedKeeps
  <2> HIDE DEF k
  <2>2. b \in Int /\ HeaderOf(b) = current
    <3>1. current \in Nat
      BY <1>3, SegmentFacts
    <3> QED BY <3>1, BlockFacts
  <2> HIDE DEF b
  <2>3. Whole(k, S)
    BY <2>0, <2>1 DEF Whole, Keeps, CountsKept
  <2> QED BY <1>3, <2>1, <2>2, <2>3 DEF Granted
<1>6. b # NULL
  <2>1. current \in Nat
    BY <1>3, SegmentFacts
  <2> QED BY <2>1, BlockFacts
<1>7. Freeing = {}
  BY <1>3 DEF Freeing
<1> DEFINE y == [addr |-> b, free |-> TRUE]
           f == [cache EXCEPT ![slot] = y]
<1>8. CASE mallocToCache
  <2>1. /\ h' = k /\ cache' = f /\ slot' = slot + 1 /\ pc' = "refresh"
        /\ want' = want /\ held' = held /\ current' = NULL
        /\ mallocToCache' = mallocToCache /\ keyboard' = keyboard
        /\ serial' = serial /\ panic' = panic
    BY <1>8 DEF MarkSegment, Goto
  <2>2. Granted(h, S, k, S, CacheLen, b) /\ slot \in Slots
    BY <1>4, <1>5, <1>8
  <2> HIDE DEF k, b
  <2>3. Sane(k, f, Callers, S)
    BY <1>1, <1>6, <2>2, SaneFill
  <2>4. Filled(f)
    <3>1. cache \in [Slots -> [addr : Int, free : BOOLEAN]]
      BY <1>1 DEF Sane
    <3>2. \A i \in Slots : f[i].addr = IF i = slot THEN b ELSE cache[i].addr
      BY <3>1
    <3> HIDE DEF f
    <3> QED BY <1>2, <1>6, <3>2 DEF Control, Filled
  <2> HIDE DEF f
  <2>5. Freeing' = {}
    BY <2>1 DEF Freeing
  <2>6. Callers' = Callers /\ OneCaller'
    BY <1>2, <1>7, <2>1, <2>5 DEF Callers, OneCaller
  <2>7. slot' \in 1 .. (CacheCount + 1)
    BY <2>1, <2>2, SizesAssumption DEF Slots
  <2>8. Control'
    <3>1. Filled(cache') /\ NULL \in Int
      BY <2>1, <2>4, NullIsInt
    <3> QED BY <1>2, <1>3, <1>8, <2>1, <2>7, <3>1 DEF Control, Locations, Inside,
        Outside
  <2>9. Working(S)'
    BY <2>1 DEF Working
  <2>10. Sane(h', cache', Callers', S)
    BY <2>1, <2>3, <2>6
  <2>11. Pieces(S)'
    BY <1>5, <2>1, WholePieces
  <2> QED BY <2>6, <2>8, <2>9, <2>10, <2>11 DEF HInv
<1>9. CASE ~mallocToCache
  <2>1. /\ h' = k /\ held' = held \cup {b} /\ pc' = "idle" /\ cache' = cache
        /\ slot' = slot /\ current' = NULL /\ mallocToCache' = mallocToCache
        /\ keyboard' = keyboard /\ serial' = serial /\ panic' = panic
    BY <1>9 DEF MarkSegment, Goto
  <2> HIDE DEF k, b
  <2>2. b \notin Callers /\ Sane(k, cache, Callers \cup {b}, S)
    BY <1>1, <1>5, <1>6, SaneGrant
  <2>3. Freeing' = {}
    BY <2>1 DEF Freeing
  <2>4. Callers' = Callers \cup {b}
    BY <1>7, <2>1, <2>3 DEF Callers
  <2>5. OneCaller'
    BY <1>2, <2>1, <2>2, <2>3 DEF OneCaller, Callers
  <2>6. Control'
    <3>1. Filled(cache)' /\ NULL \in Int
      BY <1>2, <2>1, NullIsInt DEF Control, Filled
    <3> QED BY <1>2, <1>9, <2>1, <3>1 DEF Control, Locations, Outside
  <2>7. Working(S)'
    BY <2>1 DEF Working
  <2>8. Sane(h', cache', Callers', S)
    BY <2>1, <2>2, <2>4
  <2>9. Pieces(S)'
    BY <1>5, <2>1, WholePieces
  <2> QED BY <2>5, <2>6, <2>7, <2>8, <2>9 DEF HInv
<1> QED BY <1>8, <1>9

LEMMA ExpandStep ==
    ASSUME HInv, Expand
    PROVE  HInv'
<1>1. PICK S : Sane(h, cache, Callers, S) /\ Working(S) /\ Pieces(S)
  BY DEF HInv
<1>2. Control /\ OneCaller
  BY DEF HInv
<1> DEFINE n == Request
           k == Expanded(h, n)
<1>3. /\ pc = "expand" /\ CanExpand(h, n) /\ h' = k /\ cache' = cache
      /\ mallocToCache' = mallocToCache /\ want' = want /\ slot' = slot
      /\ held' = held /\ keyboard' = keyboard /\ serial' = serial
      /\ panic' = panic
      /\ \/ mallocToCache /\ pc' = "scan" /\ current' = HeapStart
         \/ ~mallocToCache /\ pc' = "update" /\ current' = NULL
  BY DEF Expand, At, Goto
<1>4. n \in Nat \ {0}
  BY <1>2, <1>3, RequestFacts DEF Inside
<1>5. Listed(h, S)
  BY <1>1 DEF Sane
<1> HIDE DEF n
<1>6. PICK T : Listed(k, T) /\ Keeps(h, S, k, T)
  BY <1>3, <1>4, <1>5, ExpandedKeeps
<1> HIDE DEF k
<1>7. Sane(k, cache, Callers, T)
  BY <1>1, <1>6, SaneKept DEF Keeps
<1>8. Freeing = {} /\ Freeing' = {}
  BY <1>3 DEF Freeing
<1>9. Callers' = Callers /\ OneCaller'
  BY <1>2, <1>3, <1>8 DEF Callers, OneCaller
<1>10. HeapStart \in T /\ HeapStart \in Int
  BY <1>6 DEF Listed, HeapStart
<1>11. Working(T)'
  BY <1>3, <1>10 DEF Working
<1>12. Control'
  <2>1. Filled(cache)'
    BY <1>2, <1>3 DEF Control, Filled
  <2>2. current' \in Int
    BY <1>3, <1>10 DEF NULL
  <2> QED BY <1>2, <1>3, <2>1, <2>2 DEF Control, Locations, Inside, Outside
<1>13. Sane(h', cache', Callers', T)
  BY <1>3, <1>7, <1>9
<1>14. Pieces(T)'
  <2>1. Whole(k, T)
    BY <1>1, <1>3, <1>6, WholeElsewhere, KeepsWhole
  <2>2. pc' \notin {"forward", "backward"}
    BY <1>3
  <2> QED BY <1>3, <2>1, <2>2, WholePieces
<1> QED BY <1>9, <1>11, <1>12, <1>13, <1>14 DEF HInv

(* free: the block leaves its caller, then its segment is free, then it is  *)
(* merged with those beside it.                                             *)
LEMMA CallFreeStep ==
    ASSUME HInv, NEW b \in held, CallFree(b)
    PROVE  HInv'
<1>1. PICK S : Sane(h, cache, Callers, S) /\ Working(S) /\ Pieces(S)
  BY DEF HInv
<1>2. Control /\ OneCaller
  BY DEF HInv
<1>3. /\ pc = "idle" /\ pc' = "free" /\ held' = held \ {b}
      /\ current' = HeaderOf(b) /\ h' = h /\ cache' = cache
      /\ mallocToCache' = mallocToCache /\ want' = want /\ slot' = slot
      /\ keyboard' = keyboard /\ serial' = serial /\ panic' = panic
  BY DEF CallFree, At, Goto
<1>4. b \in Callers /\ Freeing = {}
  BY <1>3 DEF Callers, Freeing
<1>5. HeaderOf(b) \in Nat /\ Block(HeaderOf(b)) = b
  BY <1>1, <1>4, InUseFacts DEF Sane
<1>6. Freeing' = {b}
  BY <1>3, <1>5 DEF Freeing
<1>7. Callers' = Callers
  BY <1>3, <1>4, <1>6 DEF Callers
<1>8. OneCaller'
  BY <1>2, <1>3, <1>6 DEF OneCaller
<1>9. Control'
  <2>1. Filled(cache)' /\ ~mallocToCache
    BY <1>2, <1>3 DEF Control, Filled, Inside
  <2>2. current' \in Int
    BY <1>3, <1>5
  <2> QED BY <1>2, <1>3, <2>1, <2>2 DEF Control, Locations, Outside
<1>10. Working(S)'
  BY <1>3 DEF Working
<1>11. Sane(h', cache', Callers', S)
  BY <1>1, <1>3, <1>7
<1>12. Pieces(S)'
  BY <1>1, <1>3, WholeElsewhere, WholePieces
<1> QED BY <1>8, <1>9, <1>10, <1>11, <1>12 DEF HInv

LEMMA FreeStep ==
    ASSUME HInv, Free
    PROVE  HInv'
<1>1. PICK S : Sane(h, cache, Callers, S) /\ Working(S) /\ Pieces(S)
  BY DEF HInv
<1>2. Control /\ OneCaller
  BY DEF HInv
<1> DEFINE b == Block(current)
           r == HandlerFree(h, cache, b)
<1>3. pc = "free"
  BY DEF Free, At
<1>0. Whole(h, S)
  BY <1>1, <1>3, WholeElsewhere
<1>4. ~mallocToCache /\ Freeing = {b} /\ b \in Callers
  BY <1>2, <1>3 DEF Control, Inside, Freeing, Callers
<1>5. held \cup serial \cup {keyboard.arr} = Callers \ {b}
  BY <1>2, <1>4 DEF OneCaller, Callers
<1>6. /\ FreePanic(h, cache, b) = "none"
      /\ \A i \in Slots : i \in SlotsOf(h, cache, b) <=> cache[i].addr = b
  BY <1>1, <1>4, FreePanicNone
<1>7. /\ held' = held /\ keyboard' = keyboard /\ serial' = serial /\ slot' = slot
      /\ panic' = panic /\ mallocToCache' = mallocToCache /\ want' = want
      /\ \/ /\ SlotsOf(h, cache, b) # {} /\ cache' = r.cache /\ h' = h
            /\ current' = NULL /\ pc' = "idle"
         \/ /\ SlotsOf(h, cache, b) = {} /\ h' = MarkFree(h, current)
            /\ pc' = "forward" /\ cache' = cache /\ current' = current
  BY <1>6 DEF Free, Goto
<1>8. Freeing' = {}
  BY <1>7 DEF Freeing
<1>9. Callers' = Callers \ {b} /\ OneCaller'
  BY <1>2, <1>5, <1>7, <1>8 DEF Callers, OneCaller
<1>10. current \in Int
  BY <1>2 DEF Control
<1>11. CASE SlotsOf(h, cache, b) # {}
  <2>1. /\ \E T : Sane(r.h, r.cache, Callers \ {b}, T) /\ Whole(r.h, T)
        /\ \A i \in Slots : r.cache[i].addr = cache[i].addr
        /\ r.h = h
    <3> HIDE DEF b
    <3>1. IsFreed(h, cache, Callers, S, b, r)
      BY <1>1, <1>4, HandlerFreeFrees
    <3> HIDE DEF r
    <3> QED BY <1>0, <1>11, <3>1 DEF IsFreed
  <2>2. cache' = r.cache /\ h' = h /\ current' = NULL /\ pc' = "idle"
    BY <1>7, <1>11
  <2> HIDE DEF r
  <2>3. PICK T : Sane(h, r.cache, Callers \ {b}, T) /\ Whole(h, T)
    BY <2>1
  <2>4. Filled(cache)'
    BY <1>2, <2>1, <2>2 DEF Control, Filled
  <2>5. Control'
    BY <1>2, <1>4, <1>7, <2>2, <2>4, NullIsInt DEF Control, Locations, Outside
  <2>6. Working(T)'
    BY <2>2 DEF Working
  <2>7. Sane(h', cache', Callers', T)
    BY <1>9, <2>2, <2>3
  <2>8. Pieces(T)'
    BY <2>2, <2>3, WholePieces
  <2> QED BY <1>9, <2>5, <2>6, <2>7, <2>8 DEF HInv
<1>12. CASE SlotsOf(h, cache, b) = {}
  <2> DEFINE k == MarkFree(h, current)
  <2>1. h' = k /\ pc' = "forward" /\ cache' = cache /\ current' = current
    BY <1>7, <1>12
  <2>2. HeaderOf(b) = current
    BY <1>10, HeapAssumption DEF HeaderOf, Block
  <2>3. Listed(h, S) /\ current \in S /\ ~h.seg[current].free
    BY <1>1, <1>4, <2>2 DEF Sane, InUse
  <2>4. /\ Listed(k, S) /\ KeepsBut(h, S, k, S, {current}) /\ k.seg[current].free
        /\ MergedBut(k, S, {current}, {current}) /\ Counted(k, S, 1)
    BY <1>0, <2>3, MarkFreeKeeps DEF Whole
  <2> HIDE DEF k, b
  <2>5. Sane(k, cache, Callers \ {b}, S)
    BY <1>1, <1>4, <1>6, <1>12, <2>2, <2>4, SaneWithout
  <2>6. Filled(cache)'
    BY <1>2, <2>1 DEF Control, Filled
  <2>7. Control'
    BY <1>2, <1>4, <1>7, <2>1, <2>6 DEF Control, Locations, Outside
  <2>8. Working(S)'
    BY <2>1, <2>3, <2>4 DEF Working
  <2>9. Sane(h', cache', Callers', S)
    BY <1>9, <2>1, <2>5
  <2>10. Pieces(S)'
    BY <2>1, <2>4 DEF Pieces, Ahead, Behind, Uncounted
  <2> QED BY <1>9, <2>7, <2>8, <2>9, <2>10 DEF HInv
<1> QED BY <1>11, <1>12

LEMMA FreeForwardStep ==
    ASSUME HInv, FreeForward
    PROVE  HInv'
<1>1. PICK S : Sane(h, cache, Callers, S) /\ Working(S) /\ Pieces(S)
  BY DEF HInv
<1>2. Control /\ OneCaller
  BY DEF HInv
<1> DEFINE k == CombineForward(h, current)
<1>3. /\ pc = "forward" /\ pc' = "backward" /\ h' = k /\ cache' = cache
      /\ mallocToCache' = mallocToCache /\ current' = current
      /\ held' = held /\ keyboard' = keyboard /\ serial' = serial
      /\ panic' = panic
  BY DEF FreeForward, At, Goto
<1>4. Listed(h, S) /\ current \in S /\ h.seg[current].free
  BY <1>1, <1>3 DEF Sane, Working
<1>5. /\ \E T : /\ Listed(k, T) /\ Keeps(h, S, k, T) /\ current \in T
                /\ \A B : MergedBut(h, S, {current}, B) => MergedBut(k, T, {}, B)
      /\ k.seg[current].free
  BY <1>4, CombineForwardKeeps
<1> HIDE DEF k
<1>6. PICK T : /\ Listed(k, T) /\ Keeps(h, S, k, T) /\ current \in T
               /\ \A B : MergedBut(h, S, {current}, B) => MergedBut(k, T, {}, B)
  BY <1>5
<1>7. Sane(k, cache, Callers, T)
  BY <1>1, <1>6, SaneKept DEF Keeps
<1>8. Freeing = {} /\ Freeing' = {}
  BY <1>3 DEF Freeing
<1>9. Callers' = Callers /\ OneCaller'
  BY <1>2, <1>3, <1>8 DEF Callers, OneCaller
<1>10. Control'
  <2>1. Filled(cache)' /\ ~mallocToCache
    BY <1>2, <1>3 DEF Control, Filled, Inside
  <2> QED BY <1>2, <1>3, <2>1 DEF Control, Locations, Outside
<1>11. Working(T)'
  BY <1>3, <1>5, <1>6 DEF Working
<1>12. Sane(h', cache', Callers', T)
  BY <1>3, <1>7, <1>9
<1>13. Pieces(T)'
  <2>1. Counted(h, S, 1) /\ MergedBut(h, S, {current}, {current})
    BY <1>1, <1>3 DEF Pieces, Ahead, Behind, Uncounted
  <2>2. Counted(k, T, 1) /\ MergedBut(k, T, {}, {current})
    BY <1>6, <2>1 DEF Keeps, CountsKept
  <2> QED BY <1>3, <2>2 DEF Pieces, Ahead, Behind, Uncounted
<1> QED BY <1>9, <1>10, <1>11, <1>12, <1>13 DEF HInv

LEMMA FreeBackwardStep ==
    ASSUME HInv, FreeBackward
    PROVE  HInv'
<1>1. PICK S : Sane(h, cache, Callers, S) /\ Working(S) /\ Pieces(S)
  BY DEF HInv
<1>2. Control /\ OneCaller
  BY DEF HInv
<1> DEFINE m == CombineBackward(h, current)
           k == CountFreed(m)
<1>3. /\ pc = "backward" /\ pc' = "idle" /\ h' = k /\ cache' = cache
      /\ mallocToCache' = mallocToCache /\ current' = NULL
      /\ held' = held /\ keyboard' = keyboard /\ serial' = serial
      /\ panic' = panic
  BY DEF FreeBackward, At, Goto
<1>4. Listed(h, S) /\ current \in S
  BY <1>1, <1>3 DEF Sane, Working
<1>5. PICK T : /\ Listed(m, T) /\ Keeps(h, S, m, T)
               /\ MergedBut(h, S, {}, {current}) => Merged(m, T)
  BY <1>4, CombineBackwardKeeps
<1> HIDE DEF m
<1>6. /\ Listed(k, T) /\ k.seg = m.seg /\ k.lastHdr = m.lastHdr
      /\ Counted(m, T, 1) => Counted(k, T, 0)
  BY <1>5, CountFreedKeeps
<1> HIDE DEF k
<1>0. Whole(k, T)
  <2>1. MergedBut(h, S, {}, {current}) /\ Counted(h, S, 1)
    BY <1>1, <1>3 DEF Pieces, Ahead, Behind, Uncounted
  <2>2. Merged(m, T) /\ Counted(m, T, 1)
    BY <1>5, <2>1 DEF Keeps, CountsKept
  <2>3. Merged(k, T)
    BY <1>6, <2>2 DEF Merged, MergedBut, EndOf
  <2> QED BY <1>6, <2>2, <2>3 DEF Whole
<1>7. KeepsBut(h, S, k, T, {})
  BY <1>5, <1>6 DEF Keeps, KeepsBut
<1>8. Sane(k, cache, Callers, T)
  BY <1>1, <1>6, <1>7, SaneKept
<1>9. Freeing = {} /\ Freeing' = {}
  BY <1>3 DEF Freeing
<1>10. Callers' = Callers /\ OneCaller'
  BY <1>2, <1>3, <1>9 DEF Callers, OneCaller
<1>11. Control'
  <2>1. Filled(cache)' /\ ~mallocToCache
    BY <1>2, <1>3 DEF Control, Filled, Inside
  <2> QED BY <1>2, <1>3, <2>1, NullIsInt DEF Control, Locations, Outside
<1>12. Working(T)'
  BY <1>3 DEF Working
<1>13. Sane(h', cache', Callers', T)
  BY <1>3, <1>8, <1>10
<1>14. Pieces(T)'
  <2>1. h' = k /\ pc' \notin {"forward", "backward"}
    BY <1>3
  <2> QED BY <1>0, <2>1, WholePieces
<1> QED BY <1>10, <1>11, <1>12, <1>13, <1>14 DEF HInv

-----------------------------------------------------------------------------
(* The interrupt handlers.                                                  *)
LEMMA AtInterrupt ==
    ASSUME HInv, ~Overtakes
    PROVE  /\ pc \in {"idle", "update", "lookup", "take", "scan", "free"}
           /\ ~mallocToCache
           /\ pc = "scan" => current \in ToSet(Chain(h'))
           /\ pc = "take" => cache'[slot].free
  BY DEF Overtakes, HInv, Control, Locations, Inside

LEMMA RefreshedKeeps ==
    ASSUME Control, ~mallocToCache, NEW S, Sane(h, cache, Callers, S), NEW aged
    PROVE  LET r == Refreshed(aged)
           IN  /\ \E T : /\ Sane(r.h, r.cache, Callers, T)
                         /\ Whole(h, S) => Whole(r.h, T)
               /\ Filled(r.cache)
<1> DEFINE r == RefreshAll(h, cache, aged)
<1>1. Refreshed(aged) = r
  BY DEF Refreshed
<1>2. /\ \E T : /\ Sane(r.h, r.cache, Callers, T)
                /\ Whole(h, S) => Whole(r.h, T)
      /\ Filled(cache) => Filled(r.cache)
  BY RefreshAllKeeps
<1> HIDE DEF r
<1> QED BY <1>1, <1>2 DEF Control

(* A handler that runs out of memory changes nothing.                       *)
LEMMA StopStep ==
    ASSUME HInv, Stop("NO MORE RAM!!!!!!!")
    PROVE  HInv'
<1>1. PICK S : Sane(h, cache, Callers, S) /\ Working(S) /\ Pieces(S)
  BY DEF HInv
<1>2. /\ h' = h /\ cache' = cache /\ mallocToCache' = mallocToCache
      /\ pc' = pc /\ want' = want /\ current' = current /\ slot' = slot
      /\ held' = held /\ keyboard' = keyboard /\ serial' = serial
      /\ panic' = "NO MORE RAM!!!!!!!"
  BY DEF Stop, main
<1>3. Freeing' = Freeing
  BY <1>2 DEF Freeing
<1>4. Callers' = Callers
  BY <1>2, <1>3 DEF Callers
<1>5. OneCaller'
  BY <1>2, <1>3 DEF HInv, OneCaller
<1>6. Control'
  BY <1>2 DEF HInv, Control, Filled, FreeSlots
<1>7. Working(S)'
  BY <1>1, <1>2 DEF Working, CanSplit, Request
<1>8. Sane(h', cache', Callers', S)
  BY <1>1, <1>2, <1>4
<1>9. Pieces(S)'
  BY <1>1, <1>2 DEF Pieces, Ahead, Behind, Uncounted
<1> QED BY <1>5, <1>6, <1>7, <1>8, <1>9 DEF HInv

(* A handler leaves the main loop where it is.                              *)
LEMMA HandlerLeavesMain ==
    ASSUME HInv, ~Overtakes, UNCHANGED main,
           mallocToCache' = mallocToCache, panic' = panic, Filled(cache'),
           keyboard' \in [arr : Int, cap : Nat \ {0}, count : Int]
    PROVE  /\ Control' /\ Freeing' = Freeing
           /\ \A S : Listed(h', S) => Working(S)'
           /\ \A S : Whole(h', S) => Pieces(S)'
<1>1. /\ pc \in {"idle", "update", "lookup", "take", "scan", "free"}
      /\ ~mallocToCache
      /\ pc = "scan" => current \in ToSet(Chain(h'))
      /\ pc = "take" => cache'[slot].free
  BY AtInterrupt
<1>2. pc' = pc /\ want' = want /\ current' = current /\ slot' = slot /\ held' = held
  BY DEF main
<1>3. Control'
  BY <1>1, <1>2 DEF HInv, Control, Inside, FreeSlots
<1>4. Freeing' = Freeing
  BY <1>2 DEF Freeing
<1>5. \A S : Listed(h', S) => Working(S)'
  BY <1>1, <1>2, ChainIsList DEF Working
<1>6. \A S : Whole(h', S) => Pieces(S)'
  BY <1>1, <1>2, WholePieces
<1> QED BY <1>3, <1>4, <1>5, <1>6

LEMMA KeyStoredStep ==
    ASSUME HInv, KeyStored
    PROVE  HInv'
<1>1. PICK S : Sane(h, cache, Callers, S) /\ Working(S) /\ Pieces(S)
  BY DEF HInv
<1>2. /\ h' = h /\ cache' = cache /\ mallocToCache' = mallocToCache
      /\ pc' = pc /\ want' = want /\ current' = current /\ slot' = slot
      /\ held' = held /\ serial' = serial /\ panic' = panic
      /\ keyboard' = [keyboard EXCEPT !.count = @ + 1]
  BY DEF KeyStored, main
<1>3. Control /\ OneCaller
  BY DEF HInv
<1>4. keyboard \in [arr : Int, cap : Nat \ {0}, count : Int]
  BY <1>3 DEF Control
<1>5. /\ keyboard' \in [arr : Int, cap : Nat \ {0}, count : Int]
      /\ keyboard'.arr = keyboard.arr
  BY <1>2, <1>4
<1>6. Freeing' = Freeing
  BY <1>2 DEF Freeing
<1>7. Callers' = Callers /\ OneCaller'
  BY <1>2, <1>3, <1>5, <1>6 DEF Callers, OneCaller
<1>8. Control'
  BY <1>2, <1>3, <1>5 DEF Control, Filled, FreeSlots
<1>9. Working(S)'
  BY <1>1, <1>2 DEF Working, CanSplit, Request
<1>10. Sane(h', cache', Callers', S)
  BY <1>1, <1>2, <1>7
<1>11. Pieces(S)'
  BY <1>1, <1>2 DEF Pieces, Ahead, Behind, Uncounted
<1> QED BY <1>7, <1>8, <1>9, <1>10, <1>11 DEF HInv

LEMMA KeyStoredResizedStep ==
    ASSUME HInv, NEW aged \in Aged, KeyStoredResized(aged), ~overtaken'
    PROVE  HInv'
<1>1. PICK S : Sane(h, cache, Callers, S) /\ Whole(h, S)
  <2>1. PICK S : Sane(h, cache, Callers, S) /\ Pieces(S)
    BY DEF HInv
  <2>2. pc \notin {"mark", "forward", "backward"}
    BY AtInterrupt DEF KeyStoredResized
  <2> QED BY <2>1, <2>2, WholeElsewhere
<1>2. Control /\ OneCaller /\ ~mallocToCache /\ ~Overtakes
  BY AtInterrupt DEF HInv, KeyStoredResized
<1> DEFINE start == Refreshed(aged)
           n == 2 * keyboard.cap
           got == HandlerMalloc(start.h, start.cache, n)
           b == got.block
           a == keyboard.arr
           after == HandlerFree(got.h, got.cache, a)
           why == FreePanic(got.h, got.cache, a)
           C == Callers \cup {b}
<1>3. IF b = NULL THEN Stop("NO MORE RAM!!!!!!!")
      ELSE IF why # "none" THEN Stop(why)
      ELSE /\ h' = after.h /\ cache' = after.cache
           /\ keyboard' = [arr |-> b, cap |-> n, count |-> keyboard.count + 1]
           /\ UNCHANGED <<mallocToCache, main, serial, panic>>
  BY DEF KeyStoredResized
<1>4. keyboard \in [arr : Int, cap : Nat \ {0}, count : Int]
  BY <1>2 DEF Control
<1>5. n \in Nat \ {0} /\ keyboard.count + 1 \in Int
  BY <1>4
<1>6. a \in Callers
  BY DEF Callers
<1>7. /\ \E T : Sane(start.h, start.cache, Callers, T) /\ Whole(start.h, T)
      /\ Filled(start.cache)
  BY <1>1, <1>2, RefreshedKeeps
<1> HIDE DEF start, n
<1>8. /\ Filled(got.cache)
      /\ \E T : /\ Whole(got.h, T)
                /\ \/ b = NULL /\ Sane(got.h, got.cache, Callers, T)
                   \/ /\ b # NULL /\ b \notin Callers
                      /\ Sane(got.h, got.cache, C, T)
  BY <1>5, <1>7, HandlerMallocGrants
<1> HIDE DEF got
<1>9. CASE b = NULL
  BY <1>3, <1>9, StopStep
<1>10. CASE b # NULL
  <2>1. PICK T : Sane(got.h, got.cache, C, T) /\ Whole(got.h, T)
    BY <1>8, <1>10
  <2>2. b \notin Callers /\ b \in C /\ a \in C
    BY <1>6, <1>8, <1>10
  <2>3. b \in Int
    BY <2>1, <2>2 DEF Sane, InUse
  <2> HIDE DEF b, C, a
  <2>4. why = "none"
    BY <1>2, <2>1, <2>2, FreePanicNone
  <2>5. /\ \E U : Sane(after.h, after.cache, C \ {a}, U) /\ Whole(after.h, U)
        /\ \A i \in Slots : after.cache[i].addr = got.cache[i].addr
    <3>1. IsFreed(got.h, got.cache, C, T, a, after)
      BY <1>2, <2>1, <2>2, HandlerFreeFrees
    <3> HIDE DEF after
    <3> QED BY <2>1, <3>1 DEF IsFreed
  <2>6. /\ h' = after.h /\ cache' = after.cache /\ UNCHANGED main
        /\ keyboard' = [arr |-> b, cap |-> n, count |-> keyboard.count + 1]
        /\ mallocToCache' = mallocToCache /\ serial' = serial /\ panic' = panic
        /\ held' = held
    BY <1>3, <1>10, <2>4 DEF main
  <2> HIDE DEF after
  <2>7. PICK U : Sane(after.h, after.cache, C \ {a}, U) /\ Whole(after.h, U)
    BY <2>5
  <2>8. Filled(cache')
    BY <1>8, <2>5, <2>6 DEF Filled
  <2>9. /\ keyboard' \in [arr : Int, cap : Nat \ {0}, count : Int]
        /\ keyboard'.arr = b
    BY <1>5, <2>3, <2>6
  <2>10. Control' /\ Freeing' = Freeing /\ Working(U)' /\ (Whole(h', U) => Pieces(U)')
    <3>1. Listed(h', U)
      BY <2>6, <2>7 DEF Sane
    <3> QED BY <1>2, <2>6, <2>8, <2>9, <3>1, HandlerLeavesMain
  <2>11. OneCaller'
    BY <1>2, <2>2, <2>6, <2>9, <2>10 DEF OneCaller, Callers
  <2>12. Callers' = C \ {a}
    <3>1. a \notin held \cup serial \cup Freeing /\ b # a
      BY <1>2, <1>6, <2>2 DEF OneCaller, a
    <3>2. Callers' = held \cup serial \cup {b} \cup Freeing
      BY <2>6, <2>9, <2>10 DEF Callers
    <3>3. C = held \cup serial \cup {a} \cup Freeing \cup {b}
      BY DEF C, Callers, a
    <3> QED BY <3>1, <3>2, <3>3
  <2>13. Sane(h', cache', Callers', U)
    BY <2>6, <2>7, <2>12
  <2>14. Pieces(U)'
    BY <2>6, <2>7, <2>10
  <2> QED BY <2>10, <2>11, <2>13, <2>14 DEF HInv
<1> QED BY <1>9, <1>10

LEMMA PacketAllocatedStep ==
    ASSUME HInv, NEW aged \in Aged, NEW size \in Sizes,
           PacketAllocated(size, aged), ~overtaken'
    PROVE  HInv'
<1>1. PICK S : Sane(h, cache, Callers, S) /\ Whole(h, S)
  <2>1. PICK S : Sane(h, cache, Callers, S) /\ Pieces(S)
    BY DEF HInv
  <2>2. pc \notin {"mark", "forward", "backward"}
    BY AtInterrupt DEF PacketAllocated
  <2> QED BY <2>1, <2>2, WholeElsewhere
<1>2. Control /\ OneCaller /\ ~mallocToCache /\ ~Overtakes
  BY AtInterrupt DEF HInv, PacketAllocated
<1> DEFINE start == Refreshed(aged)
           got == HandlerMalloc(start.h, start.cache, size)
           b == got.block
<1>3. IF b = NULL THEN Stop("NO MORE RAM!!!!!!!")
      ELSE /\ h' = got.h /\ cache' = got.cache /\ serial' = serial \cup {b}
           /\ UNCHANGED <<mallocToCache, main, keyboard, panic>>
  BY DEF PacketAllocated
<1>4. /\ \E T : Sane(start.h, start.cache, Callers, T) /\ Whole(start.h, T)
      /\ Filled(start.cache)
  BY <1>1, <1>2, RefreshedKeeps
<1>5. size \in Nat \ {0}
  BY SizesAssumption
<1> HIDE DEF start
<1>6. /\ Filled(got.cache)
      /\ \E T : /\ Whole(got.h, T)
                /\ \/ b = NULL /\ Sane(got.h, got.cache, Callers, T)
                   \/ /\ b # NULL /\ b \notin Callers
                      /\ Sane(got.h, got.cache, Callers \cup {b}, T)
  BY <1>4, <1>5, HandlerMallocGrants
<1> HIDE DEF got
<1>7. CASE b = NULL
  BY <1>3, <1>7, StopStep
<1>8. CASE b # NULL
  <2>1. PICK T : Sane(got.h, got.cache, Callers \cup {b}, T) /\ Whole(got.h, T)
    BY <1>6, <1>8
  <2>2. b \notin Callers
    BY <1>6, <1>8
  <2>3. /\ h' = got.h /\ cache' = got.cache /\ serial' = serial \cup {b}
        /\ mallocToCache' = mallocToCache /\ UNCHANGED main
        /\ keyboard' = keyboard /\ panic' = panic /\ held' = held
    BY <1>3, <1>8 DEF main
  <2> HIDE DEF b
  <2>4. Control' /\ Freeing' = Freeing /\ Working(T)' /\ (Whole(h', T) => Pieces(T)')
    <3>1. Listed(h', T)
      BY <2>1, <2>3 DEF Sane
    <3> QED BY <1>2, <1>6, <2>3, <3>1, HandlerLeavesMain DEF Control
  <2>5. OneCaller' /\ Callers' = Callers \cup {b}
    BY <1>2, <2>2, <2>3, <2>4 DEF OneCaller, Callers
  <2>6. Sane(h', cache', Callers', T)
    BY <2>1, <2>3, <2>5
  <2>7. Pieces(T)'
    BY <2>1, <2>3, <2>4
  <2> QED BY <2>4, <2>5, <2>6, <2>7 DEF HInv
<1> QED BY <1>7, <1>8

LEMMA PacketFreedStep ==
    ASSUME HInv, NEW b \in serial, PacketFreed(b), ~overtaken'
    PROVE  HInv'
<1>1. PICK S : Sane(h, cache, Callers, S) /\ Whole(h, S)
  <2>1. PICK S : Sane(h, cache, Callers, S) /\ Pieces(S)
    BY DEF HInv
  <2>2. pc \notin {"mark", "forward", "backward"}
    BY AtInterrupt DEF PacketFreed
  <2> QED BY <2>1, <2>2, WholeElsewhere
<1>2. Control /\ OneCaller /\ ~mallocToCache /\ ~Overtakes
  BY AtInterrupt DEF HInv, PacketFreed
<1> DEFINE r == HandlerFree(h, cache, b)
<1>3. b \in Callers
  BY DEF Callers
<1>4. FreePanic(h, cache, b) = "none"
  BY <1>1, <1>2, <1>3, FreePanicNone
<1>5. /\ h' = r.h /\ cache' = r.cache /\ serial' = serial \ {b}
      /\ mallocToCache' = mallocToCache /\ UNCHANGED main
      /\ keyboard' = keyboard /\ panic' = panic /\ held' = held
  BY <1>4 DEF PacketFreed, main
<1>6. /\ \E T : Sane(r.h, r.cache, Callers \ {b}, T) /\ Whole(r.h, T)
      /\ \A i \in Slots : r.cache[i].addr = cache[i].addr
  <2>1. IsFreed(h, cache, Callers, S, b, r)
    BY <1>1, <1>2, <1>3, HandlerFreeFrees
  <2> HIDE DEF r
  <2> QED BY <1>1, <2>1 DEF IsFreed
<1> HIDE DEF r
<1>7. PICK T : Sane(r.h, r.cache, Callers \ {b}, T) /\ Whole(r.h, T)
  BY <1>6
<1>8. Filled(cache')
  BY <1>2, <1>5, <1>6 DEF Control, Filled
<1>9. Control' /\ Freeing' = Freeing /\ Working(T)' /\ (Whole(h', T) => Pieces(T)')
  <2>1. Listed(h', T)
    BY <1>5, <1>7 DEF Sane
  <2> QED BY <1>2, <1>5, <1>8, <2>1, HandlerLeavesMain DEF Control
<1>10. OneCaller' /\ Callers' = Callers \ {b}
  BY <1>2, <1>5, <1>9 DEF OneCaller, Callers
<1>11. Sane(h', cache', Callers', T)
  BY <1>5, <1>7, <1>10
<1>12. Pieces(T)'
  BY <1>5, <1>7, <1>9
<1> QED BY <1>9, <1>10, <1>11, <1>12 DEF HInv

(* Each step of malloc, of free and of the handlers, which come between any *)
(* two of them, keeps all of it unless it overtakes the main loop.          *)
THEOREM HInvNext ==
    ASSUME HInv, [Next]_vars, ~overtaken'
    PROVE  HInv'
<1>1. CASE UNCHANGED vars
  <2>1. /\ h' = h /\ cache' = cache /\ mallocToCache' = mallocToCache
        /\ pc' = pc /\ want' = want /\ current' = current /\ slot' = slot
        /\ held' = held /\ keyboard' = keyboard /\ serial' = serial
        /\ panic' = panic
    BY <1>1 DEF vars, main
  <2> QED BY <2>1 DEF HInv, Control, OneCaller, Filled, FreeSlots, Freeing,
      Callers, Working, Request, Pieces, Ahead, Behind, Uncounted
<1>2. CASE MainStep
  BY <1>2, QuietSteps, TakeEntryStep, ScanStep, SplitSegmentStep,
     MarkSegmentStep, ExpandStep, FreeStep, FreeForwardStep, FreeBackwardStep
     DEF MainStep
<1>3. CASE \E size \in Sizes : CallMalloc(size)
  BY <1>3, QuietSteps
<1>4. CASE \E block \in held : CallFree(block)
  BY <1>4, CallFreeStep
<1>5. CASE HandleKey
  BY <1>5, QuietSteps
<1>6. CASE Handler
  BY <1>6, KeyStoredStep, KeyStoredResizedStep, PacketAllocatedStep,
     PacketFreedStep DEF Handler
<1> QED BY <1>1, <1>2, <1>3, <1>4, <1>5, <1>6 DEF Next

(* The invariant gives that every block has one owner and a segment that is *)
(* not free.                                                                *)
LEMMA HInvOneOwner ==
    ASSUME HInv
    PROVE  NoDoubleGrant
<1>1. PICK S : Sane(h, cache, Callers, S)
  BY DEF HInv
<1>2. Control /\ OneCaller
  BY DEF HInv
<1> DEFINE F == FreeSlots(cache)
           B == held \cup serial \cup {keyboard.arr}
<1>3. \A i \in F : i \in Slots /\ cache[i].free /\ cache[i].addr # NULL
  BY <1>2 DEF Control, Filled, FreeSlots
<1>4. B \subseteq Callers
  BY DEF Callers
<1>5. \A i \in F : cache[i].addr \notin B /\ InUse(h, S, cache[i].addr)
  BY <1>1, <1>3, <1>4 DEF Sane
<1>6. Reserve \cap B = {}
  BY <1>5 DEF Reserve
<1>7. Cardinality(Reserve) = Cardinality(F)
  <2> DEFINE f == [i \in F |-> cache[i].addr]
  <2>1. IsFiniteSet(F)
    <3>1. IsFiniteSet(1 .. CacheCount)
      BY FS_Interval, SizesAssumption
    <3>2. F \subseteq 1 .. CacheCount
      BY DEF FreeSlots, Slots
    <3> QED BY <3>1, <3>2, FS_Subset
  <2>2. Reserve = {cache[i].addr : i \in F}
    BY DEF Reserve
  <2>3. \A i, j \in F : f[i] = f[j] => i = j
    BY <1>1, <1>3 DEF Sane
  <2> HIDE DEF F
  <2>4. f \in [F -> Reserve] /\ \A y \in Reserve : \E i \in F : f[i] = y
    BY <2>2
  <2> HIDE DEF f
  <2>5. f \in Surjection(F, Reserve) /\ f \in Injection(F, Reserve)
    BY <2>3, <2>4 DEF Surjection, Injection, IsInjective
  <2> QED BY <2>1, <2>5, FS_Surjection
<1>8. ToSet(Chain(h)) = S
  BY <1>1, ChainIsList DEF Sane
<1>9. \A b \in B \cup Reserve : InUse(h, S, b)
  BY <1>1, <1>4, <1>5 DEF Reserve, Sane
<1>10. \A b \in B \cup Reserve : /\ HeaderOf(b) \in ToSet(Chain(h))
                                 /\ ~h.seg[HeaderOf(b)].free
  BY <1>8, <1>9 DEF InUse
<1> QED BY <1>2, <1>6, <1>7, <1>10 DEF NoDoubleGrant, OneCaller

-----------------------------------------------------------------------------
(* The bounds of what the invariant does not speak of.                      *)
Bounded ==
    /\ want \in Sizes \cup {0} /\ slot \in 0 .. (CacheCount + 1)
    /\ current \in 0 .. MaxLen
    /\ keyboard.cap \in 1 .. MaxKeys /\ keyboard.count \in 0 .. keyboard.cap

(* The main loop keeps to a size, an entry and a header.                    *)
LEMMA MainBounded ==
    ASSUME HInv, Bounded, [Next]_vars
    PROVE  /\ want' \in Sizes \cup {0} /\ slot' \in 0 .. (CacheCount + 1)
           /\ current' \in 0 .. MaxLen
<1>1. PICK S : Sane(h, cache, Callers, S) /\ Working(S)
  BY DEF HInv
<1>2. Control /\ Bounded /\ CacheCount \in Nat
  BY SizesAssumption DEF HInv
<1>3. Listed(h, S)
  BY <1>1 DEF Sane
<1>4. HeapStart \in 0 .. MaxLen /\ NULL \in 0 .. MaxLen
  BY HeapAssumption DEF HeapStart, NULL
<1>5. current \in S => h.seg[current].next \in 0 .. MaxLen
  BY <1>3, SegmentFacts DEF Headers
<1>6. want \in Sizes \cup {0} /\ slot \in 0 .. (CacheCount + 1) /\ current \in 0 .. MaxLen
  BY <1>2 DEF Bounded
<1>7. /\ 0 \in 0 .. (CacheCount + 1) /\ 1 \in 0 .. (CacheCount + 1)
      /\ \A i \in Slots : i \in 0 .. (CacheCount + 1) /\ i + 1 \in 0 .. (CacheCount + 1)
  BY <1>2 DEF Slots
<1>8. CASE UNCHANGED vars
  BY <1>6, <1>8 DEF vars, main
<1>9. CASE Handler
  BY <1>6, <1>9 DEF Handler, KeyStored, KeyStoredResized, PacketAllocated,
     PacketFreed, Stop, main
<1>10. CASE HandleKey \/ UpdateLater \/ OutOfMemory \/ FreeForward
  BY <1>6, <1>10 DEF HandleKey, UpdateLater, OutOfMemory, FreeForward, Stop, main
<1>11. CASE (\E size \in Sizes : CallMalloc(size)) \/ UpdateNow \/ RefreshEntry
            \/ RefreshDone \/ TakeEntry
  BY <1>4, <1>6, <1>7, <1>11 DEF CallMalloc, UpdateNow, RefreshEntry, RefreshDone,
     TakeEntry
<1>12. CASE RefreshNext
  <2>1. slot \in 1 .. (CacheCount + 1) /\ slot <= CacheCount /\ slot' = slot + 1
    BY <1>2, <1>12 DEF RefreshNext, At, Control
  <2>2. slot' \in 0 .. (CacheCount + 1)
    BY <1>2, <2>1
  <2> QED BY <1>6, <1>12, <2>2 DEF RefreshNext
<1>13. CASE Lookup
  <2>1. FreeSlots(cache) # {} => Min(FreeSlots(cache)) \in Slots
    <3>1. FreeSlots(cache) \subseteq Nat /\ FreeSlots(cache) \subseteq Slots
      BY DEF FreeSlots, Slots
    <3> QED BY <3>1, MinIsLeast
  <2> QED BY <1>4, <1>6, <1>7, <1>13, <2>1 DEF Lookup
<1>14. CASE Scan \/ SplitSegment
  <2>1. current \in S
    BY <1>1, <1>14 DEF Scan, SplitSegment, At, Working
  <2> QED BY <1>5, <1>6, <1>14, <2>1 DEF Scan, SplitSegment, Stop, main
<1>15. CASE MarkSegment
  <2>1. mallocToCache => slot \in Slots
    BY <1>2, <1>15 DEF MarkSegment, At, Control
  <2> QED BY <1>4, <1>6, <1>7, <1>15, <2>1 DEF MarkSegment
<1>16. CASE Expand \/ Free \/ FreeBackward
  BY <1>4, <1>6, <1>16 DEF Expand, Free, FreeBackward, Stop, main
<1>17. CASE \E b \in held : CallFree(b)
  <2>1. PICK b \in held : CallFree(b)
    BY <1>17
  <2>2. HeaderOf(b) \in S
    BY <1>1, <2>1 DEF Callers, Sane, InUse
  <2>3. HeaderOf(b) \in 0 .. MaxLen
    BY <1>3, <2>2, SegmentFacts
  <2> QED BY <1>6, <2>1, <2>3 DEF CallFree
<1> QED BY <1>8, <1>9, <1>10, <1>11, <1>12, <1>13, <1>14, <1>15, <1>16, <1>17
    DEF Next, MainStep

(* The queue of the keyboard is never larger, nor fuller, than it may be.   *)
LEMMA KeyboardBounded ==
    ASSUME HInv, Bounded, [Next]_vars
    PROVE  keyboard'.cap \in 1 .. MaxKeys /\ keyboard'.count \in 0 .. keyboard'.cap
<1>1. /\ keyboard \in [arr : Int, cap : Nat \ {0}, count : Int]
      /\ keyboard.cap \in 1 .. MaxKeys /\ keyboard.count \in 0 .. keyboard.cap
      /\ MaxKeys \in Nat
  BY HeapCallersAssumption DEF HInv, Control, Bounded
<1>2. CASE keyboard' = keyboard
  BY <1>1, <1>2
<1>3. CASE HandleKey
  <2>1. keyboard' = [keyboard EXCEPT !.count = @ - 1] /\ keyboard.count > 0
    BY <1>3 DEF HandleKey
  <2>2. keyboard'.cap = keyboard.cap /\ keyboard'.count = keyboard.count - 1
    BY <1>1, <2>1
  <2> QED BY <1>1, <2>1, <2>2
<1>4. CASE KeyStored
  <2>1. keyboard' = [keyboard EXCEPT !.count = @ + 1] /\ keyboard.count < keyboard.cap
    BY <1>4 DEF KeyStored
  <2>2. keyboard'.cap = keyboard.cap /\ keyboard'.count = keyboard.count + 1
    BY <1>1, <2>1
  <2> QED BY <1>1, <2>1, <2>2
<1>5. CASE \E aged \in Aged : KeyStoredResized(aged)
  <2>1. /\ keyboard.count = keyboard.cap /\ 2 * keyboard.cap <= MaxKeys
        /\ \/ keyboard' = keyboard
           \/ /\ keyboard'.cap = 2 * keyboard.cap
              /\ keyboard'.count = keyboard.count + 1
    <3>1. PICK aged \in Aged : KeyStoredResized(aged)
      BY <1>5
    <3> DEFINE start == Refreshed(aged)
               got == HandlerMalloc(start.h, start.cache, 2 * keyboard.cap)
               why == FreePanic(got.h, got.cache, keyboard.arr)
    <3>2. /\ keyboard.count = keyboard.cap /\ 2 * keyboard.cap <= MaxKeys
          /\ \/ \E message : Stop(message)
             \/ keyboard' = [arr |-> got.block, cap |-> 2 * keyboard.cap,
                             count |-> keyboard.count + 1]
      BY <3>1 DEF KeyStoredResized
    <3> HIDE DEF got
    <3> QED BY <3>2 DEF Stop
  <2> QED BY <1>1, <1>2, <2>1
<1>6. CASE \/ \E aged \in Aged, size \in Sizes : PacketAllocated(size, aged)
           \/ \E b \in serial : PacketFreed(b)
  BY <1>2, <1>6 DEF PacketAllocated, PacketFreed, Stop
<1>7. CASE MainStep
  BY <1>2, <1>7 DEF MainStep, UpdateLater, UpdateNow, RefreshNext, RefreshEntry,
     RefreshDone, Lookup, TakeEntry, Scan, SplitSegment, MarkSegment, Expand,
     OutOfMemory, Free, FreeForward, FreeBackward, Stop
<1>8. CASE \/ \E size \in Sizes : CallMalloc(size)
           \/ \E b \in held : CallFree(b)
  BY <1>2, <1>8 DEF CallMalloc, CallFree
<1>9. CASE UNCHANGED vars
  BY <1>2, <1>9 DEF vars
<1> QED BY <1>3, <1>4, <1>5, <1>6, <1>7, <1>8, <1>9 DEF Next, Handler

(* Both at the start, and after every step.                                 *)
LEMMA BoundedInit == Init => Bounded
<1> SUFFICES ASSUME Init PROVE Bounded
  OBVIOUS
<1>1. want = 0 /\ slot = 0 /\ current = NULL /\ keyboard.cap = 1 /\ keyboard.count = 0
  BY DEF Init
<1> QED BY <1>1, HeapAssumption, HeapCallersAssumption DEF Bounded, NULL

LEMMA BoundedNext ==
    ASSUME HInv, Bounded, [Next]_vars
    PROVE  Bounded'
  BY MainBounded, KeyboardBounded DEF Bounded

(* The list of segments is what HeapCheck asks for.                         *)
LEMMA ListedLinked ==
    ASSUME NEW g, NEW S, Listed(g, S)
    PROVE  Linked(g)
<1> DEFINE c == Chain(g)
<1>1. /\ WalkIn(g, S, c) /\ c[Len(c)] = g.lastHdr
  BY ChainEnds
<1> HIDE DEF c
<1>2. c \in Seq(S) /\ Len(c) \in Nat \ {0} /\ DOMAIN c = 1 .. Len(c)
  BY <1>1 DEF WalkIn
<1>3. \A i \in 1 .. Len(c) : c[i] \in S
  BY <1>2, ElementOfSeq
<1>4. \A i \in 1 .. (Len(c) - 1) : /\ c[i + 1] = EndOf(g, c[i])
                                   /\ c[i] # g.lastHdr
                                   /\ g.seg[c[i + 1]].last = c[i]
  <2> SUFFICES ASSUME NEW i \in 1 .. (Len(c) - 1)
               PROVE  /\ c[i + 1] = EndOf(g, c[i]) /\ c[i] # g.lastHdr
                      /\ g.seg[c[i + 1]].last = c[i]
    OBVIOUS
  <2>1. i \in 1 .. Len(c) /\ i + 1 \in 1 .. Len(c)
    BY <1>2
  <2>2. c[i] \in S /\ c[i + 1] \in S /\ g.seg[c[i]].next = c[i + 1]
    BY <1>1, <1>3, <2>1 DEF WalkIn
  <2>3. c[i + 1] # NULL
    BY <2>2, SegmentFacts DEF NULL
  <2>4. c[i] # g.lastHdr
    BY <2>2, <2>3 DEF Listed
  <2> QED BY <2>2, <2>4 DEF Listed
<1>5. ASSUME NEW i \in 1 .. Len(c)
      PROVE  /\ g.seg[c[i]].magic
             /\ g.seg[c[i]].last = IF i = 1 THEN NULL ELSE c[i - 1]
             /\ c[i] + HeaderLen + g.seg[c[i]].length =
                   IF i = Len(c) THEN g.heapEnd ELSE c[i + 1]
  <2>1. c[i] \in S /\ g.seg[c[i]].magic
    BY <1>3 DEF Listed
  <2>3. g.seg[c[i]].last = IF i = 1 THEN NULL ELSE c[i - 1]
    <3>1. ASSUME i # 1 PROVE g.seg[c[i]].last = c[i - 1]
      <4>1. i - 1 \in 1 .. (Len(c) - 1) /\ (i - 1) + 1 = i
        BY <1>2, <3>1
      <4> QED BY <1>4, <4>1
    <3>2. i = 1 => g.seg[c[i]].last = NULL
      BY <1>1 DEF WalkIn, Listed
    <3> QED BY <3>1, <3>2
  <2>4. EndOf(g, c[i]) = IF i = Len(c) THEN g.heapEnd ELSE c[i + 1]
    <3>1. i = Len(c) => EndOf(g, c[i]) = g.heapEnd
      BY <1>1 DEF Listed
    <3>2. i # Len(c) => i \in 1 .. (Len(c) - 1)
      <4> DEFINE n == Len(c)
      <4>1. n \in Nat /\ i \in 1 .. n
        BY <1>2
      <4> HIDE DEF n
      <4>2. i # n => i \in 1 .. (n - 1)
        BY <4>1
      <4> QED BY <4>2 DEF n
    <3> QED BY <1>4, <3>1, <3>2
  <2>5. EndOf(g, c[i]) = c[i] + HeaderLen + g.seg[c[i]].length
    BY DEF EndOf
  <2> QED BY <2>1, <2>3, <2>4, <2>5
<1> QED BY <1>1, <1>2, <1>5 DEF Linked, c

(* No two neighbours of the walk are free where all are merged.             *)
LEMMA MergedChain ==
    ASSUME NEW g, NEW S, Listed(g, S), Merged(g, S)
    PROVE  \A i \in 1 .. (Len(Chain(g)) - 1) :
               ~(g.seg[Chain(g)[i]].free /\ g.seg[Chain(g)[i + 1]].free)
<1> DEFINE c == Chain(g)
<1>1. WalkIn(g, S, c)
  BY ChainEnds
<1> HIDE DEF c
<1> SUFFICES ASSUME NEW i \in 1 .. (Len(c) - 1)
             PROVE  ~(g.seg[c[i]].free /\ g.seg[c[i + 1]].free)
  BY DEF c
<1>2. c \in Seq(S) /\ i \in 1 .. Len(c) /\ i + 1 \in 1 .. Len(c)
  BY <1>1 DEF WalkIn
<1>3. c[i] \in S /\ c[i + 1] \in S /\ g.seg[c[i]].next = c[i + 1]
  BY <1>1, <1>2, ElementOfSeq DEF WalkIn
<1>4. c[i + 1] # NULL
  BY <1>3, SegmentFacts DEF NULL
<1>5. c[i] # g.lastHdr /\ c[i + 1] = EndOf(g, c[i])
  BY <1>3, <1>4 DEF Listed
<1> QED BY <1>3, <1>5 DEF Merged, MergedBut

LEMMA HInvTypes ==
    ASSUME HInv, Bounded
    PROVE  TypeOK
<1>1. PICK S : Sane(h, cache, Callers, S)
  BY DEF HInv
<1>2. Control /\ Listed(h, S) /\ MaxLen \in Nat
  BY <1>1, HeapAssumption DEF HInv, Sane
<1>3. \A b \in Callers : b \in Blocks
  BY <1>1, InUseBlock DEF Sane
<1>4. cache \in [Slots -> [addr : Blocks, free : BOOLEAN]]
  <2>1. \A i \in Slots : cache[i].addr \in Blocks
    BY <1>1, <1>2, InUseBlock DEF Sane, Control, Filled
  <2> QED BY <1>1, <2>1 DEF Sane
<1>5. held \subseteq Blocks /\ serial \subseteq Blocks /\ keyboard.arr \in Blocks
  BY <1>3 DEF Callers
<1>6. keyboard \in [arr : Blocks, cap : 1 .. MaxKeys, count : 0 .. MaxKeys]
  <2>1. /\ keyboard \in [arr : Int, cap : Nat \ {0}, count : Int]
        /\ keyboard.cap \in 1 .. MaxKeys /\ keyboard.count \in 0 .. keyboard.cap
    BY <1>2 DEF Control, Bounded
  <2>2. keyboard.count \in 0 .. MaxKeys
    BY <2>1, HeapCallersAssumption
  <2> QED BY <1>5, <2>1, <2>2
<1>7. /\ h.seg \in [Addresses -> Headers] /\ h.lastHdr \in Addresses
      /\ h.heapEnd \in HeapStart .. (MaxLen + 1)
  <2>1. h.heapEnd \in Int /\ h.heapEnd <= MaxLen + 1
    BY <1>2, SegmentFacts DEF Listed
  <2>2. h.lastHdr \in S /\ h.lastHdr \in Nat /\ h.lastHdr >= 1
        /\ h.heapEnd > h.lastHdr
    BY <1>2, SegmentFacts DEF Listed
  <2>3. h.heapEnd \in HeapStart .. (MaxLen + 1)
    BY <1>2, <2>1, <2>2 DEF HeapStart
  <2> QED BY <1>2, <2>2, <2>3, SegmentFacts
<1>8. current \in Addresses \cup {NULL}
  BY <1>2 DEF Bounded, Addresses, HeapStart, NULL
<1> QED BY <1>2, <1>4, <1>5, <1>6, <1>7, <1>8 DEF TypeOK, Headers, Control, Bounded

LEMMA HInvLinked ==
    ASSUME HInv, Bounded
    PROVE  HeapLinked
<1>1. PICK S : Listed(h, S) /\ Pieces(S)
  BY DEF HInv, Sane
<1>2. pc = "idle" => Merged(h, S)
  BY <1>1, WholeElsewhere DEF Whole
<1> QED BY <1>1, <1>2, HInvTypes, ListedLinked, MergedChain DEF HeapLinked

(* The counters are those of the list but for the one block that free has   *)
(* not counted yet, and the sum is a number of blocks: none goes below zero.*)
LEMMA HInvCounted ==
    ASSUME HInv
    PROVE  CountersAgree
<1>1. PICK S : Listed(h, S) /\ Pieces(S)
  BY DEF HInv, Sane
<1> DEFINE U == UsedOf(h, S)
<1>2. /\ h.heapCount = Cardinality(S)
      /\ h.usedHeapCount = Cardinality(U) + Uncounted
      /\ h.usedHeapAmount = Cardinality(Cells(h, U))
      /\ pc = "idle" => Uncounted = 0
  BY <1>1 DEF Pieces, Counted, Uncounted
<1>3. h \in Heaps /\ S \in SUBSET Addresses /\ U \in SUBSET Addresses
  BY <1>1 DEF Listed, UsedOf
<1>4. ToSet(Chain(h)) = S
  BY <1>1, ChainIsList
<1>5. {a \in S : ~h.seg[a].free} = U
  BY DEF UsedOf
<1> HIDE DEF U
<1>6. /\ Cardinality(S) \in Nat /\ Cardinality(U) \in Nat
      /\ Cardinality(Cells(h, U)) \in Nat /\ Uncounted \in Nat
  BY <1>3, CellsFinite DEF Uncounted
<1>7. MapThenSumSet(LAMBDA a : h.seg[a].length, U) = Cardinality(Cells(h, U))
  BY <1>3, AmountIsCells DEF Amount
<1>8. h.heapCount \in Nat /\ h.usedHeapCount \in Nat /\ h.usedHeapAmount \in Nat
  BY <1>2, <1>6
<1>9. pc = "idle" => h.usedHeapCount = Cardinality(U)
  BY <1>2, <1>6
<1> QED BY <1>2, <1>4, <1>5, <1>7, <1>8, <1>9 DEF CountersAgree

-----------------------------------------------------------------------------
(* A handler that has overtaken the main loop stays so: nothing takes the   *)
(* history back.                                                            *)
LEMMA StaysOvertaken ==
    ASSUME overtaken, [Next]_vars
    PROVE  overtaken'
<1>1. CASE UNCHANGED vars
  BY <1>1 DEF vars
<1>2. CASE MainStep
  BY <1>2 DEF MainStep, UpdateLater, UpdateNow, RefreshNext, RefreshEntry,
     RefreshDone, Lookup, TakeEntry, Scan, SplitSegment, MarkSegment, Expand,
     OutOfMemory, Free, FreeForward, FreeBackward
<1>3. CASE ~MainStep /\ Next
  BY <1>3 DEF Next, CallMalloc, CallFree, HandleKey, Handler, KeyStored,
     KeyStoredResized, PacketAllocated, PacketFreed, Interrupted
<1> QED BY <1>1, <1>2, <1>3

(* The invariant, with its bounds, until a handler overtakes.               *)
Kept == overtaken \/ (HInv /\ Bounded)

LEMMA KeptInit == Init => Kept
  BY HInvInit, BoundedInit DEF Kept

LEMMA KeptNext ==
    ASSUME Kept, [Next]_vars
    PROVE  Kept'
<1>1. CASE overtaken
  BY <1>1, StaysOvertaken DEF Kept
<1>2. CASE HInv /\ Bounded
  BY <1>2, HInvNext, BoundedNext DEF Kept
<1> QED BY <1>1, <1>2 DEF Kept

(* Wherever interrupts come, every block in use or in reserve has one owner *)
(* and a segment of its own that malloc cannot give again, until a handler  *)
(* overtakes malloc or free, whatever the sizes, the cache and the memory.  *)
THEOREM OneOwner == Spec => []NoDoubleGrant
<1>1. Kept => NoDoubleGrant
  BY HInvOneOwner DEF Kept, NoDoubleGrant
<1> QED BY <1>1, KeptInit, KeptNext, PTL DEF Spec

(* Until then no panic of the heap can come but the one for memory that is  *)
(* used up: free never meets a block or an entry of the cache that is free  *)
(* already, and malloc no header that is not one.                           *)
THEOREM OnlyForMemory == Spec => []OnlyMemoryPanics
<1>1. Kept => OnlyMemoryPanics
  BY DEF Kept, HInv, Control, OnlyMemoryPanics
<1> QED BY <1>1, KeptInit, KeptNext, PTL DEF Spec

(* Until then, too, the list of segments is linked, in both directions and  *)
(* without gaps, at every step of malloc and free, and between calls no two *)
(* free neighbours remain unmerged.                                         *)
THEOREM AlwaysLinked == Spec => []HeapLinked
<1>1. Kept => HeapLinked
  BY HInvLinked DEF Kept, HeapLinked
<1> QED BY <1>1, KeptInit, KeptNext, PTL DEF Spec

(* And until then the counters that the memory display shows never wrap,    *)
(* and between calls they are those of the list.                            *)
THEOREM CountersAlwaysAgree == Spec => []CountersAgree
<1>1. Kept => CountersAgree
  BY HInvCounted DEF Kept, CountersAgree
<1> QED BY <1>1, KeptInit, KeptNext, PTL DEF Spec

-----------------------------------------------------------------------------
(* The pages.  The inductive invariant: the checked invariants, and what is *)
(* true before ReadEFIMemoryMap has run.                                                *)
BeforeBoot ==
    ~Initialized => /\ bitmap = {}
                    /\ \A p \in Pages : holders[p] = 0
                    /\ failedCount = 0

IInv ==
    /\ PagesTyped
    /\ BeforeBoot
    /\ Owned
    /\ OneHolder
    /\ PageCountersAgree
    /\ PanicOnlyWhenFull

LEMMA SizesType ==
    /\ BitmapSize \in Nat \ {0}
    /\ NumBits \in Nat \ {0}
    /\ NumBits >= MemPages
    /\ IsFiniteSet(Pages)
    /\ IsFiniteSet(ReservedSet)
    /\ IsFiniteSet(BufferSet)
<1>1. BitmapSize \in Nat \ {0} /\ NumBits \in Nat \ {0} /\ NumBits >= MemPages
  BY AllocatorAssumption, SMT DEF BitmapSize, NumBits
<1>2. IsFiniteSet(Pages)
  BY <1>1, FS_Interval DEF Pages
<1>3. ReservedSet \in SUBSET (Pages) /\ BufferSet \in SUBSET (Pages)
  BY AllocatorAssumption DEF BootSet
<1>4. QED
  BY <1>1, <1>2, <1>3, FS_Subset

(* What boot took is counted once where the reserved pages and the bitmap   *)
(* overlap.                                                                 *)
LEMMA BootCardinality ==
    Cardinality(BootSet) = Cardinality(ReservedSet) + Cardinality(BufferSet \ ReservedSet)
<1>1. IsFiniteSet(BufferSet \ ReservedSet)
  BY SizesType, FS_Difference
<1>2. BootSet = ReservedSet \cup (BufferSet \ ReservedSet)
  BY DEF BootSet
<1>3. ReservedSet \cap (BufferSet \ ReservedSet) = {}
  OBVIOUS
<1>4. Cardinality(BootSet) = Cardinality(ReservedSet) + Cardinality(BufferSet \ ReservedSet)
                             - Cardinality(ReservedSet \cap (BufferSet \ ReservedSet))
  BY <1>1, <1>2, SizesType, FS_Union
<1>5. Cardinality(ReservedSet) \in Nat /\ Cardinality(BufferSet \ ReservedSet) \in Nat
  BY <1>1, SizesType, FS_CardinalityType
<1>6. Cardinality(ReservedSet \cap (BufferSet \ ReservedSet)) = 0
  BY <1>3, FS_EmptySet
<1>7. QED
  BY <1>4, <1>5, <1>6

(* A run of clear bits that the scan returns: locking it locks all of it.   *)
LEMMA CandidateRun ==
    ASSUME PagesTyped, NEW count \in 1 .. MaxCount, NEW s \in Candidates(count)
    PROVE  /\ s \in 0 .. (NumBits - count)
           /\ Run(s, count) \subseteq Pages
           /\ Run(s, count) \cap bitmap = {}
           /\ {p \in Run(s, count) : Addressable(p)} \ bitmap = Run(s, count)
           /\ IsFiniteSet(Run(s, count))
           /\ Cardinality(Run(s, count)) = count
<1>1. count \in Nat \ {0}
  BY AllocatorAssumption
<1>2. NumBits \in Nat /\ pageBitmapIndex \in 0 .. NumBits
  BY SizesType DEF PagesTyped
<1>3. s \in 0 .. (NumBits - count) /\ Run(s, count) \cap bitmap = {}
  BY <1>1, <1>2 DEF Candidates, FreeRuns
<1>4. Run(s, count) \subseteq Pages
  BY <1>1, <1>2, <1>3 DEF Run, Pages
<1>5. {p \in Run(s, count) : Addressable(p)} = Run(s, count)
  BY <1>1, <1>2, <1>4 DEF Addressable, Pages
<1>6. IsFiniteSet(Run(s, count)) /\ Cardinality(Run(s, count)) = count
  BY <1>1, <1>2, <1>3, FS_Interval DEF Run
<1>7. QED
  BY <1>3, <1>4, <1>5, <1>6

(* Owned and OneHolder together: what a grant or a free does to         *)
(* the pages held.                                                          *)
LEMMA HeldAfterRequest ==
    ASSUME PagesTyped, Owned, OneHolder, Initialized,
           NEW R, R \subseteq Pages, R \cap bitmap = {},
           bitmap' = bitmap \cup R,
           Initialized' = Initialized,
           holders' = [p \in Pages |-> IF p \in R THEN holders[p] + 1 ELSE holders[p]]
    PROVE  holders' \in [Pages -> Nat] /\ Owned' /\ OneHolder'
<1>1. holders \in [Pages -> Nat]
  BY DEF PagesTyped
<1>2. bitmap = BootSet \cup Held /\ BootSet \cap Held = {}
  BY DEF Owned
<1>3. \A p \in R : p \in Pages /\ holders[p] = 0
  BY <1>1, <1>2 DEF Held
<1>4. \A p \in Pages : holders'[p] = IF p \in R THEN 1 ELSE holders[p]
  BY <1>1, <1>3
<1>5. holders' \in [Pages -> Nat]
  BY <1>1
<1>6. OneHolder'
  BY <1>1, <1>4 DEF OneHolder
<1>7. Held' = Held \cup R
  BY <1>1, <1>3, <1>4 DEF Held
<1>8. Owned'
  BY <1>2, <1>7 DEF Owned
<1>9. QED
  BY <1>5, <1>6, <1>8

LEMMA InitIInv == PagesInit => IInv
<1> SUFFICES ASSUME PagesInit PROVE IInv
  OBVIOUS
<1>1. PagesTyped
  <2>1. 0 \in 0 .. NumBits /\ 0 \in 0 .. MaxCount /\ 0 \in Int
    BY SizesType, AllocatorAssumption
  <2>2. holders \in [Pages -> Nat] /\ bitmap \subseteq Pages
    BY DEF PagesInit
  <2>3. Initialized \in BOOLEAN
    BY DEF PagesInit
  <2>4. QED
    BY <2>1, <2>2, <2>3 DEF PagesInit, PagesTyped
<1>2. BeforeBoot /\ OneHolder
  BY DEF PagesInit, BeforeBoot, OneHolder
<1>3. Owned /\ PageCountersAgree /\ PanicOnlyWhenFull
  BY DEF PagesInit, Owned, PageCountersAgree, PanicOnlyWhenFull
<1>4. QED
  BY <1>1, <1>2, <1>3 DEF IInv

LEMMA BootStep ==
    ASSUME IInv, ReadEFIMemoryMap
    PROVE  IInv'
<1>1. Cardinality(ReservedSet) \in Nat /\ Cardinality(BufferSet \ ReservedSet) \in Nat
  BY SizesType, FS_Difference, FS_CardinalityType
<1>2. (\A p \in Pages : holders[p] = 0) /\ failedCount = 0
  BY DEF IInv, BeforeBoot, ReadEFIMemoryMap
<1>3. UNCHANGED <<holders, failedCount>> /\ bitmap' = BootSet /\ Initialized'
  BY DEF ReadEFIMemoryMap
<1>4. PagesTyped'
  <2>1. holders' \in [Pages -> Nat] /\ bitmap' \subseteq Pages
    BY <1>3, AllocatorAssumption DEF IInv, PagesTyped
  <2>2. 0 \in 0 .. NumBits /\ failedCount' \in 0 .. MaxCount
    BY <1>3, SizesType DEF IInv, PagesTyped
  <2>3. freeMemory' \in Int /\ usedMemory' \in Int /\ reservedMemory' \in Int
    BY <1>1, AllocatorAssumption DEF ReadEFIMemoryMap
  <2>4. Initialized' \in BOOLEAN /\ pageBitmapIndex' = 0
    BY DEF ReadEFIMemoryMap
  <2>5. QED
    BY <2>1, <2>2, <2>3, <2>4 DEF PagesTyped
<1>5. Held' = {}
  BY <1>2, <1>3 DEF Held
<1>6. BeforeBoot' /\ Owned' /\ PanicOnlyWhenFull'
  BY <1>2, <1>3, <1>5 DEF BeforeBoot, Owned, PanicOnlyWhenFull
<1>7. OneHolder'
  BY <1>3 DEF IInv, OneHolder
<1>8. PageCountersAgree'
  BY <1>1, BootCardinality, AllocatorAssumption DEF PageCountersAgree, ReadEFIMemoryMap
<1>9. QED
  BY <1>4, <1>6, <1>7, <1>8 DEF IInv

LEMMA RequestStep ==
    ASSUME IInv, NEW count \in 1 .. MaxCount, RequestPages(count)
    PROVE  IInv'
<1> DEFINE C == Candidates(count)
<1>1. PICK s \in C :
         /\ LockPages(Run(s, count))
         /\ holders' = [p \in Pages |->
                           IF p \in Run(s, count) THEN holders[p] + 1 ELSE holders[p]]
         /\ pageBitmapIndex' = s + count - 1
  BY DEF RequestPages
<1>2. PagesTyped /\ Initialized /\ failedCount = 0 /\ Owned /\ OneHolder
  BY DEF IInv, RequestPages, Booted
<1>3. UNCHANGED <<Initialized, reservedMemory, failedCount>>
  BY DEF RequestPages
<1>4. /\ s \in 0 .. (NumBits - count)
      /\ Run(s, count) \subseteq Pages
      /\ Run(s, count) \cap bitmap = {}
      /\ {p \in Run(s, count) : Addressable(p)} \ bitmap = Run(s, count)
      /\ IsFiniteSet(Run(s, count))
      /\ Cardinality(Run(s, count)) = count
  BY <1>2, CandidateRun
<1>5. /\ bitmap' = bitmap \cup Run(s, count)
      /\ freeMemory' = freeMemory - count
      /\ usedMemory' = usedMemory + count
  BY <1>1, <1>4 DEF LockPages
<1>6. count \in Nat \ {0} /\ NumBits \in Nat
  BY SizesType, AllocatorAssumption
<1>7. Cardinality(bitmap) \in Nat /\ Cardinality(bitmap') = Cardinality(bitmap) + count
  <2>1. IsFiniteSet(bitmap) /\ Cardinality(bitmap) \in Nat
    BY <1>2, SizesType, FS_Subset, FS_CardinalityType DEF PagesTyped
  <2>2. Cardinality(bitmap \cup Run(s, count))
          = Cardinality(bitmap) + count - Cardinality(bitmap \cap Run(s, count))
    BY <2>1, <1>4, FS_Union
  <2>3. Cardinality(bitmap \cap Run(s, count)) = 0
    BY <1>4, FS_EmptySet
  <2>4. QED
    BY <1>5, <1>6, <2>1, <2>2, <2>3
<1>8. holders' \in [Pages -> Nat] /\ Owned' /\ OneHolder'
  BY <1>1, <1>2, <1>3, <1>4, <1>5, HeldAfterRequest
<1>9. PagesTyped'
  <2>1. pageBitmapIndex' \in 0 .. NumBits
    BY <1>1, <1>4, <1>6
  <2>2. bitmap' \subseteq Pages
    BY <1>2, <1>4, <1>5 DEF PagesTyped
  <2>3. freeMemory' \in Int /\ usedMemory' \in Int
    BY <1>2, <1>5, <1>6 DEF PagesTyped
  <2>4. QED
    BY <1>2, <1>3, <1>8, <2>1, <2>2, <2>3 DEF PagesTyped
<1>10. BeforeBoot' /\ PanicOnlyWhenFull'
  BY <1>2, <1>3 DEF BeforeBoot, PanicOnlyWhenFull
<1>11. PageCountersAgree'
  <2>1. Cardinality(ReservedSet) \in Nat
    BY SizesType, FS_CardinalityType
  <2>2. QED
    BY <1>2, <1>3, <1>5, <1>6, <1>7, <2>1, AllocatorAssumption DEF IInv, PageCountersAgree
<1>12. QED
  BY <1>8, <1>9, <1>10, <1>11 DEF IInv

LEMMA RequestFailStep ==
    ASSUME IInv, NEW count \in 1 .. MaxCount, RequestPagesFail(count)
    PROVE  IInv'
<1>1. /\ Initialized /\ failedCount' = count /\ pageBitmapIndex' = NumBits
      /\ UNCHANGED <<Initialized, bitmap, freeMemory, usedMemory, reservedMemory, holders>>
  BY DEF RequestPagesFail, Booted, counters
<1>2. FreeRuns(0, count) = {}
  BY DEF RequestPagesFail, Candidates
<1>3. FreeRuns(0, count)' = {}
  BY <1>1, <1>2 DEF FreeRuns
<1>4. PanicOnlyWhenFull'
  BY <1>1, <1>3 DEF PanicOnlyWhenFull
<1>5. PagesTyped'
  <2>1. NumBits \in 0 .. NumBits /\ count \in 0 .. MaxCount
    BY SizesType, AllocatorAssumption
  <2>2. QED
    BY <1>1, <2>1 DEF IInv, PagesTyped
<1>6. Held' = Held
  BY <1>1 DEF Held
<1>7. BeforeBoot' /\ Owned' /\ PageCountersAgree' /\ OneHolder'
  BY <1>1, <1>6 DEF IInv, BeforeBoot, Owned, PageCountersAgree, OneHolder
<1>8. QED
  BY <1>4, <1>5, <1>7 DEF IInv

LEMMA FreePageStep ==
    ASSUME IInv, NEW p \in Held, FreePage(p)
    PROVE  IInv'
<1>1. PagesTyped /\ Initialized /\ failedCount = 0 /\ p \in bitmap /\ Owned /\ OneHolder
  BY DEF IInv, FreePage, Booted
<1>2. UNCHANGED <<Initialized, reservedMemory, failedCount>> /\ bitmap' = bitmap \ {p}
  BY DEF FreePage
<1>3. NumBits \in Nat /\ p \in 0 .. (NumBits - 1)
  BY <1>1, SizesType DEF PagesTyped, Pages
<1>4. IsFiniteSet(bitmap) /\ Cardinality(bitmap) \in Nat /\ Cardinality(ReservedSet) \in Nat
  BY <1>1, SizesType, FS_Subset, FS_CardinalityType DEF PagesTyped
<1>5. Cardinality(bitmap') = Cardinality(bitmap) - 1
  BY <1>1, <1>2, <1>4, FS_RemoveElement
<1>6. holders \in [Pages -> Nat] /\ p \in Pages /\ holders[p] = 1
  BY <1>1 DEF PagesTyped, Held, OneHolder
<1>7. /\ holders' \in [Pages -> Nat]
      /\ \A q \in Pages : holders'[q] = IF q = p THEN 0 ELSE holders[q]
  BY <1>6 DEF FreePage
<1>8. PagesTyped'
  <2>1. pageBitmapIndex' \in 0 .. NumBits
    BY <1>1, <1>3 DEF PagesTyped, FreePage
  <2>2. freeMemory' \in Int /\ usedMemory' \in Int
    BY <1>1 DEF PagesTyped, FreePage
  <2>3. QED
    BY <1>1, <1>2, <1>7, <2>1, <2>2 DEF PagesTyped
<1>9. BeforeBoot' /\ PanicOnlyWhenFull'
  BY <1>1, <1>2 DEF BeforeBoot, PanicOnlyWhenFull
<1>10. Held' = Held \ {p}
  BY <1>6, <1>7 DEF Held
<1>11. Owned'
  BY <1>1, <1>2, <1>10 DEF Owned
<1>12. OneHolder'
  BY <1>1, <1>6, <1>7 DEF OneHolder
<1>13. PageCountersAgree'
  BY <1>1, <1>2, <1>4, <1>5, AllocatorAssumption DEF IInv, PageCountersAgree, FreePage
<1>14. QED
  BY <1>8, <1>9, <1>11, <1>12, <1>13 DEF IInv

LEMMA NextIInv == IInv /\ [PagesNext]_pageVars => IInv'
<1> SUFFICES ASSUME IInv, [PagesNext]_pageVars PROVE IInv'
  OBVIOUS
<1>1. CASE ReadEFIMemoryMap
  BY <1>1, BootStep
<1>2. ASSUME NEW count \in 1 .. MaxCount, RequestPages(count) PROVE IInv'
  BY <1>2, RequestStep
<1>3. ASSUME NEW count \in 1 .. MaxCount, RequestPagesFail(count) PROVE IInv'
  BY <1>3, RequestFailStep
<1>4. ASSUME NEW p \in Held, FreePage(p) PROVE IInv'
  BY <1>4, FreePageStep
<1>5. CASE UNCHANGED pageVars
  <2>1. UNCHANGED <<Initialized, bitmap, pageBitmapIndex, freeMemory, usedMemory,
                    reservedMemory, holders, failedCount>>
    BY <1>5 DEF pageVars
  <2>2. Held' = Held /\ FreeRuns(0, failedCount)' = FreeRuns(0, failedCount)
    BY <2>1 DEF Held, FreeRuns
  <2>3. PagesTyped' /\ BeforeBoot' /\ OneHolder'
    BY <2>1 DEF IInv, PagesTyped, BeforeBoot, OneHolder
  <2>4. Owned' /\ PageCountersAgree' /\ PanicOnlyWhenFull'
    BY <2>1, <2>2 DEF IInv, Owned, PageCountersAgree, PanicOnlyWhenFull
  <2>5. QED
    BY <2>3, <2>4 DEF IInv
<1>6. QED
  BY <1>1, <1>2, <1>3, <1>4, <1>5 DEF PagesNext

(* The invariant holds in every reachable state.                            *)
THEOREM AllocatorInvariant == PagesSpec => []IInv
BY InitIInv, NextIInv, PTL DEF PagesSpec

(* Type correctness.                                                        *)
THEOREM AllocatorTypeOK == PagesSpec => []PagesTyped
<1>1. IInv => PagesTyped
  BY DEF IInv
<1>2. QED
  BY <1>1, AllocatorInvariant, PTL

(* No page is lost and no boot page is handed out, for any memory size.     *)
THEOREM AllocatorOwnership == PagesSpec => []LockedIsOwned
<1>1. IInv => LockedIsOwned
  BY DEF IInv, LockedIsOwned
<1>2. QED
  BY <1>1, AllocatorInvariant, PTL

(* The RAM counters agree with the bitmap, for any memory size.             *)
THEOREM AllocatorAccounting == PagesSpec => []PageCountersAgree
<1>1. IInv => PageCountersAgree
  BY DEF IInv
<1>2. QED
  BY <1>1, AllocatorInvariant, PTL

(* The out-of-memory panic is never premature, wherever the hint stood.     *)
THEOREM AllocatorPanic == PagesSpec => []PanicOnlyWhenFull
<1>1. IInv => PanicOnlyWhenFull
  BY DEF IInv
<1>2. QED
  BY <1>1, AllocatorInvariant, PTL

(* No page is ever in the hands of two callers, for any memory size.        *)
THEOREM AllocatorNoDoubleGrant == PagesSpec => []OneHolder
<1>1. IInv => OneHolder
  BY DEF IInv
<1>2. QED
  BY <1>1, AllocatorInvariant, PTL
=============================================================================
