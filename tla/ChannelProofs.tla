---------------------------- MODULE ChannelProofs ----------------------------
(***************************************************************************)
(* What goes in at one end comes out at the other, in order: through a      *)
(* queue (RingQueue implements Fifo, for every set of items, initial size   *)
(* and number of items that may wait), through the lists of TCP (what is    *)
(* read from a port is what came for it), and through the serial manager    *)
(* (what the host sends arrives whole and reaches its port, and what the    *)
(* kernel sends leaves whole), for any signature and any packets.           *)
(***************************************************************************)
EXTENDS RingQueue, Tcp, SerialManager, SequenceLemmas

(* Where an index that is less than two sizes lies in the ring.             *)
LEMMA RingIndex ==
    ASSUME NEW n \in Nat, n > 0, NEW i \in 0 .. (2 * n - 1)
    PROVE  i % n = IF i < n THEN i ELSE i - n
<1>1. CASE i < n
  BY <1>1, SMT
<1>2. CASE ~(i < n)
  BY <1>2, SMT
<1> QED BY <1>1, <1>2

(* The slot that is i places behind the head.                               *)
LEMMA RingPlace ==
    ASSUME NEW n \in Nat, n > 0, NEW h \in 0 .. (n - 1), NEW i \in 0 .. n
    PROVE  /\ (h + i) % n = IF h + i < n THEN h + i ELSE h + i - n
           /\ (h + i) % n \in 0 .. (n - 1)
<1>1. CASE h + i < n
  BY <1>1, SMT
<1>2. CASE ~(h + i < n)
  BY <1>2, SMT
<1> QED BY <1>1, <1>2

(* Two places that are less than one size apart are different slots.        *)
LEMMA RingDistinct ==
    ASSUME NEW n \in Nat, n > 0, NEW h \in 0 .. (n - 1),
           NEW i \in 0 .. (n - 1), NEW j \in 0 .. (n - 1), i # j
    PROVE  /\ (h + i) % n \in 0 .. (n - 1)
           /\ (h + i) % n # (h + j) % n
<1>1. /\ (h + i) % n = IF h + i < n THEN h + i ELSE h + i - n
      /\ (h + i) % n \in 0 .. (n - 1)
  BY RingPlace
<1>2. (h + j) % n = IF h + j < n THEN h + j ELSE h + j - n
  BY RingPlace
<1> QED BY <1>1, <1>2

(* Moving the head by one moves every place by one.                         *)
LEMMA RingShift ==
    ASSUME NEW n \in Nat, n > 0, NEW h \in 0 .. (n - 1), NEW i \in 0 .. (n - 1)
    PROVE  /\ (h + 1) % n \in 0 .. (n - 1)
           /\ (((h + 1) % n) + i) % n = (h + 1 + i) % n
<1>0. 1 \in 0 .. n /\ 0 \in 0 .. (n - 1) /\ i \in 0 .. n
  OBVIOUS
<1>1. /\ (h + 1) % n = IF h + 1 < n THEN h + 1 ELSE h + 1 - n
      /\ (h + 1) % n \in 0 .. (n - 1)
  BY <1>0, RingPlace
<1>2. (h + 1 + i) % n = IF h + 1 + i < n THEN h + 1 + i ELSE h + 1 + i - n
  <2>1. h + 1 + i \in 0 .. (2 * n - 1)
    OBVIOUS
  <2> QED BY <2>1, RingIndex
<1>3. CASE h + 1 < n
  <2>1. (h + 1) % n = h + 1
    BY <1>1, <1>3
  <2> QED BY <1>1, <2>1
<1>4. CASE ~(h + 1 < n)
  <2>1. (h + 1) % n = 0 /\ h + 1 = n
    BY <1>1, <1>4
  <2>2. (0 + i) % n = i
    BY <1>0, RingPlace
  <2>3. (h + 1 + i) % n = i
    BY <1>2, <2>1
  <2> QED BY <1>1, <2>1, <2>2, <2>3
<1> QED BY <1>3, <1>4

(* The slot behind the last of c items, and the one after that.             *)
LEMMA RingTail ==
    ASSUME NEW n \in Nat, n > 0, NEW h \in 0 .. (n - 1), NEW c \in 0 .. (n - 1)
    PROVE  (((h + c) % n) + 1) % n = (h + (c + 1)) % n
<1> DEFINE t == (h + c) % n
<1>1. /\ t = IF h + c < n THEN h + c ELSE h + c - n
      /\ t \in 0 .. (n - 1)
  BY RingPlace
<1>2. (h + (c + 1)) % n = IF h + (c + 1) < n THEN h + (c + 1)
                          ELSE h + (c + 1) - n
  BY RingPlace
<1> HIDE DEF t
<1>3. (t + 1) % n = IF t + 1 < n THEN t + 1 ELSE t + 1 - n
  BY <1>1, RingPlace
<1>4. (t + 1) % n = (h + (c + 1)) % n
  BY <1>1, <1>2, <1>3
<1> QED BY <1>4 DEF t

-----------------------------------------------------------------------------
Values == Items \cup {NoItem}

(* The c items of the ring a of n slots, from the head h on.                *)
InRing(a, n, h, c) == [i \in 1 .. c |-> a[(h + (i - 1)) % n]]

LEMMA ReadType ==
    ASSUME NEW n \in Nat, n > 0, NEW a \in [0 .. (n - 1) -> Values],
           NEW h \in 0 .. (n - 1), NEW c \in 0 .. n
    PROVE  InRing(a, n, h, c) \in Seq(Values)
<1>1. ASSUME NEW i \in 1 .. c
      PROVE  a[(h + (i - 1)) % n] \in Values
  <2>1. i - 1 \in 0 .. n
    OBVIOUS
  <2>2. (h + (i - 1)) % n \in 0 .. (n - 1)
    BY <2>1, RingPlace
  <2> QED BY <2>2
<1>2. InRing(a, n, h, c) \in [1 .. c -> Values]
  BY <1>1 DEF InRing
<1> QED BY <1>2

(* An item stored behind the last one is the last one then.                 *)
LEMMA ReadAppend ==
    ASSUME NEW n \in Nat, n > 0, NEW a \in [0 .. (n - 1) -> Values],
           NEW h \in 0 .. (n - 1), NEW c \in 0 .. (n - 1), NEW item \in Values,
           NEW b \in [0 .. (n - 1) -> Values],
           \A i \in 0 .. (n - 1) : b[i] = IF i = (h + c) % n THEN item ELSE a[i]
    PROVE  InRing(b, n, h, c + 1) = Append(InRing(a, n, h, c), item)
<1> DEFINE s == InRing(a, n, h, c)
           t == InRing(b, n, h, c + 1)
<1>1. (h + c) % n \in 0 .. (n - 1) /\ b[(h + c) % n] = item
  <2>1. c \in 0 .. n
    OBVIOUS
  <2>2. (h + c) % n \in 0 .. (n - 1)
    BY <2>1, RingPlace
  <2> QED BY <2>2
<1>2. s \in Seq(Values) /\ Len(s) = c
  <2>1. c \in 0 .. n
    OBVIOUS
  <2>2. s \in Seq(Values)
    BY <2>1, ReadType
  <2>3. Len(s) = c
    BY DEF InRing
  <2> QED BY <2>2, <2>3
<1>3. t \in Seq(Values) /\ Len(t) = c + 1
  <2>1. \A k \in 0 .. n : InRing(b, n, h, k) \in Seq(Values)
    BY ReadType
  <2>2. c + 1 \in 0 .. n
    OBVIOUS
  <2>3. t \in Seq(Values)
    BY <2>1, <2>2
  <2>4. Len(t) = c + 1
    BY DEF InRing
  <2> QED BY <2>3, <2>4
<1>4. ASSUME NEW i \in 1 .. c PROVE t[i] = s[i]
  <2>1. i - 1 \in 0 .. (n - 1) /\ i - 1 # c
    OBVIOUS
  <2>2. /\ (h + (i - 1)) % n \in 0 .. (n - 1)
        /\ (h + (i - 1)) % n # (h + c) % n
    BY <2>1, RingDistinct
  <2>3. b[(h + (i - 1)) % n] = a[(h + (i - 1)) % n]
    BY <2>2
  <2>4. t[i] = b[(h + (i - 1)) % n]
    BY DEF InRing
  <2> QED BY <2>3, <2>4 DEF InRing
<1>5. t[c + 1] = item
  <2>1. (c + 1) - 1 = c /\ c + 1 \in 1 .. (c + 1)
    OBVIOUS
  <2>2. t[c + 1] = b[(h + ((c + 1) - 1)) % n]
    BY <2>1 DEF InRing
  <2> QED BY <1>1, <2>1, <2>2
<1> HIDE DEF s, t
<1>6. /\ Append(s, item) \in Seq(Values) /\ Len(Append(s, item)) = c + 1
      /\ \A i \in 1 .. c : Append(s, item)[i] = s[i]
      /\ Append(s, item)[c + 1] = item
  <2>1. item \in Values
    OBVIOUS
  <2> QED BY <1>2, <2>1, AppendProperties
<1>7. \A i \in 1 .. Len(t) : t[i] = Append(s, item)[i]
  BY <1>3, <1>4, <1>5, <1>6
<1>8. t = Append(s, item)
  BY <1>3, <1>6, <1>7, SeqEqual
<1> QED BY <1>8 DEF s, t

(* Moving the head on takes the first item off.                             *)
LEMMA ReadTail ==
    ASSUME NEW n \in Nat, n > 0, NEW a \in [0 .. (n - 1) -> Values],
           NEW h \in 0 .. (n - 1), NEW c \in 1 .. n
    PROVE  /\ InRing(a, n, h, c) # <<>>
           /\ Head(InRing(a, n, h, c)) = a[h]
           /\ InRing(a, n, (h + 1) % n, c - 1) = Tail(InRing(a, n, h, c))
<1> DEFINE s == InRing(a, n, h, c)
           g == (h + 1) % n
           t == InRing(a, n, g, c - 1)
<1>1. s \in Seq(Values) /\ Len(s) = c
  <2>1. c \in 0 .. n
    OBVIOUS
  <2>2. s \in Seq(Values)
    BY <2>1, ReadType
  <2>3. Len(s) = c
    BY DEF InRing
  <2> QED BY <2>2, <2>3
<1>2. g \in 0 .. (n - 1)
  <2>1. 1 \in 0 .. n
    OBVIOUS
  <2> QED BY <2>1, RingPlace
<1>3. t \in Seq(Values) /\ Len(t) = c - 1
  <2> HIDE DEF g
  <2>1. \A k \in 0 .. n : InRing(a, n, g, k) \in Seq(Values)
    BY <1>2, ReadType
  <2>2. c - 1 \in 0 .. n
    OBVIOUS
  <2>3. t \in Seq(Values)
    BY <2>1, <2>2
  <2>4. Len(t) = c - 1
    BY DEF InRing
  <2> QED BY <2>3, <2>4
<1>4. ASSUME NEW i \in 1 .. (c - 1) PROVE t[i] = s[i + 1]
  <2>1. i - 1 \in 0 .. (n - 1) /\ i + 1 \in 1 .. c
        /\ h + ((i + 1) - 1) = h + 1 + (i - 1)
    OBVIOUS
  <2>2. (g + (i - 1)) % n = (h + 1 + (i - 1)) % n
    BY <2>1, RingShift
  <2>3. t[i] = a[(g + (i - 1)) % n]
    BY DEF InRing
  <2>4. s[i + 1] = a[(h + ((i + 1) - 1)) % n]
    BY <2>1 DEF InRing
  <2> QED BY <2>1, <2>2, <2>3, <2>4
<1>5. s[1] = a[h]
  <2>1. 1 \in 1 .. c /\ 1 - 1 = 0 /\ 0 \in 0 .. n
    OBVIOUS
  <2>2. (h + 0) % n = h
    BY <2>1, RingPlace
  <2>3. s[1] = a[(h + (1 - 1)) % n]
    BY <2>1 DEF InRing
  <2> QED BY <2>1, <2>2, <2>3
<1> HIDE DEF s, t
<1>6. s # <<>>
  BY <1>1
<1>7. Head(s) = s[1]
  BY <1>1, <1>6
<1>8. /\ Tail(s) \in Seq(Values) /\ Len(Tail(s)) = c - 1
      /\ \A i \in 1 .. (c - 1) : Tail(s)[i] = s[i + 1]
  BY <1>1, <1>6, HeadTailProperties
<1>9. \A i \in 1 .. Len(t) : t[i] = Tail(s)[i]
  BY <1>3, <1>4, <1>8
<1>10. t = Tail(s)
  BY <1>3, <1>8, <1>9, SeqEqual
<1> QED BY <1>5, <1>6, <1>7, <1>10 DEF s, t

(* A copy that starts at slot 0 of a larger array reads the same.           *)
LEMMA ReadCopy ==
    ASSUME NEW n, NEW a, NEW h, NEW c \in Nat, NEW m \in Nat, m > c,
           NEW b, \A i \in 0 .. (c - 1) : b[i] = a[(h + i) % n]
    PROVE  InRing(b, m, 0, c) = InRing(a, n, h, c)
<1>1. ASSUME NEW i \in 1 .. c
      PROVE  b[(0 + (i - 1)) % m] = a[(h + (i - 1)) % n]
  <2>1. i - 1 \in 0 .. m /\ i - 1 < m /\ 0 \in 0 .. (m - 1)
    OBVIOUS
  <2>2. (0 + (i - 1)) % m = i - 1
    BY <2>1, RingPlace
  <2>3. i - 1 \in 0 .. (c - 1)
    OBVIOUS
  <2> QED BY <2>2, <2>3
<1> QED BY <1>1 DEF InRing

-----------------------------------------------------------------------------
(* What Enqueue goes on with has room for one more, and holds the same      *)
(* items in the same order.                                                 *)
LEMMA RoomForOne ==
    ASSUME TypeOK, ~freed
    PROVE  \E a, n, h :
              /\ Room = [arr |-> a, size |-> n, head |-> h, tail |-> (h + count) % n]
              /\ n \in Nat /\ n >= 2
              /\ a \in [0 .. (n - 1) -> Values]
              /\ h \in 0 .. (n - 1)
              /\ count \in 0 .. (n - 1)
              /\ InRing(a, n, h, count) = InRing(arr, arrSize, head, count)
<1>1. CASE count = arrSize
  <2> DEFINE m == arrSize * 2
             b == [i \in 0 .. (m - 1) |->
                     IF i < count THEN arr[(head + i) % arrSize] ELSE NoItem]
  <2>1. Room = [arr |-> b, size |-> m, head |-> 0, tail |-> count]
    BY <1>1 DEF Room, Resize
  <2>2. /\ arrSize \in Nat /\ arrSize > 0 /\ head \in 0 .. (arrSize - 1)
        /\ arr \in [0 .. (arrSize - 1) -> Values]
        /\ count \in 0 .. arrSize
        /\ m \in Nat /\ m > count /\ m >= 2
    BY <1>1 DEF TypeOK, Values
  <2>3. ASSUME NEW i \in 0 .. (m - 1), i < count
        PROVE  arr[(head + i) % arrSize] \in Values
    <3>1. i \in 0 .. arrSize
      BY <2>2, <2>3
    <3>2. (head + i) % arrSize \in 0 .. (arrSize - 1)
      BY <2>2, <3>1, RingPlace
    <3> QED BY <2>2, <3>2
  <2>4. b \in [0 .. (m - 1) -> Values]
    BY <2>3 DEF Values
  <2>5. \A i \in 0 .. (count - 1) : b[i] = arr[(head + i) % arrSize]
    BY <2>2
  <2> HIDE DEF b, m
  <2>6. 0 \in 0 .. (m - 1) /\ count \in 0 .. (m - 1)
    BY <2>2
  <2>7. (0 + count) % m = count
    BY <2>2, <2>6, RingPlace
  <2>8. InRing(b, m, 0, count) = InRing(arr, arrSize, head, count)
    BY <2>2, <2>5, ReadCopy
  <2> QED BY <2>1, <2>2, <2>4, <2>6, <2>7, <2>8
<1>2. CASE count # arrSize
  <2>1. Room = [arr |-> arr, size |-> arrSize, head |-> head,
                tail |-> (head + count) % arrSize]
    BY <1>2 DEF Room, Ring, TypeOK
  <2>2. count \in 0 .. (arrSize - 1)
    BY <1>2 DEF TypeOK
  <2> QED BY <2>1, <2>2 DEF TypeOK, Values
<1> QED BY <1>1, <1>2

-----------------------------------------------------------------------------
LEMMA InitTypeOK == Init => TypeOK
<1> SUFFICES ASSUME Init PROVE TypeOK
  OBVIOUS
<1>1. arrSize \in Nat /\ arrSize >= 2
  BY QueueAssumption DEF Init
<1>2. (0 + 0) % arrSize = 0 /\ 0 \in 0 .. (arrSize - 1) /\ 0 \in 0 .. arrSize
  BY <1>1, RingPlace
<1>3. arr \in [0 .. (arrSize - 1) -> Items \cup {NoItem}]
  BY DEF Init, Malloc
<1>4. /\ count = 0 /\ head = 0 /\ tail = 0 /\ freed = FALSE
      /\ taken = NoItem /\ panicked = FALSE
  BY DEF Init
<1> QED BY <1>1, <1>2, <1>3, <1>4 DEF TypeOK

LEMMA NextTypeOK == TypeOK /\ [Next]_vars => TypeOK'
<1> SUFFICES ASSUME TypeOK, [Next]_vars PROVE TypeOK'
  OBVIOUS
<1>1. ASSUME NEW item \in Items, Enqueue(item) PROVE TypeOK'
  <2>1. ~freed
    BY <1>1 DEF Enqueue
  <2>2. PICK a, n, h :
              /\ Room = [arr |-> a, size |-> n, head |-> h, tail |-> (h + count) % n]
              /\ n \in Nat /\ n >= 2
              /\ a \in [0 .. (n - 1) -> Values]
              /\ h \in 0 .. (n - 1)
              /\ count \in 0 .. (n - 1)
    BY <2>1, RoomForOne
  <2>3. /\ arr' = [a EXCEPT ![(h + count) % n] = item] /\ arrSize' = n
        /\ head' = h /\ tail' = (((h + count) % n) + 1) % n /\ count' = count + 1
        /\ UNCHANGED <<freed, taken, panicked>>
    BY <1>1, <2>2 DEF Enqueue
  <2>4. (((h + count) % n) + 1) % n = (h + (count + 1)) % n
    BY <2>2, RingTail
  <2>5. arr' \in [0 .. (n - 1) -> Items \cup {NoItem}]
    BY <2>2, <2>3 DEF Values
  <2>6. count + 1 \in 0 .. n
    BY <2>2
  <2> QED BY <2>2, <2>3, <2>4, <2>5, <2>6 DEF TypeOK
<1>2. ASSUME Dequeue PROVE TypeOK'
  <2>1. /\ arrSize \in Nat /\ arrSize > 0 /\ head \in 0 .. (arrSize - 1)
        /\ count - 1 \in 0 .. (arrSize - 1) /\ count - 1 \in 0 .. arrSize
        /\ head + 1 + (count - 1) = head + count
    BY <1>2 DEF Dequeue, TypeOK
  <2>2. /\ (head + 1) % arrSize \in 0 .. (arrSize - 1)
        /\ (((head + 1) % arrSize) + (count - 1)) % arrSize
              = (head + 1 + (count - 1)) % arrSize
    BY <2>1, RingShift
  <2>3. arr[head] \in Items \cup {NoItem}
    BY <1>2, <2>1 DEF Dequeue, TypeOK
  <2> QED BY <1>2, <2>1, <2>2, <2>3 DEF Dequeue, TypeOK
<1>3. ASSUME Clear PROVE TypeOK'
  <2>1. (0 + 0) % arrSize = 0 /\ 0 \in 0 .. (arrSize - 1) /\ 0 \in 0 .. arrSize
    BY RingPlace DEF TypeOK
  <2> QED BY <1>3, <2>1 DEF Clear, TypeOK
<1>4. CASE DequeueEmpty \/ UseAfterFree
  BY <1>4 DEF DequeueEmpty, UseAfterFree, Panic, TypeOK
<1>5. CASE Free
  BY <1>5 DEF Free, TypeOK
<1>6. CASE UNCHANGED vars
  BY <1>6 DEF vars, TypeOK
<1> QED BY <1>1, <1>2, <1>3, <1>4, <1>5, <1>6 DEF Next

(* The members keep their types, and the tail stays count places behind the *)
(* head, around the end of the array, however often the array grows.        *)
THEOREM QueueTypeOK == Spec => []TypeOK
<1> QED BY InitTypeOK, NextTypeOK, PTL DEF Spec

-----------------------------------------------------------------------------
LEMMA InitRefines == Init => Abstract!Init
<1> SUFFICES ASSUME Init PROVE Abstract!Init
  OBVIOUS
<1>1. Contents = <<>>
  BY DEF Init, Contents
<1> QED BY <1>1 DEF Init, State, Abstract!Init

LEMMA NextRefines ==
    TypeOK /\ [Next]_vars => [Abstract!Next]_(Abstract!vars)
<1> SUFFICES ASSUME TypeOK, [Next]_vars
             PROVE  [Abstract!Next]_(Abstract!vars)
  OBVIOUS
<1>1. ASSUME NEW item \in Items, Enqueue(item) PROVE Abstract!Put(item)
  <2>1. ~freed /\ ~freed' /\ count < MaxCount
    BY <1>1 DEF Enqueue
  <2>2. PICK a, n, h :
              /\ Room = [arr |-> a, size |-> n, head |-> h, tail |-> (h + count) % n]
              /\ n \in Nat /\ n >= 2
              /\ a \in [0 .. (n - 1) -> Values]
              /\ h \in 0 .. (n - 1)
              /\ count \in 0 .. (n - 1)
              /\ InRing(a, n, h, count) = InRing(arr, arrSize, head, count)
    BY <2>1, RoomForOne
  <2>3. /\ arr' = [a EXCEPT ![(h + count) % n] = item] /\ arrSize' = n
        /\ head' = h /\ count' = count + 1
        /\ UNCHANGED <<freed, taken, panicked>>
    BY <1>1, <2>2 DEF Enqueue
  <2>4. Contents = InRing(arr, arrSize, head, count)
        /\ Contents' = InRing(arr', n, h, count + 1)
    BY <2>1, <2>3 DEF Contents, InRing
  <2>5. item \in Values
    BY DEF Values
  <2>6. n > 0 /\ count \in 0 .. n
    BY <2>2
  <2>7. /\ arr' \in [0 .. (n - 1) -> Values]
        /\ \A i \in 0 .. (n - 1) :
              arr'[i] = IF i = (h + count) % n THEN item ELSE a[i]
    BY <2>2, <2>3, <2>5
  <2>8. InRing(arr', n, h, count + 1) = Append(InRing(a, n, h, count), item)
    BY <2>2, <2>5, <2>6, <2>7, ReadAppend
  <2>9. Contents' = Append(Contents, item)
    BY <2>2, <2>4, <2>8
  <2>10. Len(InRing(a, n, h, count)) = count
    BY <2>6 DEF InRing
  <2>11. Len(Contents) < MaxCount
    BY <2>1, <2>2, <2>4, <2>10
  <2> QED BY <1>1, <2>1, <2>3, <2>9, <2>11 DEF Enqueue, State, Abstract!Put
<1>2. ASSUME Dequeue PROVE Abstract!Take
  <2>1. ~freed /\ ~freed' /\ count' = count - 1 /\ head' = (head + 1) % arrSize
        /\ arr' = arr /\ arrSize' = arrSize /\ taken' = arr[head]
    BY <1>2 DEF Dequeue
  <2>2. /\ arrSize \in Nat /\ arrSize > 0 /\ head \in 0 .. (arrSize - 1)
        /\ arr \in [0 .. (arrSize - 1) -> Values]
        /\ count \in 1 .. arrSize
    BY <1>2, <2>1 DEF Dequeue, TypeOK, Values
  <2>3. Contents = InRing(arr, arrSize, head, count)
        /\ Contents' = InRing(arr, arrSize, (head + 1) % arrSize, count - 1)
    BY <2>1 DEF Contents, InRing
  <2>4. /\ Contents # <<>> /\ Head(Contents) = arr[head]
        /\ Contents' = Tail(Contents)
    BY <2>2, <2>3, ReadTail
  <2> QED BY <1>2, <2>1, <2>4 DEF Dequeue, State, Abstract!Take
<1>3. ASSUME Clear PROVE Abstract!Forget
  <2>1. Contents' = <<>>
    BY <1>3 DEF Clear, Contents
  <2> QED BY <1>3, <2>1 DEF Clear, State, Abstract!Forget
<1>4. ASSUME Free PROVE Abstract!Forget
  <2>1. Contents' = <<>>
    BY <1>4 DEF Free, Contents
  <2> QED BY <1>4, <2>1 DEF Free, State, Abstract!Forget
<1>5. ASSUME DequeueEmpty \/ UseAfterFree PROVE Abstract!Misuse
  <2>1. Contents = <<>> /\ Contents' = Contents
    BY <1>5 DEF DequeueEmpty, UseAfterFree, Panic, Contents
  <2> QED BY <1>5, <2>1 DEF DequeueEmpty, UseAfterFree, Panic, State, Abstract!Misuse
<1>6. ASSUME UNCHANGED vars PROVE Abstract!vars' = Abstract!vars
  BY <1>6 DEF vars, Contents, State, Abstract!vars
<1> QED BY <1>1, <1>2, <1>3, <1>4, <1>5, <1>6 DEF Next, Abstract!Next

(* Every behaviour of the ring is one of a queue: what Dequeue returns is   *)
(* what was put in longest ago, and only misuse ends in a panic.            *)
THEOREM QueueImplementsFifo == Spec => ImplementsFifo
<1>1. Spec => []TypeOK
  BY QueueTypeOK
<1> QED BY <1>1, InitRefines, NextRefines, PTL
        DEF Spec, ImplementsFifo, Abstract!Spec

-----------------------------------------------------------------------------
(* TCP.                                                                     *)

(* The last c elements of the first l, and the first n of a sequence.       *)
EndOf(d, l, c) == SubSeq(d, l - c + 1, l)
FrontOf(w, n) == SubSeq(w, 1, n)

LEMMA EndSplit ==
    ASSUME NEW S, NEW d \in Seq(S), NEW l \in Nat, l <= Len(d),
           NEW c \in Nat, c <= l, NEW n \in Nat, n <= c
    PROVE  /\ EndOf(d, l, c) \in Seq(S)
           /\ EndOf(d, l, c - n) \in Seq(S)
           /\ FrontOf(EndOf(d, l, c), n) \in Seq(S)
           /\ EndOf(d, l, c) =
                 Joined(FrontOf(EndOf(d, l, c), n), EndOf(d, l, c - n))
<1>w. PICK w : w = EndOf(d, l, c) /\ w = SubSeq(d, l - c + 1, l)
  BY DEF EndOf
<1>v. PICK v : v = FrontOf(EndOf(d, l, c), n) /\ v = SubSeq(w, 1, n)
  BY <1>w DEF FrontOf
<1>x. PICK x : x = EndOf(d, l, c - n) /\ x = SubSeq(d, l - (c - n) + 1, l)
  BY DEF EndOf
<1>0. Len(d) \in Nat
  BY LenProperties
<1>1. /\ w \in Seq(S) /\ Len(w) = c
      /\ \A i \in 1 .. c : w[i] = d[l - c + i]
  <2> DEFINE a == l - c + 1
  <2>1. /\ a \in Int /\ \A i \in a .. l : i \in 1 .. Len(d)
    BY <1>0
  <2>2. /\ w \in Seq(S) /\ Len(w) = (IF a <= l THEN l - a + 1 ELSE 0)
        /\ \A i \in 1 .. (l - a + 1) : w[i] = d[a + i - 1]
    <3>1. \A i \in a .. l : d[i] \in S
      BY <2>1, ElementOfSeq
    <3>2. w = SubSeq(d, a, l)
      BY <1>w
    <3> HIDE DEF a
    <3> QED BY ONLY <2>1, <3>1, <3>2, l \in Nat, SubSeqProperties
  <2>3. l - a + 1 = c /\ (a <= l <=> c >= 1) /\ c \in Nat
    OBVIOUS
  <2>4. \A i \in 1 .. c : a + i - 1 = l - c + i
    OBVIOUS
  <2> HIDE DEF a
  <2>5. Len(w) = c
    BY ONLY <2>2, <2>3
  <2> QED BY ONLY <2>2, <2>3, <2>4, <2>5
<1>2. /\ v \in Seq(S) /\ Len(v) = n
      /\ \A i \in 1 .. n : v[i] = w[i]
  <2>1. \A i \in 1 .. n : w[i] \in S
    <3>1. \A i \in 1 .. c : w[i] \in S
      BY ONLY <1>1, ElementOfSeq
    <3> QED BY <3>1
  <2>2. /\ v \in Seq(S) /\ Len(v) = (IF 1 <= n THEN n - 1 + 1 ELSE 0)
        /\ \A i \in 1 .. (n - 1 + 1) : v[i] = w[1 + i - 1]
    BY ONLY <1>v, <2>1, n \in Nat, SubSeqProperties
  <2> QED BY <2>2
<1>3. /\ x \in Seq(S) /\ Len(x) = c - n
      /\ \A i \in 1 .. (c - n) : x[i] = d[l - (c - n) + i]
  <2> DEFINE a == l - (c - n) + 1
  <2>1. /\ a \in Int /\ \A i \in a .. l : i \in 1 .. Len(d)
    BY <1>0
  <2>2. /\ x \in Seq(S) /\ Len(x) = (IF a <= l THEN l - a + 1 ELSE 0)
        /\ \A i \in 1 .. (l - a + 1) : x[i] = d[a + i - 1]
    <3>1. \A i \in a .. l : d[i] \in S
      BY <2>1, ElementOfSeq
    <3>2. x = SubSeq(d, a, l)
      BY <1>x
    <3> HIDE DEF a
    <3> QED BY ONLY <2>1, <3>1, <3>2, l \in Nat, SubSeqProperties
  <2>3. l - a + 1 = c - n /\ (a <= l <=> c - n >= 1) /\ c - n \in Nat
    OBVIOUS
  <2>4. \A i \in 1 .. (c - n) : a + i - 1 = l - (c - n) + i
    OBVIOUS
  <2> HIDE DEF a
  <2>5. Len(x) = c - n
    BY ONLY <2>2, <2>3
  <2> QED BY ONLY <2>2, <2>3, <2>4, <2>5
<1>4. PICK y : y = v \o x
  OBVIOUS
<1>5. /\ y \in Seq(S) /\ Len(y) = c
      /\ \A i \in 1 .. c : y[i] = IF i <= n THEN v[i] ELSE x[i - n]
  <2>1. /\ v \o x \in Seq(S) /\ Len(v \o x) = Len(v) + Len(x)
        /\ \A i \in 1 .. (Len(v) + Len(x)) :
              (v \o x)[i] = IF i <= Len(v) THEN v[i] ELSE x[i - Len(v)]
    <3>1. v \in Seq(S) /\ x \in Seq(S)
      BY <1>2, <1>3
    <3> QED BY ONLY <3>1, ConcatProperties
  <2> QED BY ONLY <2>1, <1>2, <1>3, <1>4, c \in Nat, n \in Nat
<1>6. \A i \in 1 .. c : w[i] = y[i]
  <2> SUFFICES ASSUME NEW i \in 1 .. c PROVE w[i] = y[i]
    OBVIOUS
  <2>1. CASE i <= n
    BY <1>2, <1>5, <2>1
  <2>2. CASE ~(i <= n)
    <3>1. i - n \in 1 .. (c - n) /\ l - (c - n) + (i - n) = l - c + i
      BY <2>2
    <3>2. x[i - n] = d[l - c + i]
      BY ONLY <1>3, <3>1
    <3> QED BY <1>1, <1>5, <2>2, <3>2
  <2> QED BY <2>1, <2>2
<1>7. w = y
  BY <1>1, <1>5, <1>6, SeqEqual
<1> QED BY <1>1, <1>2, <1>3, <1>4, <1>7, <1>w, <1>v, <1>x DEF Joined

-----------------------------------------------------------------------------
(* The lists, r of the packets and c of their counts, at a step st of the   *)
(* main loop with its packet at place at: between the two removals a count  *)
(* is one place further than its packet, and a packet that was read to its  *)
(* end holds nothing more.                                                  *)
Bytes == 0 .. 255
KeptPackets == [port : Ports, data : Seq(Bytes), len : Nat]

ReadPart(packet, c, n) == SubSeq(Unread(packet, c), 1, n)

LEMMA UnreadSplit ==
    ASSUME NEW packet \in KeptPackets, packet.len <= Len(packet.data),
           NEW c \in Nat, c <= packet.len, NEW n \in Nat, n <= c
    PROVE  /\ Unread(packet, c) \in Seq(Bytes)
           /\ Unread(packet, c - n) \in Seq(Bytes)
           /\ ReadPart(packet, c, n) \in Seq(Bytes)
           /\ Unread(packet, c) =
                 Joined(ReadPart(packet, c, n), Unread(packet, c - n))
<1>d. PICK d : d = packet.data
  OBVIOUS
<1>l. PICK l : l = packet.len
  OBVIOUS
<1>0. d \in Seq(Bytes) /\ l \in Nat /\ c <= l /\ l <= Len(d)
  BY <1>d, <1>l DEF KeptPackets
<1>1. /\ Unread(packet, c) = EndOf(d, l, c)
      /\ Unread(packet, c - n) = EndOf(d, l, c - n)
      /\ ReadPart(packet, c, n) = FrontOf(EndOf(d, l, c), n)
  BY <1>d, <1>l DEF Unread, ReadPart, EndOf, FrontOf
<1>2. /\ EndOf(d, l, c) \in Seq(Bytes)
      /\ EndOf(d, l, c - n) \in Seq(Bytes)
      /\ FrontOf(EndOf(d, l, c), n) \in Seq(Bytes)
      /\ EndOf(d, l, c) =
            Joined(FrontOf(EndOf(d, l, c), n), EndOf(d, l, c - n))
  BY ONLY <1>0, c \in Nat, n \in Nat, n <= c, EndSplit
<1> QED BY <1>1, <1>2

CountOf(c, st, at, k) ==
    IF st = "removeCount" /\ k >= at THEN c[k + 1] ELSE c[k]

RestOf(r, c, st, at, p, k) ==
    IF r[k].port # p \/ (st = "remove" /\ k = at) THEN <<>>
    ELSE Unread(r[k], CountOf(c, st, at, k))

Rests(r, c, st, at, p) == [k \in 1 .. Len(r) |-> RestOf(r, c, st, at, p, k)]

Lists(r, c, st, at) ==
    /\ r \in Seq(KeptPackets) /\ c \in Seq(Nat) /\ at \in Nat \ {0}
    /\ Len(c) = IF st = "removeCount" THEN Len(r) + 1 ELSE Len(r)
    /\ \A k \in 1 .. Len(r) : /\ r[k].len <= Len(r[k].data)
                              /\ CountOf(c, st, at, k) <= r[k].len

LEMMA CountIsNat ==
    ASSUME NEW r, NEW c, NEW st, NEW at, Lists(r, c, st, at), NEW k \in 1 .. Len(r)
    PROVE  CountOf(c, st, at, k) \in Nat
<1>1. /\ c \in Seq(Nat) /\ at \in Nat /\ Len(r) \in Nat
      /\ Len(c) = IF st = "removeCount" THEN Len(r) + 1 ELSE Len(r)
  BY LenProperties DEF Lists
<1>2. \A i \in 1 .. Len(c) : c[i] \in Nat
  BY <1>1, ElementOfSeq
<1>3. CASE st = "removeCount" /\ k >= at
  <2>1. k + 1 \in 1 .. Len(c)
    BY <1>1, <1>3
  <2> QED BY <1>2, <1>3, <2>1 DEF CountOf
<1>4. CASE ~(st = "removeCount" /\ k >= at)
  <2>1. k \in 1 .. Len(c)
    BY <1>1
  <2> QED BY <1>2, <1>4, <2>1 DEF CountOf
<1> QED BY <1>3, <1>4

LEMMA RestType ==
    ASSUME NEW r, NEW c, NEW st, NEW at, Lists(r, c, st, at), NEW k \in 1 .. Len(r),
           NEW p
    PROVE  RestOf(r, c, st, at, p, k) \in Seq(Bytes)
<1>1. CASE r[k].port # p \/ (st = "remove" /\ k = at)
  BY <1>1, EmptySeq DEF RestOf
<1>2. CASE ~(r[k].port # p \/ (st = "remove" /\ k = at))
  <2>1. PICK n : n = CountOf(c, st, at, k)
    OBVIOUS
  <2>2. PICK x : x = r[k]
    OBVIOUS
  <2>3. /\ x \in KeptPackets /\ x.len <= Len(x.data)
        /\ n \in Nat /\ n <= x.len /\ 0 \in Nat /\ 0 <= n
    <3>1. n \in Nat
      BY <2>1, CountIsNat
    <3> QED BY <2>1, <2>2, <3>1, ElementOfSeq DEF Lists
  <2>4. Unread(x, n) \in Seq(Bytes)
    BY ONLY <2>3, UnreadSplit
  <2> QED BY <1>2, <2>1, <2>2, <2>4 DEF RestOf
<1> QED BY <1>1, <1>2

LEMMA RestsType ==
    ASSUME NEW r, NEW c, NEW st, NEW at, Lists(r, c, st, at), NEW p
    PROVE  /\ Rests(r, c, st, at, p) \in Seq(Seq(Bytes))
           /\ Len(Rests(r, c, st, at, p)) = Len(r)
           /\ Len(r) \in Nat
<1>1. Len(r) \in Nat
  BY LenProperties DEF Lists
<1>2. PICK n \in Nat : n = Len(r)
  BY <1>1
<1>3. PICK s : s = Rests(r, c, st, at, p)
  OBVIOUS
<1>4. \A k \in 1 .. n : RestOf(r, c, st, at, p, k) \in Seq(Bytes)
  BY <1>2, RestType
<1>5. s \in [1 .. n -> Seq(Bytes)]
  BY <1>2, <1>3, <1>4 DEF Rests
<1>6. s \in Seq(Seq(Bytes)) /\ Len(s) = n
  BY <1>5
<1> QED BY <1>2, <1>3, <1>6

(* A packet that arrives is at the end of what waits for its port.          *)
NotRead(r, c, st, at, p) == FlattenSeq(Rests(r, c, st, at, p))

ArrivedFor(x, p) == IF x.port = p THEN Unread(x, x.len) ELSE <<>>

Arrives(r, c, st, at, x, r2, c2) ==
    /\ Lists(r, c, st, at)
    /\ st = "removeCount" => at <= Len(r) + 1
    /\ st = "remove" => at <= Len(r)
    /\ x \in KeptPackets /\ x.len <= Len(x.data)
    /\ r2 = Append(r, x) /\ c2 = Append(c, x.len)

LEMMA ArriveWaits ==
    ASSUME NEW r, NEW c, NEW st, NEW at, NEW x, NEW r2, NEW c2,
           Arrives(r, c, st, at, x, r2, c2), NEW p
    PROVE  /\ Lists(r2, c2, st, at)
           /\ ArrivedFor(x, p) \in Seq(Bytes)
           /\ NotRead(r2, c2, st, at, p) =
                 Joined(NotRead(r, c, st, at, p), ArrivedFor(x, p))
<1>0. /\ Lists(r, c, st, at) /\ r2 = Append(r, x) /\ c2 = Append(c, x.len)
      /\ st = "removeCount" => at <= Len(r) + 1
      /\ st = "remove" => at <= Len(r)
      /\ x \in KeptPackets /\ x.len <= Len(x.data)
  BY DEF Arrives
<1>1. PICK n \in Nat : n = Len(r)
  BY <1>0, LenProperties DEF Lists
<1>2. /\ r \in Seq(KeptPackets) /\ c \in Seq(Nat) /\ at \in Nat \ {0}
      /\ Len(c) = IF st = "removeCount" THEN n + 1 ELSE n
      /\ \A k \in 1 .. n : /\ r[k].len <= Len(r[k].data)
                           /\ CountOf(c, st, at, k) <= r[k].len
  BY <1>0, <1>1 DEF Lists
<1>3. /\ r2 \in Seq(KeptPackets) /\ Len(r2) = n + 1 /\ r2[n + 1] = x
      /\ \A k \in 1 .. n : r2[k] = r[k]
  BY <1>0, <1>1, <1>2, AppendProperties
<1>4. PICK m \in Nat : m = Len(c)
  BY <1>2, LenProperties
<1>5. x.len \in Nat
  BY <1>0 DEF KeptPackets
<1>6. /\ c2 \in Seq(Nat) /\ Len(c2) = m + 1 /\ c2[m + 1] = x.len
      /\ \A k \in 1 .. m : c2[k] = c[k]
  BY <1>0, <1>2, <1>4, <1>5, AppendProperties
<1>7. \A k \in 1 .. n : CountOf(c2, st, at, k) = CountOf(c, st, at, k)
  <2> SUFFICES ASSUME NEW k \in 1 .. n
               PROVE  CountOf(c2, st, at, k) = CountOf(c, st, at, k)
    OBVIOUS
  <2>1. k \in 1 .. m /\ (st = "removeCount" => k + 1 \in 1 .. m)
    BY <1>2, <1>4
  <2> QED BY <1>6, <2>1 DEF CountOf
<1>8. CountOf(c2, st, at, n + 1) = x.len
  <2>1. CASE st = "removeCount"
    <3>1. n + 1 >= at /\ (n + 1) + 1 = m + 1
      BY <1>0, <1>1, <1>2, <1>4, <2>1
    <3> QED BY <1>6, <2>1, <3>1 DEF CountOf
  <2>2. CASE st # "removeCount"
    <3>1. n + 1 = m + 1
      BY <1>2, <1>4, <2>2
    <3> QED BY <1>6, <2>2, <3>1 DEF CountOf
  <2> QED BY <2>1, <2>2
<1>9. Lists(r2, c2, st, at)
  <2>1. ASSUME NEW k \in 1 .. (n + 1)
        PROVE  r2[k].len <= Len(r2[k].data) /\ CountOf(c2, st, at, k) <= r2[k].len
    <3>1. CASE k = n + 1
      BY <1>0, <1>3, <1>5, <1>8, <3>1
    <3>2. CASE k # n + 1
      <4>1. k \in 1 .. n
        BY <3>2
      <4> QED BY <1>2, <1>3, <1>7, <4>1
    <3> QED BY <3>1, <3>2
  <2>2. Len(c2) = IF st = "removeCount" THEN Len(r2) + 1 ELSE Len(r2)
    BY <1>2, <1>3, <1>4, <1>6
  <2> QED BY <1>2, <1>3, <1>6, <2>1, <2>2 DEF Lists
<1> DEFINE rest == ArrivedFor(x, p)
<1>10. RestOf(r2, c2, st, at, p, n + 1) = rest
  <2>1. ~(st = "remove" /\ n + 1 = at)
    BY <1>0, <1>1, <1>2
  <2> QED BY <1>3, <1>8, <2>1 DEF RestOf, ArrivedFor
<1>11. \A k \in 1 .. n : RestOf(r2, c2, st, at, p, k) = RestOf(r, c, st, at, p, k)
  BY <1>3, <1>7 DEF RestOf
<1>12. rest \in Seq(Bytes)
  <2>1. n + 1 \in 1 .. Len(r2)
    BY <1>3
  <2> QED BY <1>9, <1>10, <2>1, RestType
<1> HIDE DEF rest
<1>13. PICK s : s = Rests(r, c, st, at, p)
  OBVIOUS
<1>14. s \in Seq(Seq(Bytes)) /\ Len(s) = n
  BY ONLY <1>0, <1>1, <1>13, RestsType
<1>15. PICK s2 : s2 = Rests(r2, c2, st, at, p)
  OBVIOUS
<1>16. s2 \in Seq(Seq(Bytes)) /\ Len(s2) = n + 1
  BY ONLY <1>3, <1>9, <1>15, RestsType
<1>17. PICK t : t = Append(s, rest)
  OBVIOUS
<1>18. /\ t \in Seq(Seq(Bytes)) /\ Len(t) = n + 1 /\ t[n + 1] = rest
       /\ \A k \in 1 .. n : t[k] = s[k]
  BY ONLY n \in Nat, <1>12, <1>14, <1>17, AppendProperties
<1>19. \A k \in 1 .. (n + 1) : s2[k] = t[k]
  <2> SUFFICES ASSUME NEW k \in 1 .. (n + 1) PROVE s2[k] = t[k]
    OBVIOUS
  <2>1. s2[k] = RestOf(r2, c2, st, at, p, k)
    BY <1>3, <1>15 DEF Rests
  <2>2. CASE k = n + 1
    BY <1>10, <1>18, <2>1, <2>2
  <2>3. CASE k # n + 1
    <3>1. k \in 1 .. n
      BY <2>3
    <3>2. s[k] = RestOf(r, c, st, at, p, k)
      BY <1>1, <1>13, <3>1 DEF Rests
    <3> QED BY <1>11, <1>18, <2>1, <3>1, <3>2
  <2> QED BY <2>2, <2>3
<1>20. s2 = t
  BY ONLY <1>16, <1>18, <1>19, SeqEqual
<1>21. FlattenSeq(t) = Joined(FlattenSeq(s), rest)
  BY ONLY <1>12, <1>14, <1>17, FlattenAppend
<1> QED BY <1>9, <1>12, <1>13, <1>15, <1>20, <1>21 DEF rest, NotRead

(* Reading n bytes of the packet at place at takes them off the front of    *)
(* what waits for its port, and off nothing else; a packet that was read to *)
(* its end is marked for removal.                                           *)
Reads(r, c, at, p, n, c2, st2) ==
    /\ Lists(r, c, "scan", at) /\ at <= Len(r)
    /\ r[at].port = p /\ \A k \in 1 .. Len(r) : k < at => r[k].port # p
    /\ n \in Nat /\ n <= c[at]
    /\ \/ c2 = c /\ st2 = "remove" /\ n = c[at]
       \/ c2 = [c EXCEPT ![at] = c[at] - n]
             /\ (st2 = "idle" \/ (st2 = "remove" /\ n = c[at]))

LEMMA ReadFront ==
    ASSUME NEW r, NEW c, NEW at, NEW p, NEW n, NEW c2, NEW st2,
           Reads(r, c, at, p, n, c2, st2)
    PROVE  /\ Lists(r, c2, st2, at)
           /\ ReadPart(r[at], c[at], n) \in Seq(Bytes)
           /\ NotRead(r, c, "scan", at, p) =
                 Joined(ReadPart(r[at], c[at], n), NotRead(r, c2, st2, at, p))
           /\ \A q : q # p => NotRead(r, c2, st2, at, q) = NotRead(r, c, "scan", at, q)
<1>0. /\ Lists(r, c, "scan", at) /\ at <= Len(r)
      /\ r[at].port = p /\ \A k \in 1 .. Len(r) : k < at => r[k].port # p
      /\ n \in Nat /\ n <= c[at]
  BY DEF Reads
<1>c. \/ c2 = c /\ st2 = "remove" /\ n = c[at]
      \/ c2 = [c EXCEPT ![at] = c[at] - n]
            /\ (st2 = "idle" \/ (st2 = "remove" /\ n = c[at]))
  BY DEF Reads
<1>1. PICK m \in Nat : m = Len(r)
  BY <1>0, LenProperties DEF Lists
<1>2. /\ r \in Seq(KeptPackets) /\ c \in Seq(Nat) /\ at \in Nat \ {0} /\ Len(c) = m
      /\ \A k \in 1 .. m : r[k].len <= Len(r[k].data) /\ c[k] <= r[k].len
  BY <1>0, <1>1 DEF Lists, CountOf
<1>3. /\ at \in 1 .. m /\ r[at] \in KeptPackets /\ c[at] \in Nat
      /\ \A k \in 1 .. m : c[k] \in Nat
  BY <1>0, <1>1, <1>2, ElementOfSeq
<1>4. /\ c2 \in Seq(Nat) /\ Len(c2) = m /\ c2[at] \in {c[at], c[at] - n}
      /\ c[at] - n \in Nat /\ c2[at] <= c[at]
      /\ \A k \in 1 .. m : k # at => c2[k] = c[k]
  <2>1. CASE c2 = c
    BY <1>0, <1>2, <1>3, <2>1
  <2>2. CASE c2 = [c EXCEPT ![at] = c[at] - n]
    <3>1. c[at] - n \in Nat
      BY <1>0, <1>3
    <3>2. c \in [1 .. m -> Nat]
      BY <1>2, <1>3
    <3>3. c2 \in [1 .. m -> Nat] /\ c2[at] = c[at] - n
          /\ \A k \in 1 .. m : k # at => c2[k] = c[k]
      BY <1>3, <2>2, <3>1, <3>2
    <3>4. c2 \in Seq(Nat) /\ Len(c2) = m
      BY <3>3
    <3> QED BY <1>0, <1>3, <3>1, <3>3, <3>4
  <2> QED BY <1>c, <2>1, <2>2
<1>5. st2 \in {"idle", "remove"} /\ (st2 = "idle" => c2[at] = c[at] - n)
      /\ (st2 = "remove" => n = c[at])
  <2>1. c \in [1 .. m -> Nat]
    BY <1>2, <1>3
  <2> QED BY <1>0, <1>3, <1>c, <2>1
<1>6. Lists(r, c2, st2, at)
  <2>1. \A k \in 1 .. m : c2[k] <= r[k].len
    <3> SUFFICES ASSUME NEW k \in 1 .. m PROVE c2[k] <= r[k].len
      OBVIOUS
    <3>1. r[k].len \in Nat
      <4>1. r[k] \in KeptPackets
        BY <1>1, <1>2, ElementOfSeq
      <4> QED BY <4>1 DEF KeptPackets
    <3>2. c2[k] \in Nat /\ c2[k] <= c[k]
      BY <1>3, <1>4
    <3> QED BY <1>2, <1>3, <3>1, <3>2
  <2> QED BY <1>1, <1>2, <1>4, <1>5, <2>1 DEF Lists, CountOf
<1> DEFINE d == r[at].data
           l == r[at].len
           h == c[at]
<1>7. d \in Seq(Bytes) /\ l \in Nat /\ l <= Len(d) /\ h \in Nat /\ h <= l
  BY <1>2, <1>3 DEF KeptPackets
<1> HIDE DEF d, l, h
<1>8. PICK w : w = Unread(r[at], h)
  OBVIOUS
<1>9. PICK u : u = ReadPart(r[at], h, n)
  OBVIOUS
<1>10. PICK x : x = Unread(r[at], h - n)
  OBVIOUS
<1>13. w \in Seq(Bytes) /\ u \in Seq(Bytes) /\ x \in Seq(Bytes) /\ w = Joined(u, x)
  <2>1. n <= h /\ h <= r[at].len /\ r[at].len <= Len(r[at].data) /\ h \in Nat
    BY <1>0, <1>7 DEF h, l, d
  <2> QED BY ONLY <1>0, <1>3, <1>8, <1>9, <1>10, <2>1, UnreadSplit
<1>14. n = h => x = <<>>
  <2> SUFFICES ASSUME n = h PROVE x = <<>>
    OBVIOUS
  <2>1. x = Unread(r[at], 0)
    BY <1>7, <1>10
  <2>2. x = SubSeq(d, l - 0 + 1, l)
    BY <2>1 DEF Unread, d, l
  <2>3. l - 0 + 1 = l + 1 /\ l < l + 1 /\ l + 1 \in Int /\ l \in Int
    BY <1>7
  <2> QED BY ONLY <2>2, <2>3, SubSeqEmpty
<1>15. RestOf(r, c, "scan", at, p, at) = w
  BY <1>0, <1>8 DEF RestOf, CountOf, h
<1>16. RestOf(r, c2, st2, at, p, at) = x
  <2>1. CASE st2 = "idle"
    BY <1>0, <1>5, <1>10, <2>1 DEF RestOf, CountOf, h
  <2>2. CASE st2 = "remove"
    <3>1. n = h
      BY <1>5, <2>2 DEF h
    <3> QED BY <1>14, <2>2, <3>1 DEF RestOf
  <2> QED BY <1>5, <2>1, <2>2
<1>17. \A q : \A k \in 1 .. m : (k # at \/ q # p) =>
          RestOf(r, c2, st2, at, q, k) = RestOf(r, c, "scan", at, q, k)
  <2> SUFFICES ASSUME NEW q, NEW k \in 1 .. m, k # at \/ q # p
               PROVE  RestOf(r, c2, st2, at, q, k) = RestOf(r, c, "scan", at, q, k)
    OBVIOUS
  <2>1. CASE k = at
    BY <1>0, <2>1 DEF RestOf
  <2>2. CASE k # at
    BY <1>4, <1>5, <2>2 DEF RestOf, CountOf
  <2> QED BY <2>1, <2>2
<1>18. \A q : q # p => NotRead(r, c2, st2, at, q) = NotRead(r, c, "scan", at, q)
  <2> SUFFICES ASSUME NEW q, q # p
               PROVE  Rests(r, c2, st2, at, q) = Rests(r, c, "scan", at, q)
    BY DEF NotRead
  <2> QED BY <1>1, <1>17 DEF Rests
<1>19. PICK s : s = Rests(r, c, "scan", at, p)
  OBVIOUS
<1>20. PICK t : t = Rests(r, c2, st2, at, p)
  OBVIOUS
<1>21. s \in Seq(Seq(Bytes)) /\ Len(s) = m
  BY ONLY <1>0, <1>1, <1>19, RestsType
<1>22. t \in Seq(Seq(Bytes)) /\ Len(t) = m
  BY ONLY <1>6, <1>1, <1>20, RestsType
<1>23. \A k \in 1 .. m : /\ s[k] = RestOf(r, c, "scan", at, p, k)
                         /\ t[k] = RestOf(r, c2, st2, at, p, k)
  BY <1>1, <1>19, <1>20 DEF Rests
<1>24. \A k \in 1 .. m : k < at => s[k] = <<>> /\ t[k] = <<>>
  <2> SUFFICES ASSUME NEW k \in 1 .. m, k < at PROVE s[k] = <<>> /\ t[k] = <<>>
    OBVIOUS
  <2>1. r[k].port # p
    BY <1>0, <1>1
  <2> QED BY <1>23, <2>1 DEF RestOf
<1>25. \A k \in 1 .. m : k > at => s[k] = t[k]
  BY <1>3, <1>17, <1>23
<1>26. s[at] = Joined(u, t[at])
  BY <1>3, <1>13, <1>15, <1>16, <1>23
<1>27. FlattenSeq(s) = Joined(u, FlattenSeq(t))
  <2>1. FrontTaken(s, t, at, u)
    BY <1>3, <1>21, <1>22, <1>24, <1>25, <1>26 DEF FrontTaken
  <2> QED BY ONLY <1>13, <1>21, <1>22, <2>1, FlattenFront
<1>28. u = ReadPart(r[at], c[at], n)
  BY <1>9 DEF h
<1> QED BY <1>6, <1>13, <1>18, <1>19, <1>20, <1>27, <1>28 DEF NotRead

(* Where the main loop is matters only within a removal.                    *)
LEMMA StillWaits ==
    ASSUME NEW r, NEW c, NEW st, NEW at, Lists(r, c, st, at), st \in {"idle", "scan"},
           NEW st2 \in {"idle", "scan"}, NEW at2 \in Nat \ {0}
    PROVE  /\ Lists(r, c, st2, at2)
           /\ \A q : NotRead(r, c, st2, at2, q) = NotRead(r, c, st, at, q)
<1>1. \A k : CountOf(c, st2, at2, k) = CountOf(c, st, at, k)
  BY DEF CountOf
<1>2. \A q, k : RestOf(r, c, st2, at2, q, k) = RestOf(r, c, st, at, q, k)
  BY <1>1 DEF RestOf
<1>3. Lists(r, c, st2, at2)
  BY <1>1 DEF Lists
<1>4. \A q : NotRead(r, c, st2, at2, q) = NotRead(r, c, st, at, q)
  BY <1>2 DEF NotRead, Rests
<1> QED BY <1>3, <1>4

(* A packet that holds nothing more is taken off the one list.              *)
LEMMA RemoveWaits ==
    ASSUME NEW r, NEW c, NEW at, Lists(r, c, "remove", at), at <= Len(r),
           NEW r2, r2 = RemoveAt(r, at)
    PROVE  /\ Lists(r2, c, "removeCount", at)
           /\ Len(r2) = Len(r) - 1 /\ at <= Len(r2) + 1
           /\ \A k \in 1 .. Len(r2) : k < at => r2[k] = r[k]
           /\ \A q : NotRead(r2, c, "removeCount", at, q) =
                     NotRead(r, c, "remove", at, q)
<1>1. PICK n \in Nat : n = Len(r)
  BY LenProperties DEF Lists
<1>2. /\ r \in Seq(KeptPackets) /\ c \in Seq(Nat) /\ at \in Nat \ {0} /\ Len(c) = n
      /\ at \in 1 .. n
      /\ \A k \in 1 .. n : r[k].len <= Len(r[k].data) /\ c[k] <= r[k].len
  BY <1>1 DEF Lists, CountOf
<1>3. /\ r2 \in Seq(KeptPackets) /\ Len(r2) = n - 1
      /\ \A k \in 1 .. (n - 1) : r2[k] = IF k < at THEN r[k] ELSE r[k + 1]
  BY <1>1, <1>2, RemoveAtProperties
<1>4. \A k \in 1 .. (n - 1) : CountOf(c, "removeCount", at, k) =
                                 IF k < at THEN c[k] ELSE c[k + 1]
  BY <1>2 DEF CountOf
<1>5. \A k \in 1 .. (n - 1) : k \in 1 .. n /\ k + 1 \in 1 .. n
  OBVIOUS
<1>6. Lists(r2, c, "removeCount", at)
  <2>1. \A k \in 1 .. (n - 1) : /\ r2[k].len <= Len(r2[k].data)
                                /\ CountOf(c, "removeCount", at, k) <= r2[k].len
    BY <1>2, <1>3, <1>4, <1>5
  <2> QED BY <1>1, <1>2, <1>3, <2>1 DEF Lists
<1>7. ASSUME NEW q
      PROVE  NotRead(r2, c, "removeCount", at, q) = NotRead(r, c, "remove", at, q)
  <2>1. PICK s : s = Rests(r, c, "remove", at, q)
    OBVIOUS
  <2>2. PICK t : t = Rests(r2, c, "removeCount", at, q)
    OBVIOUS
  <2>3. s \in Seq(Seq(Bytes)) /\ Len(s) = n
    BY ONLY Lists(r, c, "remove", at), <1>1, <2>1, RestsType
  <2>4. t \in Seq(Seq(Bytes)) /\ Len(t) = n - 1
    BY ONLY <1>3, <1>6, <2>2, RestsType
  <2>5. \A k \in 1 .. n : s[k] = RestOf(r, c, "remove", at, q, k)
    BY <1>1, <2>1 DEF Rests
  <2>6. \A k \in 1 .. (n - 1) : t[k] = RestOf(r2, c, "removeCount", at, q, k)
    BY <1>3, <2>2 DEF Rests
  <2>7. s[at] = <<>>
    BY <1>2, <2>5 DEF RestOf
  <2>8. \A k \in 1 .. (n - 1) : t[k] = IF k < at THEN s[k] ELSE s[k + 1]
    <3> SUFFICES ASSUME NEW k \in 1 .. (n - 1)
                 PROVE  t[k] = IF k < at THEN s[k] ELSE s[k + 1]
      OBVIOUS
    <3>1. CASE k < at
      <4>1. r2[k] = r[k] /\ CountOf(c, "removeCount", at, k) = c[k]
        BY <1>3, <1>4, <3>1
      <4>2. k # at /\ CountOf(c, "remove", at, k) = c[k]
        BY <1>2, <3>1 DEF CountOf
      <4>3. t[k] = RestOf(r, c, "remove", at, q, k)
        BY <2>6, <4>1, <4>2 DEF RestOf
      <4> QED BY <1>5, <2>5, <3>1, <4>3
    <3>2. CASE ~(k < at)
      <4>1. r2[k] = r[k + 1] /\ CountOf(c, "removeCount", at, k) = c[k + 1]
        BY <1>3, <1>4, <3>2
      <4>2. k + 1 # at /\ CountOf(c, "remove", at, k + 1) = c[k + 1]
        BY <1>2, <3>2 DEF CountOf
      <4>3. t[k] = RestOf(r, c, "remove", at, q, k + 1)
        BY <2>6, <4>1, <4>2 DEF RestOf
      <4> QED BY <1>5, <2>5, <3>2, <4>3
    <3> QED BY <3>1, <3>2
  <2>9. FlattenSeq(s) = FlattenSeq(t)
    <3>1. /\ at \in 1 .. Len(s) /\ Len(t) = Len(s) - 1
          /\ \A k \in 1 .. Len(t) : t[k] = IF k < at THEN s[k] ELSE s[k + 1]
      BY <1>2, <2>3, <2>4, <2>8
    <3> QED BY ONLY <2>3, <2>4, <2>7, <3>1, FlattenLeftOut
  <2> QED BY <2>1, <2>2, <2>9 DEF NotRead
<1>8. at <= Len(r2) + 1 /\ Len(r2) = Len(r) - 1
  BY <1>1, <1>2, <1>3
<1>9. \A k \in 1 .. Len(r2) : k < at => r2[k] = r[k]
  BY <1>3
<1> QED BY <1>6, <1>7, <1>8, <1>9

(* Its count is taken off the other.                                        *)
LEMMA RemoveCountWaits ==
    ASSUME NEW r, NEW c, NEW at, Lists(r, c, "removeCount", at), at <= Len(r) + 1,
           NEW c2, c2 = RemoveAt(c, at),
           NEW st2 \in {"idle", "scan"}, NEW at2 \in Nat \ {0}
    PROVE  /\ Lists(r, c2, st2, at2)
           /\ \A q : NotRead(r, c2, st2, at2, q) =
                     NotRead(r, c, "removeCount", at, q)
<1>1. PICK n \in Nat : n = Len(r)
  BY LenProperties DEF Lists
<1>2. /\ r \in Seq(KeptPackets) /\ c \in Seq(Nat) /\ at \in Nat \ {0}
      /\ Len(c) = n + 1 /\ at \in 1 .. (n + 1)
      /\ \A k \in 1 .. n : /\ r[k].len <= Len(r[k].data)
                           /\ CountOf(c, "removeCount", at, k) <= r[k].len
  BY <1>1 DEF Lists
<1>3. /\ c2 \in Seq(Nat) /\ Len(c2) = n
      /\ \A k \in 1 .. n : c2[k] = IF k < at THEN c[k] ELSE c[k + 1]
  <2>1. /\ at \in 1 .. Len(c) /\ Len(c) - 1 = n
    BY <1>2
  <2> QED BY <1>2, <2>1, RemoveAtProperties
<1>4. \A k \in 1 .. n : CountOf(c2, st2, at2, k) = CountOf(c, "removeCount", at, k)
  BY <1>2, <1>3 DEF CountOf
<1>5. Lists(r, c2, st2, at2)
  BY <1>1, <1>2, <1>3, <1>4 DEF Lists
<1>6. \A q : \A k \in 1 .. n : RestOf(r, c2, st2, at2, q, k) =
                               RestOf(r, c, "removeCount", at, q, k)
  BY <1>4 DEF RestOf
<1>7. \A q : NotRead(r, c2, st2, at2, q) = NotRead(r, c, "removeCount", at, q)
  BY <1>1, <1>6 DEF NotRead, Rests
<1> QED BY <1>5, <1>7

-----------------------------------------------------------------------------
(* What a list holds: while the main loop is within a RemoveAt, having moved *)
(* its elements down, the last one counts no more.  So a removal is over for *)
(* these lists when the elements are moved.                                  *)
Held == IF readStep = "dropPacket" THEN SubSeq(receivedPackets, 1, Len(receivedPackets) - 1)
        ELSE receivedPackets

HeldCounts ==
    IF readStep = "dropCount"
    THEN SubSeq(receivedPacketsRemainingCount, 1, Len(receivedPacketsRemainingCount) - 1)
    ELSE receivedPacketsRemainingCount

HeldStep == IF readStep = "dropPacket" THEN "removeCount"
            ELSE IF readStep = "dropCount" THEN "scan" ELSE readStep

(* The inductive invariant, until a packet is added between the two halves   *)
(* of a RemoveAt: the types, the two lists, that the main loop has passed no *)
(* packet of its port, and that what came for a port is what was read from   *)
(* it followed by what waits for it.                                         *)
TcpTypes ==
    /\ connectedPorts \in Seq(Ports) /\ IsInjective(connectedPorts)
    /\ readStep \in {"idle", "scan", "remove", "dropPacket", "removeCount", "dropCount"}
    /\ nextStep \in {"idle", "scan"}
    /\ port \in Ports \cup {NoPort} /\ wanted \in Nat
    /\ arrived \in [Ports -> Seq(Bytes)] /\ got \in [Ports -> Seq(Bytes)]

WholePackets == {packet \in KeptPackets : packet.len <= Len(packet.data)}

TcpLists ==
    /\ Lists(Held, HeldCounts, HeldStep, place)
    /\ receivedPackets \in Seq(WholePackets) /\ receivedPacketsRemainingCount \in Seq(Nat)
    /\ readStep = "dropPacket" => receivedPackets # <<>>
    /\ readStep = "dropCount" => receivedPacketsRemainingCount # <<>>

NonePassed ==
    /\ readStep # "idle" =>
          /\ port \in Ports /\ place <= Len(Held) + 1
          /\ \A k \in 1 .. Len(Held) : k < place => Held[k].port # port
    /\ readStep = "remove" => place <= Len(Held)

WaitingFor(p) ==
    NotRead(Held, HeldCounts, HeldStep, place, p)

Streams == \A p \in Ports : arrived[p] = Joined(got[p], WaitingFor(p))

TcpInv == between = 0 /\ TcpTypes /\ TcpLists /\ NonePassed /\ Streams

LEMMA HeldElsewhere ==
    ASSUME ~Dropping
    PROVE  /\ Held = receivedPackets /\ HeldCounts = receivedPacketsRemainingCount
           /\ HeldStep = readStep
  BY DEF Dropping, Held, HeldCounts, HeldStep

LEMMA HeldElsewhereNext ==
    ASSUME ~Dropping'
    PROVE  /\ Held' = receivedPackets' /\ HeldCounts' = receivedPacketsRemainingCount'
           /\ HeldStep' = readStep'
  BY DEF Dropping, Held, HeldCounts, HeldStep

TcpKept == between \in Nat /\ (between = 0 => TcpInv)

(* The halves of a RemoveAt: the elements moved down are the list without    *)
(* the one removed, and one more; and that one goes.                         *)
LEMMA MovedDownIs ==
    ASSUME NEW S, NEW list \in Seq(S), NEW k \in 1 .. Len(list)
    PROVE  /\ MovedDown(list, k) \in Seq(S) /\ MovedDown(list, k) # <<>>
           /\ SubSeq(MovedDown(list, k), 1, Len(MovedDown(list, k)) - 1) = RemoveAt(list, k)
<1>1. PICK n \in Nat : n = Len(list)
  BY LenProperties
<1>2. PICK x : x = Last(list)
  OBVIOUS
<1>3. n \in 1 .. n /\ x = list[n]
  BY <1>1, <1>2 DEF Last
<1>4. x \in S
  BY <1>1, <1>3, ElementOfSeq
<1>5. PICK s : s = RemoveAt(list, k)
  OBVIOUS
<1>6. s \in Seq(S) /\ Len(s) = n - 1
  BY <1>1, <1>5, RemoveAtProperties
<1>7. PICK t : t = Append(s, x)
  OBVIOUS
<1>8. /\ t \in Seq(S) /\ Len(t) = n
      /\ \A i \in 1 .. (n - 1) : t[i] = s[i]
  BY <1>4, <1>6, <1>7, AppendProperties
<1>9. SubSeq(t, 1, Len(t) - 1) = s
  <2>1. PICK u : u = SubSeq(t, 1, Len(t) - 1)
    OBVIOUS
  <2>2. u \in Seq(S) /\ Len(u) = n - 1 /\ \A i \in 1 .. (n - 1) : u[i] = t[i]
    BY <1>1, <1>3, <1>8, <2>1, SubSeqProperties
  <2>3. u = s
    BY <1>6, <1>8, <2>2, SeqEqual
  <2> QED BY <2>1, <2>3
<1>10. t # <<>>
  BY <1>3, <1>8
<1> QED BY <1>2, <1>5, <1>7, <1>8, <1>9, <1>10 DEF MovedDown

LEMMA CountedDownIs ==
    ASSUME NEW list, NEW after \in CountedDown(list), between = 0, Len(list) \in Nat
    PROVE  after = SubSeq(list, 1, Len(list) - 1)
<1>1. PICK n \in (Len(list) - 0 - 1) .. (Len(list) - 1) : after = SubSeq(list, 1, n)
  BY DEF CountedDown
<1>2. n = Len(list) - 1
  BY <1>1
<1> QED BY <1>1, <1>2

LEMMA LensAreNat == \A len \in Lens : len \in Nat
  BY TcpAssumption

LEMMA PayloadsAreBytes == \A data \in Payloads : data \in Seq(Bytes)
  BY TcpAssumption DEF Bytes

LEMMA WaitingType ==
    ASSUME TcpInv, NEW p
    PROVE  WaitingFor(p) \in Seq(Bytes)
<1>1. Rests(Held, HeldCounts, HeldStep, place, p)
         \in Seq(Seq(Bytes))
  BY RestsType DEF TcpInv, TcpLists
<1> QED BY <1>1, FlattenType DEF WaitingFor, NotRead

LEMMA TcpInitInv == TcpInit => TcpInv
<1> SUFFICES ASSUME TcpInit PROVE TcpInv
  OBVIOUS
<1> USE DEF TcpInit
<1>1. TcpTypes
  <2>1. <<>> \in Seq(Ports) /\ IsInjective(<<>>)
    BY DEF IsInjective
  <2>2. arrived \in [Ports -> Seq(Bytes)] /\ got \in [Ports -> Seq(Bytes)]
    OBVIOUS
  <2> QED BY <2>1, <2>2 DEF TcpTypes
<1>2. Held = <<>> /\ HeldCounts = <<>> /\ HeldStep = "idle"
  BY DEF Held, HeldCounts, HeldStep
<1>3. TcpLists /\ NonePassed
  BY <1>2 DEF TcpLists, Lists, NonePassed
<1>4. Streams
  <2> SUFFICES ASSUME NEW p \in Ports PROVE arrived[p] = Joined(got[p], WaitingFor(p))
    BY DEF Streams
  <2>1. PICK s : s = Rests(Held, HeldCounts, HeldStep, place, p)
    OBVIOUS
  <2>2. s \in Seq(Seq(Bytes)) /\ Len(s) = 0
    <3>1. Len(Held) = 0
      BY <1>2
    <3> QED BY ONLY <1>3, <2>1, <3>1, RestsType DEF TcpLists
  <2>3. s = <<>>
    BY ONLY <2>2, EmptySeq
  <2>4. WaitingFor(p) = <<>>
    BY <2>1, <2>3, FlattenEmpty DEF WaitingFor, NotRead
  <2>5. arrived[p] = <<>> /\ got[p] = <<>> /\ <<>> \in Seq(Bytes)
    OBVIOUS
  <2> QED BY ONLY <2>4, <2>5, JoinedEmpty
<1> QED BY <1>1, <1>3, <1>4 DEF TcpInv

LEMMA StutterKeeps == TcpInv /\ UNCHANGED tcpVars => TcpInv'
  BY DEF TcpInv, TcpTypes, TcpLists, NonePassed, Streams, WaitingFor, tcpVars, lists,
         reader, Held, HeldCounts, HeldStep

LEMMA CommandKeeps ==
    ASSUME TcpInv, NEW p \in Ports, NEW connect \in BOOLEAN,
           HandleCommandPacket(p, connect)
    PROVE  TcpInv'
<1>1. UNCHANGED <<receivedPackets, receivedPacketsRemainingCount, readStep, nextStep,
                  port, wanted, place, arrived, got, between>>
  BY DEF HandleCommandPacket, lists, reader
<1>2. connectedPorts \in Seq(Ports) /\ IsInjective(connectedPorts)
  BY DEF TcpInv, TcpTypes
<1>3. Connected(p) \in Seq(Ports) /\ IsInjective(Connected(p))
  <2>1. CASE IsPortConnected(p)
    BY <1>2, <2>1 DEF Connected
  <2>2. CASE ~IsPortConnected(p)
    <3>1. p \in Ports \ Range(connectedPorts)
      BY <1>2, <2>2 DEF IsPortConnected, Contains, Range
    <3>2. IsInjective(Append(connectedPorts, p))
      BY ONLY <1>2, <3>1, AppendedOnce
    <3> QED BY <1>2, <2>2, <3>2, AppendProperties DEF Connected
  <2> QED BY <2>1, <2>2
<1>4. Disconnected(p) \in Seq(Ports) /\ IsInjective(Disconnected(p))
  <2>1. Disconnected(p) = RemoveFirst(connectedPorts, p)
    BY DEF Disconnected, IsPortConnected, Contains, RemoveFirst
  <2> QED BY ONLY <1>2, <2>1, RemovedFirst
<1>5. connectedPorts' \in Seq(Ports) /\ IsInjective(connectedPorts')
  BY <1>3, <1>4 DEF HandleCommandPacket
<1> QED BY <1>1, <1>5
        DEF TcpInv, TcpTypes, TcpLists, NonePassed, Streams, WaitingFor, Held, HeldCounts,
            HeldStep

LEMMA SendKeeps ==
    ASSUME TcpInv, NEW p, NEW data, SendData(p, data)
    PROVE  TcpInv'
  BY DEF SendData, lists, reader, TcpInv, TcpTypes, TcpLists, NonePassed, Streams,
         WaitingFor, Held, HeldCounts, HeldStep

(* Steps between which the lists and the history stay as they are, and the  *)
(* main loop removes nothing.                                               *)
LEMMA StillKeeps ==
    ASSUME TcpInv, readStep \in {"idle", "scan"}, readStep' \in {"idle", "scan"},
           UNCHANGED <<connectedPorts, receivedPackets, receivedPacketsRemainingCount,
                       nextStep, arrived, got, between>>,
           port' \in Ports \cup {NoPort}, wanted' \in Nat, place' \in Nat \ {0},
           NonePassed'
    PROVE  TcpInv'
<1>0. /\ Held' = Held /\ HeldCounts' = HeldCounts
      /\ HeldStep = readStep /\ HeldStep' = readStep'
  BY DEF Held, HeldCounts, HeldStep
<1>1. TcpLists' /\ \A q : WaitingFor(q)' = WaitingFor(q)
  <2>1. TcpLists
    BY DEF TcpInv
  <2>2. PICK st2 : st2 = HeldStep'
    OBVIOUS
  <2>3. PICK at2 : at2 = place'
    OBVIOUS
  <2>4. /\ Lists(Held, HeldCounts, st2, at2)
        /\ \A q : NotRead(Held, HeldCounts, st2, at2, q) =
                  NotRead(Held, HeldCounts, HeldStep, place, q)
    BY <1>0, <2>1, <2>2, <2>3, StillWaits DEF TcpLists
  <2> QED BY <1>0, <2>1, <2>2, <2>3, <2>4 DEF TcpLists, WaitingFor
<1>2. Streams'
  BY <1>1 DEF TcpInv, Streams
<1> QED BY <1>1, <1>2 DEF TcpInv, TcpTypes

LEMMA ReadDataKeeps ==
    ASSUME TcpInv, NEW p \in Ports, NEW len \in Lens, ReadData(p, len)
    PROVE  TcpInv'
<1>1. len \in Nat
  BY LensAreNat
<1>2. Len(Held) \in Nat
  BY LenProperties DEF TcpInv, TcpLists, Lists
<1>3. NonePassed'
  BY <1>2 DEF ReadData, lists, NonePassed, Held
<1> QED BY <1>1, <1>3, StillKeeps DEF ReadData, lists

LEMMA ReadAllKeeps ==
    ASSUME TcpInv, ReadAll
    PROVE  TcpInv'
<1>1. NonePassed'
  BY DEF ReadAll, NonePassed
<1> QED BY <1>1, StillKeeps DEF ReadAll, lists

LEMMA SkipKeeps ==
    ASSUME TcpInv, SkipPacket
    PROVE  TcpInv'
<1>1. Len(receivedPackets) \in Nat /\ place \in Nat \ {0}
  BY LenProperties DEF TcpInv, TcpLists, Lists
<1>2. NonePassed'
  BY <1>1 DEF SkipPacket, lists, NonePassed, TcpInv, Held
<1>3. wanted \in Nat /\ port \in Ports \cup {NoPort}
  BY DEF TcpInv, TcpTypes
<1> QED BY <1>1, <1>2, <1>3, StillKeeps DEF SkipPacket, lists

LEMMA ArriveKeeps ==
    ASSUME TcpInv, NEW p \in Ports, NEW data \in Payloads, NEW len \in 0 .. Len(data),
           AddPacket(p, data, len)
    PROVE  TcpKept'
<1>0. SUFFICES ASSUME ~Dropping PROVE TcpInv'
  BY DEF AddPacket, TcpInv, TcpKept
<1>1. data \in Seq(Bytes) /\ Len(data) \in Nat
  <2>1. data \in Seq(Bytes)
    BY PayloadsAreBytes
  <2> QED BY <2>1, LenProperties
<1>2. PICK x : x = [port |-> p, data |-> data, len |-> len]
  OBVIOUS
<1>3. x \in KeptPackets /\ x.len <= Len(x.data) /\ x.port = p /\ x.len = len
      /\ x.data = data
  BY <1>1, <1>2 DEF KeptPackets
<1>4. /\ receivedPackets' = Append(receivedPackets, x)
      /\ receivedPacketsRemainingCount' = Append(receivedPacketsRemainingCount, x.len)
      /\ arrived' = [arrived EXCEPT ![p] = arrived[p] \o SubSeq(data, 1, len)]
      /\ UNCHANGED <<connectedPorts, readStep, nextStep, port, wanted, place, got, between>>
  BY <1>0, <1>2, <1>3 DEF AddPacket, reader
<1>h. /\ Held = receivedPackets /\ HeldCounts = receivedPacketsRemainingCount
      /\ HeldStep = readStep
      /\ Held' = receivedPackets' /\ HeldCounts' = receivedPacketsRemainingCount'
      /\ HeldStep' = readStep'
  BY <1>0, <1>4 DEF Dropping, Held, HeldCounts, HeldStep
<1>5. /\ receivedPackets \in Seq(KeptPackets) /\ Len(receivedPackets) \in Nat
      /\ place \in Nat
      /\ readStep = "removeCount" => place <= Len(receivedPackets) + 1
      /\ readStep = "remove" => place <= Len(receivedPackets)
  BY <1>h, LenProperties DEF TcpInv, TcpLists, Lists, NonePassed
<1>6. /\ TcpLists'
      /\ \A q : /\ WaitingFor(q)' = Joined(WaitingFor(q), ArrivedFor(x, q))
               /\ ArrivedFor(x, q) \in Seq(Bytes)
  <2>1. Arrives(receivedPackets, receivedPacketsRemainingCount, readStep, place, x,
                receivedPackets', receivedPacketsRemainingCount')
    BY <1>h, <1>3, <1>4, <1>5 DEF Arrives, TcpInv, TcpLists
  <2>2. receivedPackets' \in Seq(WholePackets) /\ receivedPacketsRemainingCount' \in Seq(Nat)
    <3>1. x \in WholePackets /\ x.len \in Nat
      BY <1>1, <1>3 DEF WholePackets
    <3>2. receivedPackets \in Seq(WholePackets) /\ receivedPacketsRemainingCount \in Seq(Nat)
      BY DEF TcpInv, TcpLists
    <3> QED BY <1>4, <3>1, <3>2, AppendProperties
  <2> QED BY <1>0, <1>h, <1>4, <2>1, <2>2, ArriveWaits DEF TcpLists, WaitingFor, Dropping
<1>7. PICK u : u = Unread(x, len)
  OBVIOUS
<1>8. u = SubSeq(data, 1, len) /\ u \in Seq(Bytes)
  <2>1. len \in Nat /\ len <= Len(data) /\ len - len + 1 = 1
    BY <1>1
  <2>2. u = SubSeq(data, 1, len)
    BY <1>3, <1>7, <2>1 DEF Unread
  <2>3. u \in Seq(Bytes)
    <3>1. len \in Nat /\ len <= x.len /\ 0 \in Nat /\ 0 <= len
      BY <1>3, <2>1
    <3>2. Unread(x, len) \in Seq(Bytes)
      BY ONLY <1>3, <3>1, UnreadSplit
    <3> QED BY <1>7, <3>2
  <2> QED BY <2>2, <2>3
<1>9. TcpTypes'
  <2>1. arrived \in [Ports -> Seq(Bytes)] /\ arrived[p] \in Seq(Bytes)
    BY DEF TcpInv, TcpTypes
  <2>2. arrived[p] \o u \in Seq(Bytes)
    BY <1>8, <2>1, ConcatProperties
  <2> DEFINE w == arrived[p] \o u
  <2> HIDE DEF w
  <2>3. arrived' = [arrived EXCEPT ![p] = w] /\ w \in Seq(Bytes)
    BY <1>4, <1>8, <2>2 DEF w
  <2>4. arrived' \in [Ports -> Seq(Bytes)]
    BY <2>1, <2>3
  <2> QED BY <1>4, <2>4 DEF TcpInv, TcpTypes
<1>10. NonePassed'
  <2>1. /\ Len(receivedPackets') = Len(receivedPackets) + 1
        /\ \A k \in 1 .. Len(receivedPackets) : receivedPackets'[k] = receivedPackets[k]
    BY <1>3, <1>4, <1>5, AppendProperties
  <2>2. readStep # "idle" => place <= Len(receivedPackets) + 1
    BY <1>h DEF TcpInv, NonePassed
  <2>3. \A k \in 1 .. (Len(receivedPackets) + 1) :
            k < place /\ place <= Len(receivedPackets) + 1 => k \in 1 .. Len(receivedPackets)
    BY <1>5
  <2> QED BY <1>h, <1>4, <1>5, <2>1, <2>2, <2>3 DEF TcpInv, NonePassed
<1>11. ASSUME NEW q \in Ports PROVE arrived'[q] = Joined(got'[q], WaitingFor(q)')
  <2>1. PICK y : y = ArrivedFor(x, q)
    OBVIOUS
  <2>2. PICK w : w = WaitingFor(q)
    OBVIOUS
  <2>3. y = IF p = q THEN u ELSE <<>>
    BY <1>3, <1>7, <2>1 DEF ArrivedFor
  <2>4. y \in Seq(Bytes) /\ WaitingFor(q)' = Joined(w, y)
    BY <1>6, <2>1, <2>2
  <2>7. w \in Seq(Bytes)
    BY <2>2, WaitingType
  <2>9. PICK g : g = got[q]
    OBVIOUS
  <2>10. g \in Seq(Bytes) /\ got'[q] = g /\ arrived[q] = Joined(g, w)
    BY <1>4, <2>2, <2>9 DEF TcpInv, TcpTypes, Streams
  <2>11. Joined(g, Joined(w, y)) = Joined(Joined(g, w), y)
    BY ONLY <2>4, <2>7, <2>10, JoinedRegroup
  <2>12. arrived'[q] = Joined(arrived[q], y)
    <3>1. arrived \in [Ports -> Seq(Bytes)]
      BY DEF TcpInv, TcpTypes
    <3>2. CASE p = q
      <4> DEFINE v == arrived[p] \o SubSeq(data, 1, len)
      <4>1. v = Joined(arrived[q], y)
        BY <1>8, <2>3, <3>2 DEF Joined
      <4>2. arrived' = [arrived EXCEPT ![p] = v]
        BY <1>4
      <4> HIDE DEF v
      <4>3. arrived'[p] = v
        BY <3>1, <4>2
      <4> QED BY <3>2, <4>1, <4>3
    <3>3. CASE p # q
      <4>1. arrived'[q] = arrived[q] /\ y = <<>> /\ arrived[q] \in Seq(Bytes)
        BY <1>4, <2>3, <3>1, <3>3
      <4>2. Joined(arrived[q], y) = arrived[q]
        BY ONLY <4>1, JoinedEmpty
      <4> QED BY <4>1, <4>2
    <3> QED BY <3>2, <3>3
  <2> QED BY <2>4, <2>10, <2>11, <2>12
<1> QED BY <1>4, <1>6, <1>9, <1>10, <1>11 DEF TcpInv, Streams

LEMMA ReadPartKeeps ==
    ASSUME TcpInv, ReadPacket
    PROVE  TcpInv'
<1>1. PICK r : r = receivedPackets
  OBVIOUS
<1>2. PICK c : c = receivedPacketsRemainingCount
  OBVIOUS
<1>3. PICK at : at = place
  OBVIOUS
<1>h. /\ Held = r /\ HeldCounts = c /\ HeldStep = "scan"
      /\ Held' = receivedPackets' /\ HeldCounts' = receivedPacketsRemainingCount'
      /\ HeldStep' = readStep' /\ between' = between
  BY <1>1, <1>2 DEF ReadPacket, Held, HeldCounts, HeldStep
<1>4. /\ readStep = "scan" /\ at <= Len(r) /\ r[at].port = port /\ port \in Ports
      /\ Lists(r, c, "scan", at)
      /\ \A k \in 1 .. Len(r) : k < at => r[k].port # port
      /\ at \in 1 .. Len(r) /\ wanted \in Nat
  <2>1. readStep = "scan" /\ at <= Len(r) /\ r[at].port = port
    BY <1>1, <1>3 DEF ReadPacket
  <2>2. Lists(r, c, "scan", at)
    BY <1>h, <1>3 DEF TcpInv, TcpLists
  <2>3. at \in Nat \ {0} /\ Len(r) \in Nat
    BY <2>2, LenProperties DEF Lists
  <2>4. port \in Ports /\ \A k \in 1 .. Len(r) : k < at => r[k].port # port
    BY <1>h, <1>3, <2>1 DEF TcpInv, NonePassed
  <2> QED BY <2>1, <2>2, <2>3, <2>4 DEF TcpInv, TcpTypes
<1>5. c[at] \in Nat
  <2>1. CountOf(c, "scan", at, at) = c[at]
    BY DEF CountOf
  <2> QED BY <1>4, <2>1, CountIsNat
<1>6. PICK n : n = IF wanted < c[at] THEN wanted ELSE c[at]
  OBVIOUS
<1>7. n \in Nat /\ n <= c[at] /\ n <= wanted /\ (n # wanted => n = c[at])
  BY <1>4, <1>5, <1>6
<1>8. PICK c2 : c2 = receivedPacketsRemainingCount'
  OBVIOUS
<1>9. PICK st2 : st2 = readStep'
  OBVIOUS
<1>10. /\ got' = [got EXCEPT ![port] = got[port] \o SubSeq(Unread(r[at], c[at]), 1, n)]
       /\ c2 = IF n = wanted THEN [c EXCEPT ![at] = c[at] - n] ELSE c
       /\ wanted' = wanted - n
       /\ nextStep' = IF n = wanted THEN "idle" ELSE "scan"
       /\ st2 = IF n = wanted /\ n < c[at] THEN "idle" ELSE "remove"
       /\ port' = IF n = wanted /\ n < c[at] THEN NoPort ELSE port
       /\ place' = IF n = wanted /\ n < c[at] THEN 1 ELSE at
       /\ UNCHANGED <<connectedPorts, receivedPackets, arrived>>
  BY <1>1, <1>2, <1>3, <1>6, <1>8, <1>9 DEF ReadPacket
<1>11. \/ c2 = c /\ st2 = "remove" /\ n = c[at]
       \/ c2 = [c EXCEPT ![at] = c[at] - n]
             /\ (st2 = "idle" \/ (st2 = "remove" /\ n = c[at]))
  BY <1>5, <1>7, <1>10
<1>12. PICK u : u = ReadPart(r[at], c[at], n)
  OBVIOUS
<1>13. /\ Lists(r, c2, st2, at) /\ u \in Seq(Bytes)
       /\ NotRead(r, c, "scan", at, port) =
             Joined(u, NotRead(r, c2, st2, at, port))
       /\ \A q : q # port =>
             NotRead(r, c2, st2, at, q) = NotRead(r, c, "scan", at, q)
  <2>1. Reads(r, c, at, port, n, c2, st2)
    BY <1>4, <1>7, <1>11 DEF Reads
  <2> QED BY ONLY <1>12, <2>1, ReadFront
<1>14. /\ TcpLists'
       /\ \A q : WaitingFor(q)' = NotRead(r, c2, st2, at, q)
  <2>0. /\ receivedPackets' \in Seq(WholePackets) /\ receivedPacketsRemainingCount' \in Seq(Nat)
        /\ readStep' # "dropPacket" /\ readStep' # "dropCount"
    <3>1. receivedPackets \in Seq(WholePackets)
      BY DEF TcpInv, TcpLists
    <3>2. c2 \in Seq(Nat)
      BY <1>13 DEF Lists
    <3> QED BY <1>8, <1>9, <1>10, <3>1, <3>2
  <2>1. CASE place' = at
    BY <1>h, <1>1, <1>8, <1>9, <1>10, <1>13, <2>0, <2>1 DEF TcpLists, WaitingFor
  <2>2. CASE place' # at
    <3>1. st2 = "idle" /\ place' = 1 /\ 1 \in Nat \ {0}
      BY <1>10, <2>2
    <3>2. /\ Lists(r, c2, "idle", 1)
          /\ \A q : NotRead(r, c2, "idle", 1, q) = NotRead(r, c2, "idle", at, q)
      BY <1>13, <3>1, StillWaits
    <3> QED BY <1>h, <1>1, <1>8, <1>9, <1>10, <2>0, <3>1, <3>2 DEF TcpLists, WaitingFor
  <2> QED BY <2>1, <2>2
<1>15. got \in [Ports -> Seq(Bytes)] /\ got[port] \in Seq(Bytes)
  BY <1>4 DEF TcpInv, TcpTypes
<1>16. /\ got' \in [Ports -> Seq(Bytes)] /\ got'[port] = Joined(got[port], u)
       /\ \A q \in Ports : q # port => got'[q] = got[q]
  <2>1. Joined(got[port], u) \in Seq(Bytes)
    BY ONLY <1>13, <1>15, JoinedType
  <2> DEFINE v == Joined(got[port], u)
  <2>2. got' = [got EXCEPT ![port] = v]
    BY <1>10, <1>12 DEF Joined, ReadPart
  <2>3. v \in Seq(Bytes) /\ v = Joined(got[port], u)
    BY <2>1
  <2> HIDE DEF v
  <2> QED BY <1>4, <1>15, <2>2, <2>3
<1>17. TcpTypes'
  <2>1. readStep' \in {"idle", "scan", "remove", "dropPacket", "removeCount", "dropCount"}
    BY <1>9, <1>10
  <2>2. nextStep' \in {"idle", "scan"} /\ port' \in Ports \cup {NoPort}
    BY <1>4, <1>10
  <2>3. wanted' \in Nat
    BY <1>4, <1>7, <1>10
  <2> QED BY <1>10, <1>16, <2>1, <2>2, <2>3 DEF TcpInv, TcpTypes
<1>18. NonePassed'
  BY <1>h, <1>1, <1>4, <1>9, <1>10 DEF NonePassed, TcpInv
<1>19. ASSUME NEW q \in Ports PROVE arrived'[q] = Joined(got'[q], WaitingFor(q)')
  <2>1. arrived'[q] = Joined(got[q], NotRead(r, c, "scan", at, q))
    BY <1>h, <1>3, <1>4, <1>10 DEF TcpInv, Streams, WaitingFor
  <2>2. PICK w : w = NotRead(r, c2, st2, at, q)
    OBVIOUS
  <2>3. w \in Seq(Bytes)
    <3>1. Rests(r, c2, st2, at, q) \in Seq(Seq(Bytes))
      BY <1>13, RestsType
    <3> QED BY <2>2, <3>1, FlattenType DEF NotRead
  <2>4. CASE q = port
    <3>1. PICK g \in Seq(Bytes) : g = got[port]
      BY <1>15
    <3>2. arrived'[q] = Joined(g, Joined(u, w))
      BY <1>13, <2>1, <2>2, <2>4, <3>1
    <3>3. Joined(Joined(g, u), w) = Joined(g, Joined(u, w))
      BY ONLY <1>13, <2>3, <3>1, JoinedRegroup
    <3> QED BY <1>14, <1>16, <2>2, <2>4, <3>1, <3>2, <3>3
  <2>5. CASE q # port
    BY <1>13, <1>14, <1>16, <2>1, <2>5
  <2> QED BY <2>4, <2>5
<1> QED BY <1>h, <1>14, <1>17, <1>18, <1>19 DEF TcpInv, Streams

LEMMA RemoveKeeps ==
    ASSUME TcpInv, RemovePacket
    PROVE  TcpInv'
<1>1. /\ readStep = "remove" /\ readStep' = "dropPacket" /\ between' = between
      /\ receivedPackets' = MovedDown(receivedPackets, place)
      /\ UNCHANGED <<connectedPorts, receivedPacketsRemainingCount, nextStep, port,
                     wanted, place, arrived, got>>
  BY DEF RemovePacket
<1>2. /\ Held = receivedPackets /\ HeldCounts = receivedPacketsRemainingCount
      /\ HeldStep = "remove" /\ HeldCounts' = HeldCounts /\ HeldStep' = "removeCount"
      /\ Held' = SubSeq(receivedPackets', 1, Len(receivedPackets') - 1)
  BY <1>1 DEF Held, HeldCounts, HeldStep
<1>3. /\ Lists(Held, HeldCounts, "remove", place)
      /\ place <= Len(Held) /\ receivedPackets \in Seq(WholePackets)
  BY <1>1, <1>2 DEF TcpInv, TcpLists, NonePassed
<1>4. /\ receivedPackets' \in Seq(WholePackets) /\ receivedPackets' # <<>>
      /\ Held' = RemoveAt(Held, place)
  <2>1. place \in 1 .. Len(receivedPackets)
    BY <1>2, <1>3, LenProperties DEF Lists
  <2> QED BY <1>1, <1>2, <1>3, <2>1, MovedDownIs
<1>5. PICK r2 : r2 = Held'
  OBVIOUS
<1>6. /\ Lists(r2, HeldCounts, "removeCount", place)
      /\ Len(r2) = Len(Held) - 1 /\ place <= Len(r2) + 1
      /\ \A k \in 1 .. Len(r2) : k < place => r2[k] = Held[k]
      /\ \A q : NotRead(r2, HeldCounts, "removeCount", place, q) =
                NotRead(Held, HeldCounts, "remove", place, q)
  BY <1>3, <1>4, <1>5, RemoveWaits
<1>7. TcpLists' /\ \A q : WaitingFor(q)' = WaitingFor(q)
  <2>1. receivedPacketsRemainingCount' \in Seq(Nat)
    BY <1>1 DEF TcpInv, TcpLists
  <2> QED BY <1>1, <1>2, <1>4, <1>5, <1>6, <2>1 DEF TcpLists, WaitingFor
<1>8. NonePassed'
  <2>1. Len(Held) \in Nat
    BY <1>3, LenProperties DEF Lists
  <2>2. port \in Ports /\ \A k \in 1 .. Len(Held) : k < place => Held[k].port # port
    BY <1>1 DEF TcpInv, NonePassed
  <2>3. \A k \in 1 .. Len(r2) : k \in 1 .. Len(Held)
    BY <1>6, <2>1
  <2> QED BY <1>1, <1>5, <1>6, <2>2, <2>3 DEF NonePassed
<1>9. TcpTypes'
  BY <1>1 DEF TcpInv, TcpTypes
<1>10. Streams'
  BY <1>1, <1>7 DEF TcpInv, Streams
<1> QED BY <1>1, <1>7, <1>8, <1>9, <1>10 DEF TcpInv

LEMMA DropPacketKeeps ==
    ASSUME TcpInv, DropPacket
    PROVE  TcpInv'
<1>1. /\ readStep = "dropPacket" /\ readStep' = "removeCount" /\ between' = between
      /\ receivedPackets' \in CountedDown(receivedPackets)
      /\ UNCHANGED <<connectedPorts, receivedPacketsRemainingCount, nextStep, port,
                     wanted, place, arrived, got>>
  BY DEF DropPacket
<1>2. receivedPackets \in Seq(WholePackets) /\ Len(receivedPackets) \in Nat
  BY LenProperties DEF TcpInv, TcpLists
<1>3. receivedPackets' = SubSeq(receivedPackets, 1, Len(receivedPackets) - 1)
  <2>1. PICK after \in CountedDown(receivedPackets) : after = receivedPackets'
    BY <1>1
  <2> QED BY <1>2, <2>1, CountedDownIs DEF TcpInv
<1>4. Held' = Held /\ HeldCounts' = HeldCounts /\ HeldStep' = HeldStep
  BY <1>1, <1>3 DEF Held, HeldCounts, HeldStep
<1>5. receivedPackets' \in Seq(WholePackets)
  <2>1. \A k \in 1 .. (Len(receivedPackets) - 1) : receivedPackets[k] \in WholePackets
    BY <1>2, ElementOfSeq
  <2>2. 1 \in Int /\ Len(receivedPackets) - 1 \in Int
    BY <1>2
  <2> QED BY <1>3, <2>1, <2>2, SubSeqProperties
<1>6. TcpLists' /\ \A q : WaitingFor(q)' = WaitingFor(q)
  BY <1>1, <1>4, <1>5 DEF TcpInv, TcpLists, WaitingFor
<1>7. NonePassed' /\ TcpTypes'
  BY <1>1, <1>4 DEF TcpInv, NonePassed, TcpTypes
<1>8. Streams'
  BY <1>1, <1>6 DEF TcpInv, Streams
<1> QED BY <1>1, <1>6, <1>7, <1>8 DEF TcpInv

LEMMA RemoveCountKeeps ==
    ASSUME TcpInv, RemoveCount
    PROVE  TcpInv'
<1>1. /\ readStep = "removeCount" /\ readStep' = "dropCount" /\ between' = between
      /\ receivedPacketsRemainingCount' = MovedDown(receivedPacketsRemainingCount, place)
      /\ UNCHANGED <<connectedPorts, receivedPackets, nextStep, port, wanted, place,
                     arrived, got>>
  BY DEF RemoveCount
<1>2. /\ Held = receivedPackets /\ HeldCounts = receivedPacketsRemainingCount
      /\ HeldStep = "removeCount" /\ Held' = Held /\ HeldStep' = "scan"
      /\ HeldCounts' = SubSeq(receivedPacketsRemainingCount', 1,
                              Len(receivedPacketsRemainingCount') - 1)
  BY <1>1 DEF Held, HeldCounts, HeldStep
<1>3. /\ Lists(Held, HeldCounts, "removeCount", place)
      /\ place <= Len(Held) + 1 /\ port \in Ports
      /\ \A k \in 1 .. Len(Held) : k < place => Held[k].port # port
  BY <1>1, <1>2 DEF TcpInv, TcpLists, NonePassed
<1>4. /\ receivedPacketsRemainingCount' \in Seq(Nat)
      /\ receivedPacketsRemainingCount' # <<>>
      /\ HeldCounts' = RemoveAt(HeldCounts, place)
  <2>1. place \in 1 .. Len(receivedPacketsRemainingCount)
    BY <1>2, <1>3, LenProperties DEF Lists
  <2>2. receivedPacketsRemainingCount \in Seq(Nat)
    BY DEF TcpInv, TcpLists
  <2> QED BY <1>1, <1>2, <2>1, <2>2, MovedDownIs
<1>5. PICK c2 : c2 = HeldCounts'
  OBVIOUS
<1>6. /\ Lists(Held, c2, "scan", place)
      /\ \A q : NotRead(Held, c2, "scan", place, q) =
                NotRead(Held, HeldCounts, "removeCount", place, q)
  <2>1. place \in Nat \ {0}
    BY <1>3 DEF Lists
  <2> QED BY <1>3, <1>4, <1>5, <2>1, RemoveCountWaits
<1>7. TcpLists' /\ \A q : WaitingFor(q)' = WaitingFor(q)
  <2>1. receivedPackets' \in Seq(WholePackets)
    BY <1>1 DEF TcpInv, TcpLists
  <2> QED BY <1>1, <1>2, <1>4, <1>5, <1>6, <2>1 DEF TcpLists, WaitingFor
<1>8. NonePassed'
  BY <1>1, <1>2, <1>3 DEF NonePassed
<1>9. TcpTypes'
  BY <1>1 DEF TcpInv, TcpTypes
<1>10. Streams'
  BY <1>1, <1>7 DEF TcpInv, Streams
<1> QED BY <1>1, <1>7, <1>8, <1>9, <1>10 DEF TcpInv

LEMMA DropCountKeeps ==
    ASSUME TcpInv, DropCount
    PROVE  TcpInv'
<1>1. /\ readStep = "dropCount" /\ readStep' = nextStep /\ between' = between
      /\ receivedPacketsRemainingCount' \in CountedDown(receivedPacketsRemainingCount)
      /\ port' = IF nextStep = "idle" THEN NoPort ELSE port
      /\ place' = IF nextStep = "idle" THEN 1 ELSE place
      /\ UNCHANGED <<connectedPorts, receivedPackets, nextStep, wanted, arrived, got>>
  BY DEF DropCount
<1>2. nextStep \in {"idle", "scan"} /\ port \in Ports
  BY <1>1 DEF TcpInv, TcpTypes, NonePassed
<1>3. /\ receivedPacketsRemainingCount \in Seq(Nat)
      /\ Len(receivedPacketsRemainingCount) \in Nat
  BY LenProperties DEF TcpInv, TcpLists
<1>4. receivedPacketsRemainingCount' =
         SubSeq(receivedPacketsRemainingCount, 1, Len(receivedPacketsRemainingCount) - 1)
  <2>1. PICK after \in CountedDown(receivedPacketsRemainingCount) :
           after = receivedPacketsRemainingCount'
    BY <1>1
  <2> QED BY <1>3, <2>1, CountedDownIs DEF TcpInv
<1>5. /\ Held' = Held /\ HeldCounts' = HeldCounts
      /\ HeldStep = "scan" /\ HeldStep' = readStep' /\ readStep' \in {"idle", "scan"}
      /\ receivedPacketsRemainingCount' = HeldCounts'
  BY <1>1, <1>2, <1>4 DEF Held, HeldCounts, HeldStep
<1>6. Lists(Held, HeldCounts, "scan", place) /\ place' \in Nat \ {0}
  BY <1>1, <1>5 DEF TcpInv, TcpLists, Lists
<1>7. PICK st2 : st2 = readStep'
  OBVIOUS
<1>8. PICK at2 : at2 = place'
  OBVIOUS
<1>9. /\ Lists(Held, HeldCounts, st2, at2)
      /\ \A q : NotRead(Held, HeldCounts, st2, at2, q) =
                NotRead(Held, HeldCounts, "scan", place, q)
  BY <1>5, <1>6, <1>7, <1>8, StillWaits
<1>10. TcpLists' /\ \A q : WaitingFor(q)' = WaitingFor(q)
  <2>1. receivedPackets' \in Seq(WholePackets) /\ HeldCounts \in Seq(Nat)
    BY <1>1, <1>9 DEF TcpInv, TcpLists, Lists
  <2> QED BY <1>5, <1>7, <1>8, <1>9, <2>1 DEF TcpLists, WaitingFor
<1>11. NonePassed'
  BY <1>1, <1>2, <1>5 DEF NonePassed, TcpInv
<1>12. TcpTypes'
  BY <1>1, <1>2, <1>5 DEF TcpInv, TcpTypes
<1>13. Streams'
  BY <1>1, <1>10 DEF TcpInv, Streams
<1> QED BY <1>1, <1>10, <1>11, <1>12, <1>13 DEF TcpInv

(* Once a packet came in between, nothing takes that back.                  *)
LEMMA BetweenStays ==
    ASSUME between \in Nat \ {0}, [TcpNext]_tcpVars
    PROVE  between' \in Nat \ {0}
<1>1. CASE Interrupt
  <2>1. ASSUME NEW p \in Ports, NEW connect \in BOOLEAN, HandleCommandPacket(p, connect)
        PROVE  between' = between
    BY <2>1 DEF HandleCommandPacket
  <2>2. ASSUME NEW p \in Ports, NEW data \in Payloads, NEW len \in 0 .. Len(data),
               AddPacket(p, data, len)
        PROVE  between' \in {between, between + 1}
    <3>1. between' = IF Dropping THEN between + 1 ELSE between
      BY <2>2 DEF AddPacket
    <3> QED BY <3>1
  <2>3. between' \in {between, between + 1}
    BY <1>1, <2>1, <2>2 DEF Interrupt
  <2> QED BY <2>3
<1>2. CASE Reading
  <2>1. between' = between
    <3>1. (ReadAll \/ SkipPacket \/ RemovePacket \/ DropPacket) => between' = between
      BY DEF ReadAll, SkipPacket, RemovePacket, DropPacket
    <3>2. (RemoveCount \/ DropCount) => between' = between
      BY DEF RemoveCount, DropCount
    <3>3. ReadPacket => between' = between
      BY DEF ReadPacket
    <3> QED BY <1>2, <3>1, <3>2, <3>3 DEF Reading
  <2> QED BY <2>1
<1>3. ASSUME NEW p \in Ports, NEW len \in Lens, ReadData(p, len) PROVE between' = between
  BY <1>3 DEF ReadData
<1>4. ASSUME NEW p \in Ports, NEW data \in Payloads, SendData(p, data)
      PROVE  between' = between
  BY <1>4 DEF SendData
<1>5. CASE UNCHANGED tcpVars
  BY <1>5 DEF tcpVars
<1> QED BY <1>1, <1>2, <1>3, <1>4, <1>5 DEF TcpNext

LEMMA TcpNextKeeps == TcpKept /\ [TcpNext]_tcpVars => TcpKept'
<1> SUFFICES ASSUME TcpKept, [TcpNext]_tcpVars PROVE TcpKept'
  OBVIOUS
<1>1. CASE between # 0
  BY <1>1, BetweenStays DEF TcpKept
<1>2. CASE between = 0
  <2> SUFFICES ASSUME TcpInv PROVE TcpKept'
    BY <1>2 DEF TcpKept
  <2>1. TcpInv' => TcpKept'
    BY DEF TcpInv, TcpKept
  <2>2. CASE Interrupt
    BY <2>1, <2>2, CommandKeeps, ArriveKeeps DEF Interrupt
  <2>3. CASE Reading
    BY <2>1, <2>3, ReadAllKeeps, SkipKeeps, ReadPartKeeps, RemoveKeeps, DropPacketKeeps,
       RemoveCountKeeps, DropCountKeeps DEF Reading
  <2>4. ASSUME NEW p \in Ports, NEW len \in Lens, ReadData(p, len) PROVE TcpInv'
    BY <2>4, ReadDataKeeps
  <2>5. ASSUME NEW p \in Ports, NEW data \in Payloads, SendData(p, data) PROVE TcpInv'
    BY <2>5, SendKeeps
  <2>6. CASE UNCHANGED tcpVars
    BY <2>1, <2>6, StutterKeeps
  <2> QED BY <2>1, <2>2, <2>3, <2>4, <2>5, <2>6 DEF TcpNext
<1> QED BY <1>1, <1>2

LEMMA ShortenedLen ==
    ASSUME NEW S, NEW list \in Seq(S), Len(list) # 0
    PROVE  Len(SubSeq(list, 1, Len(list) - 1)) = Len(list) - 1
<1>1. Len(list) \in Nat \ {0}
  BY LenProperties
<1>2. PICK n \in Nat : n = Len(list) - 1
  BY <1>1
<1>3. \A k \in 1 .. n : list[k] \in S
  BY <1>1, <1>2, ElementOfSeq
<1>4. 1 \in Int /\ n \in Int
  OBVIOUS
<1>5. Len(SubSeq(list, 1, n)) = IF 1 <= n THEN n - 1 + 1 ELSE 0
  BY ONLY <1>3, <1>4, SubSeqProperties
<1>6. Len(SubSeq(list, 1, n)) = n
  BY <1>2, <1>5
<1> QED BY <1>2, <1>6

(* What the inductive invariant says of the types the run checks.           *)
LEMMA TcpInvTypes == TcpInv => TcpTypeOK
<1> SUFFICES ASSUME TcpInv PROVE TcpTypeOK
  OBVIOUS
<1>1. TcpTypes /\ TcpLists
  BY DEF TcpInv
<1>2. \A p \in ToSet(connectedPorts) : p \in Ports
  BY <1>1 DEF TcpTypes, ToSet
<1>3. \A packet \in ToSet(receivedPackets) :
         packet.port \in Ports /\ packet.len \in 0 .. Len(packet.data)
  <2>1. receivedPackets \in Seq(WholePackets)
    BY <1>1 DEF TcpLists
  <2>2. ASSUME NEW k \in 1 .. Len(receivedPackets)
        PROVE  /\ receivedPackets[k].port \in Ports
               /\ receivedPackets[k].len \in 0 .. Len(receivedPackets[k].data)
    <3>1. /\ receivedPackets[k] \in KeptPackets
          /\ receivedPackets[k].len <= Len(receivedPackets[k].data)
      BY <2>1, ElementOfSeq DEF WholePackets
    <3>2. /\ receivedPackets[k].port \in Ports /\ receivedPackets[k].len \in Nat
          /\ receivedPackets[k].data \in Seq(Bytes)
      BY <3>1 DEF KeptPackets
    <3>3. Len(receivedPackets[k].data) \in Nat
      BY <3>2, LenProperties
    <3> QED BY <3>1, <3>2, <3>3
  <2>3. DOMAIN receivedPackets = 1 .. Len(receivedPackets)
    BY <2>1
  <2> QED BY <2>2, <2>3 DEF ToSet
<1>4. Len(receivedPacketsRemainingCount) = Len(receivedPackets) +
         IF readStep \in {"removeCount", "dropCount"} THEN 1 ELSE 0
  <2>1. /\ receivedPackets \in Seq(WholePackets) /\ Len(receivedPackets) \in Nat
        /\ receivedPacketsRemainingCount \in Seq(Nat)
        /\ Len(receivedPacketsRemainingCount) \in Nat
        /\ Len(HeldCounts) = IF HeldStep = "removeCount" THEN Len(Held) + 1 ELSE Len(Held)
    BY <1>1, LenProperties DEF TcpLists, Lists
  <2>2. readStep = "dropPacket" => Len(Held) = Len(receivedPackets) - 1
    <3>1. readStep = "dropPacket" => Len(receivedPackets) # 0
      BY <1>1, <2>1, EmptySeq DEF TcpLists
    <3> QED BY <2>1, <3>1, ShortenedLen DEF Held
  <2>3. readStep = "dropCount" =>
           Len(HeldCounts) = Len(receivedPacketsRemainingCount) - 1
    <3>1. readStep = "dropCount" => Len(receivedPacketsRemainingCount) # 0
      BY <1>1, <2>1, EmptySeq DEF TcpLists
    <3> QED BY <2>1, <3>1, ShortenedLen DEF HeldCounts
  <2>4. CASE readStep = "dropPacket"
    BY <2>1, <2>2, <2>4 DEF HeldCounts, HeldStep
  <2>5. CASE readStep = "dropCount"
    BY <2>1, <2>3, <2>5 DEF Held, HeldStep
  <2>6. CASE ~Dropping
    BY <2>1, <2>6, HeldElsewhere DEF Dropping
  <2> QED BY <2>4, <2>5, <2>6 DEF Dropping
<1>5. \A n \in ToSet(receivedPacketsRemainingCount) : n \in Nat
  BY <1>1 DEF TcpLists, ToSet
<1> QED BY <1>1, <1>2, <1>3, <1>4, <1>5 DEF TcpTypeOK, TcpTypes, TcpLists, Lists

(* Bytes arrive in order, none twice and none left out: for all ports,      *)
(* payloads and reads, however interrupts fall between the steps of a read  *)
(* or of a removal, until a packet is added between the two halves of a     *)
(* RemoveAt (tcp.cpp: AddPacket, ReadData, RemovePacketAt; list.cpp).       *)
THEOREM StreamsArriveInOrder == TcpSpec => []StreamInOrder
<1>1. TcpKept => StreamInOrder
  <2> SUFFICES ASSUME TcpInv PROVE StreamInOrder
    BY DEF TcpKept, StreamInOrder
  <2>1. TcpTypeOK
    BY TcpInvTypes
  <2>2. DOMAIN receivedPackets = 1 .. Len(receivedPackets)
    BY DEF TcpInv, TcpLists
  <2>3. ASSUME readStep \in {"idle", "scan"}, NEW p \in Ports
        PROVE  arrived[p] = got[p] \o FlattenSeq(
                  [k \in DOMAIN receivedPackets |->
                     IF receivedPackets[k].port # p THEN <<>>
                     ELSE Unread(receivedPackets[k], receivedPacketsRemainingCount[k])])
    <3>0. /\ Held = receivedPackets /\ HeldCounts = receivedPacketsRemainingCount
          /\ HeldStep = readStep
      BY <2>3, HeldElsewhere DEF Dropping
    <3>1. \A k : RestOf(receivedPackets, receivedPacketsRemainingCount, readStep,
                        place, p, k) =
                 IF receivedPackets[k].port # p THEN <<>>
                 ELSE Unread(receivedPackets[k], receivedPacketsRemainingCount[k])
      BY <2>3 DEF RestOf, CountOf
    <3>2. WaitingFor(p) = FlattenSeq(
                  [k \in DOMAIN receivedPackets |->
                     IF receivedPackets[k].port # p THEN <<>>
                     ELSE Unread(receivedPackets[k], receivedPacketsRemainingCount[k])])
      BY <2>2, <3>0, <3>1 DEF WaitingFor, NotRead, Rests
    <3>3. arrived[p] = got[p] \o WaitingFor(p)
      BY DEF TcpInv, Streams, Joined
    <3> QED BY <3>2, <3>3
  <2> QED BY <2>1, <2>3 DEF StreamInOrder
<1>2. TcpInit => TcpKept
  BY TcpInitInv DEF TcpInit, TcpKept
<1> QED BY <1>1, <1>2, TcpNextKeeps, PTL DEF TcpSpec

(* When a read comes to the end of the list without the bytes that were     *)
(* asked for, no packet of its port is left there, although packets arrived *)
(* and places moved while it went on, with the same exception (tcp.cpp:      *)
(* ReadData).                                                               *)
THEOREM ShortReadsLeaveNone == TcpSpec => []ShortReadLeavesNone
<1>1. TcpKept => ShortReadLeavesNone
  <2> SUFFICES ASSUME TcpInv, readStep = "scan", place > Len(receivedPackets),
                      NEW k \in DOMAIN receivedPackets
               PROVE  receivedPackets[k].port # port
    BY DEF TcpKept, ShortReadLeavesNone
  <2>0. Held = receivedPackets
    BY HeldElsewhere DEF Dropping
  <2>1. /\ k \in 1 .. Len(receivedPackets) /\ Len(receivedPackets) \in Nat
        /\ place \in Nat
    BY <2>0, LenProperties DEF TcpInv, TcpLists, Lists
  <2>2. k < place
    BY <2>1
  <2> QED BY <2>0, <2>1, <2>2 DEF TcpInv, NonePassed
<1>2. TcpInit => TcpKept
  BY TcpInitInv DEF TcpInit, TcpKept
<1> QED BY <1>1, <1>2, TcpNextKeeps, PTL DEF TcpSpec

-----------------------------------------------------------------------------
(* The serial manager.                                                      *)

(* What the host may send: its packets, and single bytes without a frame.   *)
Arrivals == HostPackets \cup {Unframed(<<byte>>) : byte \in RawBytes}

LEMMA SignatureIs ==
    /\ SignatureLen \in Nat \ {0} /\ Len(Signature) = SignatureLen
    /\ Signature \in Seq(Byte)
    /\ \A k \in 1 .. SignatureLen : Signature[k] \in Byte
    /\ \A byte \in RawBytes : byte \in Byte /\ byte # Signature[1]
    /\ LenAt = SignatureLen + 2 /\ HeaderLen = SignatureLen + 4
<1>1. Signature \in Seq(Byte) /\ Signature # <<>>
  BY SerialAssumption
<1>2. Len(Signature) \in Nat \ {0}
  BY ONLY <1>1, EmptySeq
<1>3. \A k \in 1 .. Len(Signature) : Signature[k] \in Byte
  BY ONLY <1>1, ElementOfSeq
<1>4. \A byte \in RawBytes : byte \in Byte /\ byte # Signature[1]
  BY SerialAssumption
<1> QED BY ONLY <1>1, <1>2, <1>3, <1>4 DEF SignatureLen, LenAt, HeaderLen

LEMMA PacketIs ==
    ASSUME NEW p \in Packet
    PROVE  /\ p.type \in Byte /\ p.from \in Byte /\ p.to \in Byte
           /\ p.data \in Seq(Byte) /\ Len(p.data) \in Byte
           /\ p = New(p.type, p.from, p.to, p.data)
<1>1. p \in [type : Byte, from : Byte, to : Byte, data : Seq(Byte)]
  BY DEF Packet
<1>2. Len(p.data) \in Byte
  BY DEF Packet
<1> QED BY ONLY <1>1, <1>2 DEF New

LEMMA NewIs ==
    ASSUME NEW t, NEW f, NEW o, NEW d, NEW p, p = New(t, f, o, d)
    PROVE  /\ p.type = t /\ p.from = f /\ p.to = o /\ p.data = d
           /\ t \in Byte /\ f \in Byte /\ o \in Byte /\ d \in Seq(Byte)
                 /\ Len(d) \in Byte => p \in Packet
  BY DEF New, Packet

LEMMA PortsAreBytes ==
    /\ ReservedPorts \subseteq Byte /\ TypeState \in Byte /\ TypeData \in Byte
    /\ TypeInit \in Byte
    /\ {InitHost, RawSerial, VideoHost, TCPHost} \subseteq ReservedPorts
    /\ {InitClient, RawSerialClient, VideoClient, TCPClient} \subseteq
          ReservedOutClientPorts
    /\ ReservedOutClientPorts \subseteq ReservedPorts \ {0, TCPHost, RawSerial}
    /\ TypeState # TypeData /\ TypeInit # TypeState /\ TypeInit # TypeData
    /\ InitHost \notin {RawSerial, TCPHost} /\ RawSerial # TCPHost
  BY DEF ReservedPorts, ReservedHostPorts, ReservedOutClientPorts, Byte,
         TypeState, TypeData, TypeInit, InitHost, RawSerial, VideoHost, TCPHost,
         InitClient, RawSerialClient, VideoClient, TCPClient

LEMMA OneByte ==
    ASSUME NEW b \in Byte
    PROVE  /\ <<b>> \in Seq(Byte) /\ Len(<<b>>) = 1 /\ <<b>>[1] = b
           /\ <<b>> # <<>> /\ 1 \in Byte
<1>1. 1 \in Byte
  BY DEF Byte
<1>2. <<b>> \in Seq(Byte) /\ Len(<<b>>) = 1 /\ <<b>>[1] = b
  OBVIOUS
<1>3. <<b>> # <<>>
  BY ONLY <1>2, EmptySeq
<1> QED BY <1>1, <1>2, <1>3

LEMMA NoPacketIs ==
    /\ NoPacket \in Packet /\ NoPacket.to = 0 /\ NoPacket.data = <<>>
<1>1. 0 \in Byte
  BY DEF Byte
<1>2. PICK d : d = <<>> /\ d \in Seq(Byte) /\ Len(d) = 0
  BY EmptySeq
<1>3. NoPacket = New(0, 0, 0, d)
  BY <1>2 DEF NoPacket
<1>4. PICK p : p = New(0, 0, 0, d)
  OBVIOUS
<1>5. d \in Seq(Byte) /\ Len(d) \in Byte
  BY <1>1, <1>2
<1>6. p \in Packet /\ p.to = 0 /\ p.data = d
  BY ONLY <1>1, <1>4, <1>5, NewIs
<1> QED BY <1>2, <1>3, <1>4, <1>6

LEMMA UnframedIs ==
    ASSUME NEW byte \in RawBytes
    PROVE  /\ Unframed(<<byte>>) \in Packet
           /\ Unframed(<<byte>>).type = TypeData
           /\ Unframed(<<byte>>).data = <<byte>>
<1>1. byte \in Byte
  BY SignatureIs
<1>2. PICK d : d = <<byte>> /\ d \in Seq(Byte) /\ Len(d) \in Byte
  BY ONLY <1>1, OneByte
<1>3. TypeData \in Byte /\ RawSerialClient \in Byte /\ RawSerial \in Byte
  BY PortsAreBytes
<1>4. PICK p : p = New(TypeData, RawSerialClient, RawSerial, d)
  OBVIOUS
<1>5. d \in Seq(Byte) /\ Len(d) \in Byte
  BY <1>2
<1>7. p \in Packet /\ p.type = TypeData /\ p.data = d
  BY ONLY <1>3, <1>4, <1>5, NewIs
<1>6. Unframed(<<byte>>) = p
  BY <1>2, <1>4 DEF Unframed
<1> QED BY <1>2, <1>6, <1>7

LEMMA ArrivalsAre ==
    ASSUME NEW p \in Arrivals
    PROVE  /\ p \in Packet
           /\ p.to = RawSerial => p.data # <<>>
           /\ p.type = TypeState => p.from \notin {RawSerial, TCPHost}
<1>1. CASE p \in HostPackets
  BY <1>1, SerialAssumption, HostAssumption
<1>2. ASSUME NEW byte \in RawBytes, p = Unframed(<<byte>>)
      PROVE  p \in Packet /\ p.data # <<>> /\ p.type # TypeState
  <2>1. p.data # <<>>
    <3>1. PICK d : d = <<byte>> /\ d # <<>>
      <4>1. byte \in Byte
        BY SignatureIs
      <4> QED BY ONLY <4>1, OneByte
    <3>2. p.data = d
      BY <1>2, <3>1, UnframedIs
    <3> QED BY ONLY <3>1, <3>2
  <2>2. p \in Packet /\ p.type # TypeState
    BY <1>2, UnframedIs, PortsAreBytes
  <2> QED BY <2>1, <2>2
<1> QED BY <1>1, <1>2 DEF Arrivals

LEMMA SomeArrivals ==
    ASSUME NEW s \in Seq(Arrivals)
    PROVE  s \in Seq(Packet)
<1>1. Arrivals \subseteq Packet
  BY ArrivalsAre
<1> QED BY <1>1, SeqMonotonic

(* The packets of a list that are in T, their data, and their frames.       *)
KeepIn(T) == [p \in Packet |-> IF p \in T THEN <<p>> ELSE <<>>]
DataIn(T) == [p \in Packet |-> IF p \in T THEN p.data ELSE <<>>]
FrameOf == [p \in Packet |-> Encode(p)]

LEMMA EachImageEqual ==
    ASSUME NEW D, NEW s \in Seq(D), NEW f, NEW t,
           DOMAIN t = DOMAIN s, t = [k \in DOMAIN s |-> t[k]],
           \A k \in 1 .. Len(s) : t[k] = f[s[k]]
    PROVE  t = EachImage(s, f)
<1>1. DOMAIN s = 1 .. Len(s)
  BY LenProperties
<1>2. \A k \in DOMAIN s : t[k] = f[s[k]]
  BY <1>1
<1>3. t = [k \in DOMAIN s |-> f[s[k]]]
  BY ONLY t = [k \in DOMAIN s |-> t[k]], <1>2
<1> QED BY ONLY <1>3 DEF EachImage

LEMMA KeepInIs ==
    ASSUME NEW T
    PROVE  /\ KeepIn(T) \in [Packet -> Seq(Packet)] /\ KeepsOrDrops(KeepIn(T), Packet)
           /\ \A p \in Packet : KeepIn(T)[p] = IF p \in T THEN <<p>> ELSE <<>>
<1>1. ASSUME NEW p \in Packet
      PROVE  <<p>> \in Seq(Packet) /\ <<>> \in Seq(Packet)
  BY EmptySeq
<1>2. PICK f : f = KeepIn(T)
  OBVIOUS
<1>3. f \in [Packet -> Seq(Packet)]
  BY <1>1, <1>2 DEF KeepIn
<1>4. \A p \in Packet : f[p] = IF p \in T THEN <<p>> ELSE <<>>
  BY <1>2 DEF KeepIn
<1>5. KeepsOrDrops(f, Packet)
  BY ONLY <1>4 DEF KeepsOrDrops
<1> QED BY ONLY <1>2, <1>3, <1>4, <1>5

LEMMA DataInIs ==
    ASSUME NEW T
    PROVE  /\ DataIn(T) \in [Packet -> Seq(Byte)]
           /\ \A p \in Packet : DataIn(T)[p] = IF p \in T THEN p.data ELSE <<>>
<1>1. ASSUME NEW p \in Packet
      PROVE  p.data \in Seq(Byte) /\ <<>> \in Seq(Byte)
  BY EmptySeq, PacketIs
<1>2. PICK f : f = DataIn(T)
  OBVIOUS
<1>3. f \in [Packet -> Seq(Byte)]
  BY <1>1, <1>2 DEF DataIn
<1>4. \A p \in Packet : f[p] = IF p \in T THEN p.data ELSE <<>>
  BY <1>2 DEF DataIn
<1> QED BY ONLY <1>2, <1>3, <1>4

LEMMA ChosenIs ==
    ASSUME NEW s \in Seq(Packet), NEW T
    PROVE  Chosen(s, T) = Images(s, KeepIn(T)) /\ Chosen(s, T) \in Seq(Packet)
<1> DEFINE t == [k \in DOMAIN s |-> IF s[k] \in T THEN <<s[k]>> ELSE <<>>]
<1>1. \A k \in 1 .. Len(s) : s[k] \in Packet
  BY ElementOfSeq
<1>2. DOMAIN s = 1 .. Len(s)
  BY LenProperties
<1>3. /\ DOMAIN t = DOMAIN s /\ t = [k \in DOMAIN s |-> t[k]]
      /\ \A k \in 1 .. Len(s) : t[k] = IF s[k] \in T THEN <<s[k]>> ELSE <<>>
  BY <1>2
<1>4. Chosen(s, T) = FlattenSeq(t)
  BY DEF Chosen
<1> HIDE DEF t
<1>5. \A k \in 1 .. Len(s) : t[k] = KeepIn(T)[s[k]]
  BY ONLY <1>1, <1>3, KeepInIs
<1>6. t = EachImage(s, KeepIn(T))
  BY ONLY s \in Seq(Packet), <1>3, <1>5, EachImageEqual
<1>7. Chosen(s, T) = Images(s, KeepIn(T))
  BY ONLY <1>4, <1>6 DEF Images
<1>8. Maps(s, KeepIn(T), Packet, Packet)
  BY KeepInIs DEF Maps
<1> QED BY ONLY <1>7, <1>8, ImagesType

LEMMA DataOfIs ==
    ASSUME NEW s \in Seq(Packet), NEW T
    PROVE  DataOf(s, T) = Images(s, DataIn(T)) /\ DataOf(s, T) \in Seq(Byte)
<1> DEFINE t == [k \in DOMAIN s |-> IF s[k] \in T THEN s[k].data ELSE <<>>]
<1>1. \A k \in 1 .. Len(s) : s[k] \in Packet
  BY ElementOfSeq
<1>2. DOMAIN s = 1 .. Len(s)
  BY LenProperties
<1>3. /\ DOMAIN t = DOMAIN s /\ t = [k \in DOMAIN s |-> t[k]]
      /\ \A k \in 1 .. Len(s) : t[k] = IF s[k] \in T THEN s[k].data ELSE <<>>
  BY <1>2
<1>4. DataOf(s, T) = FlattenSeq(t)
  BY DEF DataOf
<1> HIDE DEF t
<1>5. \A k \in 1 .. Len(s) : t[k] = DataIn(T)[s[k]]
  BY ONLY <1>1, <1>3, DataInIs
<1>6. t = EachImage(s, DataIn(T))
  BY ONLY s \in Seq(Packet), <1>3, <1>5, EachImageEqual
<1>7. DataOf(s, T) = Images(s, DataIn(T))
  BY ONLY <1>4, <1>6 DEF Images
<1>8. Maps(s, DataIn(T), Packet, Byte)
  BY DataInIs DEF Maps
<1> QED BY ONLY <1>7, <1>8, ImagesType

(* What is chosen from a longer list.                                       *)
LEMMA ChosenAppend ==
    ASSUME NEW s \in Seq(Packet), NEW p \in Packet, NEW r, Appended(s, p, r),
           NEW T
    PROVE  /\ r \in Seq(Packet)
           /\ Chosen(r, T) = IF p \in T THEN Append(Chosen(s, T), p)
                             ELSE Chosen(s, T)
           /\ DataOf(r, T) = IF p \in T THEN Joined(DataOf(s, T), p.data)
                             ELSE DataOf(s, T)
<1>1. Maps(s, KeepIn(T), Packet, Packet) /\ Maps(s, DataIn(T), Packet, Byte)
  BY KeepInIs, DataInIs DEF Maps
<1>2. /\ Maps(r, KeepIn(T), Packet, Packet)
      /\ Images(r, KeepIn(T)) = Joined(Images(s, KeepIn(T)), KeepIn(T)[p])
  BY ONLY Appended(s, p, r), p \in Packet, <1>1, ImagesAppend
<1>3. Images(r, DataIn(T)) = Joined(Images(s, DataIn(T)), DataIn(T)[p])
  BY ONLY Appended(s, p, r), p \in Packet, <1>1, ImagesAppend
<1>4. r \in Seq(Packet)
  BY ONLY <1>2 DEF Maps
<1>5. /\ Chosen(r, T) = Joined(Chosen(s, T), KeepIn(T)[p])
      /\ Chosen(s, T) \in Seq(Packet)
  BY ONLY s \in Seq(Packet), <1>2, <1>4, ChosenIs
<1>6. /\ DataOf(r, T) = Joined(DataOf(s, T), DataIn(T)[p])
      /\ DataOf(s, T) \in Seq(Byte)
  BY ONLY s \in Seq(Packet), <1>3, <1>4, DataOfIs
<1>7. CASE p \in T
  <2>1. KeepIn(T)[p] = <<p>> /\ DataIn(T)[p] = p.data
    BY <1>7, KeepInIs, DataInIs
  <2>2. Joined(Chosen(s, T), <<p>>) = Append(Chosen(s, T), p)
    BY ONLY <1>5, p \in Packet, JoinedOne
  <2> QED BY ONLY <1>4, <1>5, <1>6, <1>7, <2>1, <2>2
<1>8. CASE p \notin T
  <2>1. KeepIn(T)[p] = <<>> /\ DataIn(T)[p] = <<>>
    BY <1>8, KeepInIs, DataInIs
  <2>2. Joined(Chosen(s, T), <<>>) = Chosen(s, T)
    BY ONLY <1>5, JoinedEmpty
  <2>3. Joined(DataOf(s, T), <<>>) = DataOf(s, T)
    BY ONLY <1>6, JoinedEmpty
  <2> QED BY ONLY <1>4, <1>5, <1>6, <1>8, <2>1, <2>2, <2>3
<1> QED BY <1>7, <1>8

LEMMA ChosenKind ==
    ASSUME NEW A, A \subseteq Packet, NEW s \in Seq(A), NEW T
    PROVE  Chosen(s, T) \in Seq(A)
<1> DEFINE f == [p \in A |-> IF p \in T THEN <<p>> ELSE <<>>]
           t == [k \in DOMAIN s |-> IF s[k] \in T THEN <<s[k]>> ELSE <<>>]
<1>1. \A k \in 1 .. Len(s) : s[k] \in A
  BY ElementOfSeq
<1>2. DOMAIN s = 1 .. Len(s)
  BY LenProperties
<1>3. /\ DOMAIN t = DOMAIN s /\ t = [k \in DOMAIN s |-> t[k]]
      /\ \A k \in 1 .. Len(s) : t[k] = f[s[k]]
  BY <1>1, <1>2
<1>4. f \in [A -> Seq(A)]
  <2>1. ASSUME NEW p \in A PROVE <<p>> \in Seq(A) /\ <<>> \in Seq(A)
    BY EmptySeq
  <2> QED BY <2>1
<1>5. Chosen(s, T) = FlattenSeq(t)
  BY DEF Chosen
<1> HIDE DEF t, f
<1>6. t = EachImage(s, f)
  BY ONLY s \in Seq(A), <1>3, EachImageEqual
<1>7. Maps(s, f, A, A)
  BY <1>4 DEF Maps
<1>8. Images(s, f) \in Seq(A)
  BY ONLY <1>7, ImagesType
<1> QED BY ONLY <1>5, <1>6, <1>8 DEF Images

SameChosen(a, T, b, U) == Chosen(a, T) = Chosen(b, U)
SameData(a, T, b, U) == DataOf(a, T) = DataOf(b, U)

LEMMA ChosenTwice ==
    ASSUME NEW s \in Seq(Packet), NEW T, NEW U, NEW a, a = Chosen(s, T)
    PROVE  /\ SameChosen(a, U, s, T \cap U)
           /\ SameData(a, U, s, T \cap U)
<1>1. PICK g : g = KeepIn(T)
  OBVIOUS
<1>2. PICK f : f = KeepIn(U)
  OBVIOUS
<1>3. PICK h : h = KeepIn(T \cap U)
  OBVIOUS
<1>4. PICK d : d = DataIn(U)
  OBVIOUS
<1>5. PICK e : e = DataIn(T \cap U)
  OBVIOUS
<1>6. /\ g \in [Packet -> Seq(Packet)] /\ KeepsOrDrops(g, Packet)
      /\ \A p \in Packet : g[p] = IF p \in T THEN <<p>> ELSE <<>>
  BY ONLY <1>1, KeepInIs
<1>7. /\ f \in [Packet -> Seq(Packet)]
      /\ \A p \in Packet : f[p] = IF p \in U THEN <<p>> ELSE <<>>
  BY ONLY <1>2, KeepInIs
<1>8. /\ h \in [Packet -> Seq(Packet)]
      /\ \A p \in Packet : h[p] = IF p \in T \cap U THEN <<p>> ELSE <<>>
  BY ONLY <1>3, KeepInIs
<1>9. /\ d \in [Packet -> Seq(Byte)]
      /\ \A p \in Packet : d[p] = IF p \in U THEN p.data ELSE <<>>
  BY ONLY <1>4, DataInIs
<1>10. /\ e \in [Packet -> Seq(Byte)]
       /\ \A p \in Packet : e[p] = IF p \in T \cap U THEN p.data ELSE <<>>
  BY ONLY <1>5, DataInIs
<1>11. \A p \in Packet : <<p>> # <<>>
  <2>1. ASSUME NEW p \in Packet PROVE <<p>> # <<>>
    <3>1. Len(<<p>>) = 1 /\ Len(<<>>) = 0
      OBVIOUS
    <3> QED BY ONLY <3>1
  <2> QED BY <2>1
<1>12. \A p \in Packet : g[p] = <<>> <=> p \notin T
  BY ONLY <1>6, <1>11
<1>13. \A p \in Packet : /\ h[p] = IF g[p] = <<>> THEN <<>> ELSE f[p]
                         /\ e[p] = IF g[p] = <<>> THEN <<>> ELSE d[p]
  BY ONLY <1>7, <1>8, <1>9, <1>10, <1>12
<1>14. \A b : b = Images(s, g) => SameImages(b, f, s, h)
  <2>1. Together(g, f, h, Packet, Packet)
    BY ONLY <1>6, <1>7, <1>8, <1>13 DEF Together
  <2> QED BY <2>1, ImagesOfKept, Zenon
<1>15. \A b : b = Images(s, g) => SameImages(b, d, s, e)
  <2>1. Together(g, d, e, Packet, Byte)
    BY ONLY <1>6, <1>9, <1>10, <1>13 DEF Together
  <2> QED BY <2>1, ImagesOfKept, Zenon
<1>17. a = Images(s, g) /\ a \in Seq(Packet)
  BY ONLY s \in Seq(Packet), <1>1, a = Chosen(s, T), ChosenIs
<1>18. Chosen(a, U) = Images(a, f) /\ DataOf(a, U) = Images(a, d)
  BY ONLY <1>2, <1>4, <1>17, ChosenIs, DataOfIs
<1>19. /\ Chosen(s, T \cap U) = Images(s, h)
       /\ DataOf(s, T \cap U) = Images(s, e)
  BY ONLY s \in Seq(Packet), <1>3, <1>5, ChosenIs, DataOfIs
<1> QED BY ONLY <1>14, <1>15, <1>17, <1>18, <1>19 DEF SameImages, SameChosen, SameData

LEMMA ChosenNone ==
    ASSUME NEW s \in Seq(Packet)
    PROVE  Chosen(s, {}) = <<>>
<1>1. \A p \in Packet : KeepIn({})[p] = <<>>
  BY KeepInIs
<1>2. Images(s, KeepIn({})) = <<>>
  BY ONLY s \in Seq(Packet), <1>1, KeepInIs, ImagesNothing
<1> QED BY ONLY s \in Seq(Packet), <1>2, ChosenIs

(* The packets for TCP are taken off, all others remain.                    *)
LEMMA TakenForTcp ==
    ASSUME NEW s \in Seq(Packet), NEW r,
           r = Chosen(s, Packet \ ToPort(TCPHost))
    PROVE  /\ Chosen(r, ToPort(TCPHost)) = <<>>
           /\ DataOf(r, ToPort(RawSerial)) = DataOf(s, ToPort(RawSerial))
<1>1. PICK O : O = Packet \ ToPort(TCPHost)
  OBVIOUS
<1>2. O \cap ToPort(TCPHost) = {}
  BY <1>1
<1>3. O \cap ToPort(RawSerial) = ToPort(RawSerial)
  <2>1. RawSerial # TCPHost
    BY PortsAreBytes
  <2> QED BY <1>1, <2>1 DEF ToPort
<1>4. SameChosen(r, ToPort(TCPHost), s, O \cap ToPort(TCPHost))
  BY <1>1, ChosenTwice
<1>5. SameData(r, ToPort(RawSerial), s, O \cap ToPort(RawSerial))
  BY <1>1, ChosenTwice
<1> QED BY <1>2, <1>3, <1>4, <1>5, ChosenNone DEF SameChosen, SameData

(* The first packet of T, which is not in U, is taken off.                  *)
FirstOf(s, i, T, U) ==
    /\ i \in 1 .. Len(s) /\ s[i] \in T /\ s[i] \notin U
    /\ \A k \in 1 .. (i - 1) : s[k] \notin T

FirstTaken(s, i, r, T) ==
    /\ DataOf(s, T) = Joined(s[i].data, DataOf(r, T))
    /\ DataOf(r, T) \in Seq(Byte)

LEMMA FirstRemoved ==
    ASSUME NEW s \in Seq(Packet), NEW i, NEW T, NEW U, FirstOf(s, i, T, U),
           NEW r, r = RemoveAt(s, i)
    PROVE  /\ r \in Seq(Packet)
           /\ FirstTaken(s, i, r, T)
           /\ SameChosen(r, U, s, U)
<1> i \in 1 .. Len(s) /\ s[i] \in T /\ s[i] \notin U
  BY DEF FirstOf
<1>8. \A k \in 1 .. (i - 1) : s[k] \notin T
  BY DEF FirstOf
<1>0. PICK n \in Nat :
         n = Len(s) /\ i \in 1 .. n /\ \A k \in 1 .. n : s[k] \in Packet
  BY LenProperties, ElementOfSeq
<1>1. Maps(s, KeepIn(U), Packet, Packet) /\ Maps(s, DataIn(T), Packet, Byte)
  BY KeepInIs, DataInIs DEF Maps
<1>2. KeepIn(U)[s[i]] = <<>> /\ DataIn(T)[s[i]] = s[i].data
  <2>1. PICK p : p = s[i]
    OBVIOUS
  <2>2. p \in Packet /\ p \in T /\ p \notin U
    BY <1>0, <2>1
  <2>3. KeepIn(U)[p] = <<>> /\ DataIn(T)[p] = p.data
    BY ONLY <2>2, KeepInIs, DataInIs
  <2> QED BY ONLY <2>1, <2>3
<1>3. \A k \in 1 .. (i - 1) : DataIn(T)[s[k]] = <<>>
  <2>1. ASSUME NEW k \in 1 .. (i - 1) PROVE k \in 1 .. n
    BY <1>0
  <2> QED BY <1>0, <1>8, <2>1, DataInIs
<1>4. /\ Maps(r, KeepIn(U), Packet, Packet)
      /\ Images(r, KeepIn(U)) = Images(s, KeepIn(U))
  BY ONLY i \in 1 .. Len(s), r = RemoveAt(s, i), <1>1, <1>2, ImagesLeftOut
<1>5. Images(s, DataIn(T)) = Joined(s[i].data, Images(r, DataIn(T)))
  BY ONLY i \in 1 .. Len(s), r = RemoveAt(s, i), <1>1, <1>2, <1>3, ImagesFirst
<1>6. r \in Seq(Packet)
  BY ONLY <1>4 DEF Maps
<1>7. /\ Chosen(r, U) = Images(r, KeepIn(U)) /\ Chosen(s, U) = Images(s, KeepIn(U))
      /\ DataOf(r, T) = Images(r, DataIn(T)) /\ DataOf(s, T) = Images(s, DataIn(T))
      /\ DataOf(r, T) \in Seq(Byte)
  BY ONLY s \in Seq(Packet), <1>6, ChosenIs, DataOfIs
<1> QED BY ONLY <1>4, <1>5, <1>6, <1>7 DEF FirstTaken, SameChosen

(* Routing: a packet for the serial port or for TCP is put into the list    *)
(* unless it is a STATE packet, and both ports go on working.               *)
Consumers == {RawSerial, TCPHost}

RouterTypes(ports, queue, list) ==
    /\ ports \subseteq ReservedPorts /\ Consumers \subseteq ports
    /\ queue \in Seq(Packet \ {NoPacket}) /\ list \in Seq(Packet)

RouterIn(r) ==
    /\ DOMAIN r = {"working", "queue", "list"}
    /\ r = [k \in {"working", "queue", "list"} |-> r[k]]
    /\ RouterTypes(r.working, r.queue, r.list)

Listed(l, p, m) ==
    IF p.to \in Consumers
    THEN IF p.type = TypeState THEN m = l ELSE Appended(l, p, m)
    ELSE m = l \/ Appended(l, p, m)

Harmless(p) == p.type = TypeState => p.from \notin Consumers \/ p.data[1] = 1

LEMMA WorkingAfterIs ==
    ASSUME NEW ports, ports \subseteq ReservedPorts, Consumers \subseteq ports,
           NEW p \in Packet, Harmless(p)
    PROVE  /\ WorkingAfter(ports, p) \subseteq ReservedPorts
           /\ Consumers \subseteq WorkingAfter(ports, p)
<1>1. CASE p.type # TypeState
  BY <1>1 DEF WorkingAfter
<1>2. CASE p.type = TypeState /\ p.data[1] = 1
  BY <1>2 DEF WorkingAfter
<1>3. CASE p.type = TypeState /\ p.data[1] # 1
  BY <1>3 DEF WorkingAfter, Harmless
<1> QED BY <1>1, <1>2, <1>3

LEMMA RouteIs ==
    ASSUME NEW r, RouterIn(r), NEW p \in Packet, Harmless(p), NEW u,
           u = Route(r, p)
    PROVE  /\ RouterIn(u)
           /\ Listed(r.list, p, u.list)
           /\ p.to \in ReservedOutClientPorts => u.list = r.list
<1>0. /\ r.working \subseteq ReservedPorts /\ Consumers \subseteq r.working
      /\ r.queue \in Seq(Packet \ {NoPacket}) /\ r.list \in Seq(Packet)
      /\ DOMAIN r = {"working", "queue", "list"}
      /\ r = [k \in {"working", "queue", "list"} |-> r[k]]
  BY DEF RouterIn, RouterTypes
<1> DEFINE ports == WorkingAfter(r.working, p)
           out == p.to \in ReservedOutClientPorts
           known == [r EXCEPT !.working = ports]
<1>1. ports \subseteq ReservedPorts /\ Consumers \subseteq ports
  BY <1>0, WorkingAfterIs
<1>2. /\ out => p # NoPacket /\ p.to \notin Consumers
      /\ p.to \in Consumers => ~out
  BY PortsAreBytes, NoPacketIs DEF Consumers
<1>3. u = IF p.type = TypeState /\ ~out THEN known
          ELSE IF ~CanPacketBeSent(ports, p) THEN known
          ELSE IF out THEN [known EXCEPT !.queue = Append(@, p)]
          ELSE [known EXCEPT !.list = Append(@, p)]
  BY DEF Route
<1>4. p.to \in Consumers => CanPacketBeSent(ports, p)
  BY <1>1 DEF CanPacketBeSent
<1> HIDE DEF ports, out
<1>5. /\ DOMAIN known = {"working", "queue", "list"}
      /\ known = [k \in {"working", "queue", "list"} |-> known[k]]
      /\ known.working = ports /\ known.queue = r.queue /\ known.list = r.list
  BY <1>0
<1> HIDE DEF known
<1> DEFINE queued == [known EXCEPT !.queue = Append(@, p)]
           listed == [known EXCEPT !.list = Append(@, p)]
<1>6. CASE u = known /\ (p.to \in Consumers => p.type = TypeState)
  <2>1. RouterIn(u)
    BY ONLY <1>0, <1>1, <1>5, <1>6 DEF RouterIn, RouterTypes
  <2> QED BY ONLY <1>5, <1>6, <2>1 DEF Listed
<1>7. CASE u = queued /\ out
  <2>1. Append(r.queue, p) \in Seq(Packet \ {NoPacket})
    BY <1>0, <1>2, <1>7, AppendProperties
  <2>2. /\ DOMAIN u = {"working", "queue", "list"}
        /\ u = [k \in {"working", "queue", "list"} |-> u[k]]
        /\ u.working = ports /\ u.queue = Append(r.queue, p) /\ u.list = r.list
    BY ONLY <1>5, <1>7
  <2> QED BY ONLY <1>0, <1>1, <1>2, <1>7, <2>1, <2>2 DEF RouterIn, RouterTypes, Listed
<1>8. CASE u = listed /\ ~out /\ p.type # TypeState
  <2>1. Append(r.list, p) \in Seq(Packet)
    BY <1>0, AppendProperties
  <2>2. /\ DOMAIN u = {"working", "queue", "list"}
        /\ u = [k \in {"working", "queue", "list"} |-> u[k]]
        /\ u.working = ports /\ u.queue = r.queue /\ u.list = Append(r.list, p)
    BY ONLY <1>5, <1>8
  <2>3. Appended(r.list, p, u.list)
    BY <2>2 DEF Appended
  <2>4. RouterIn(u)
    BY ONLY <1>0, <1>1, <2>1, <2>2 DEF RouterIn, RouterTypes
  <2> QED BY ONLY <1>8, <2>3, <2>4 DEF Listed, out
<1>9. u = IF p.type = TypeState /\ ~out THEN known
          ELSE IF ~CanPacketBeSent(ports, p) THEN known
          ELSE IF out THEN queued ELSE listed
  BY ONLY <1>3
<1> HIDE DEF queued, listed
<1>10. \/ u = known /\ (p.to \in Consumers => p.type = TypeState)
       \/ u = queued /\ out
       \/ u = listed /\ ~out /\ p.type # TypeState
  BY ONLY <1>2, <1>4, <1>9
<1> QED BY ONLY <1>6, <1>7, <1>8, <1>10

(* The packets of the router itself go to ports of the host.                *)
OwnPackets ==
    {New(TypeState, RawSerial, RawSerialClient, <<1>>),
     New(TypeState, VideoHost, VideoClient, <<1>>),
     New(TypeState, TCPHost, TCPClient, <<1>>),
     New(TypeInit, InitHost, InitClient, <<1>>),
     New(TypeData, RawSerial, RawSerialClient, <<0>>)}

LEMMA OwnPacketsAre ==
    ASSUME NEW p \in OwnPackets
    PROVE  p \in Packet /\ Harmless(p) /\ p.to \in ReservedOutClientPorts
<1>1. ASSUME NEW type \in {TypeState, TypeData, TypeInit},
             NEW from \in ReservedPorts, NEW to \in ReservedOutClientPorts,
             NEW b \in {0, 1}, b = 1 \/ type # TypeState,
             p = New(type, from, to, <<b>>)
      PROVE  p \in Packet /\ Harmless(p) /\ p.to \in ReservedOutClientPorts
  <2>1. b \in Byte /\ type \in Byte /\ from \in Byte /\ to \in Byte
    BY PortsAreBytes DEF Byte
  <2>2. PICK d : d = <<b>>
    OBVIOUS
  <2>3. d \in Seq(Byte) /\ Len(d) \in Byte /\ d[1] = b
    BY ONLY <2>1, <2>2, OneByte
  <2>4. p = New(type, from, to, d)
    BY <1>1, <2>2
  <2>5. p \in Packet /\ p.type = type /\ p.to = to /\ p.data = d
    BY ONLY <2>1, <2>3, <2>4, NewIs
  <2>6. p.type = TypeState => p.data[1] = 1
    BY ONLY <1>1, <2>3, <2>5
  <2> QED BY ONLY to \in ReservedOutClientPorts, <2>5, <2>6 DEF Harmless
<1>2. /\ {RawSerial, VideoHost, TCPHost, InitHost} \subseteq ReservedPorts
      /\ {RawSerialClient, VideoClient, TCPClient, InitClient} \subseteq
            ReservedOutClientPorts
      /\ TypeState # TypeData
  BY PortsAreBytes
<1>3. CASE p = New(TypeState, RawSerial, RawSerialClient, <<1>>)
  BY <1>1, <1>2, <1>3
<1>4. CASE p = New(TypeState, VideoHost, VideoClient, <<1>>)
  BY <1>1, <1>2, <1>4
<1>5. CASE p = New(TypeState, TCPHost, TCPClient, <<1>>)
  BY <1>1, <1>2, <1>5
<1>6. CASE p = New(TypeInit, InitHost, InitClient, <<1>>)
  BY <1>1, <1>2, <1>6
<1>7. CASE p = New(TypeData, RawSerial, RawSerialClient, <<0>>)
  BY <1>1, <1>2, <1>7
<1> QED BY <1>3, <1>4, <1>5, <1>6, <1>7 DEF OwnPackets

LEMMA RouteOwn ==
    ASSUME NEW r, RouterIn(r), NEW p \in OwnPackets, NEW u, u = Route(r, p)
    PROVE  RouterIn(u) /\ u.list = r.list
  BY OwnPacketsAre, RouteIs

LEMMA SendPacketIs ==
    ASSUME NEW r, RouterIn(r), NEW p \in Packet, Harmless(p), NEW u,
           u = SendPacket(r, p)
    PROVE  RouterIn(u) /\ Listed(r.list, p, u.list)
<1>1. CASE ~(p.type = TypeInit /\ p.to = InitHost)
  <2>1. u = Route(r, p)
    BY <1>1 DEF SendPacket
  <2> QED BY ONLY RouterIn(r), p \in Packet, Harmless(p), <2>1, RouteIs
<1>2. ASSUME p.type = TypeInit /\ p.to = InitHost, RouterIn(u) /\ u.list = r.list
      PROVE  RouterIn(u) /\ Listed(r.list, p, u.list)
  <2>1. p.to \notin Consumers
    BY <1>2, PortsAreBytes DEF Consumers
  <2> QED BY <1>2, <2>1 DEF Listed
<1>3. ASSUME u = InitServerClientStuff(r) PROVE RouterIn(u) /\ u.list = r.list
  <2>0. PICK p1, p2, p3, p4 :
           /\ p1 = New(TypeState, RawSerial, RawSerialClient, <<1>>)
           /\ p2 = New(TypeState, VideoHost, VideoClient, <<1>>)
           /\ p3 = New(TypeState, TCPHost, TCPClient, <<1>>)
           /\ p4 = New(TypeInit, InitHost, InitClient, <<1>>)
    OBVIOUS
  <2>1. PICK a, b, c : a = Route(r, p1) /\ b = Route(a, p2) /\ c = Route(b, p3)
    OBVIOUS
  <2>2. u = Route(c, p4)
    BY <1>3, <2>0, <2>1 DEF InitServerClientStuff
  <2>3. {p1, p2, p3, p4} \subseteq OwnPackets
    BY <2>0 DEF OwnPackets
  <2>5. RouterIn(a) /\ a.list = r.list
    BY ONLY RouterIn(r), <2>1, <2>3, RouteOwn
  <2>6. RouterIn(b) /\ b.list = r.list
    BY ONLY <2>1, <2>3, <2>5, RouteOwn
  <2>7. RouterIn(c) /\ c.list = r.list
    BY ONLY <2>1, <2>3, <2>6, RouteOwn
  <2> QED BY ONLY <2>2, <2>3, <2>7, RouteOwn
<1>4. ASSUME u = ActuallyInitClientStuff(r) PROVE RouterIn(u) /\ u.list = r.list
  <2>1. CASE u = r
    BY <2>1
  <2>2. CASE u = Route(r, New(TypeData, RawSerial, RawSerialClient, <<0>>))
    <3>1. PICK q : q = New(TypeData, RawSerial, RawSerialClient, <<0>>)
      OBVIOUS
    <3>2. q \in OwnPackets /\ u = Route(r, q)
      BY <2>2, <3>1 DEF OwnPackets
    <3> QED BY ONLY RouterIn(r), <3>2, RouteOwn
  <2> QED BY <1>4, <2>1, <2>2 DEF ActuallyInitClientStuff
<1> QED BY <1>1, <1>2, <1>3, <1>4 DEF SendPacket

(* What has been taken off the list and what is in it, in its order.        *)
Kept(to) == {packet \in ToPort(to) : packet.type # TypeState}

PortsAre(tk, rd, rg, l, p) ==
    /\ Joined(tk, Chosen(l, ToPort(TCPHost))) = Chosen(p, Kept(TCPHost))
    /\ Joined(Joined(rd, rg), DataOf(l, ToPort(RawSerial))) =
          DataOf(p, Kept(RawSerial))

PortTypes(tk, rd, rg, l, p) ==
    /\ tk \in Seq(Packet) /\ rd \in Seq(Byte) /\ rg \in Seq(Byte)
    /\ l \in Seq(Packet) /\ p \in Seq(Packet)

LEMMA PortsReceived ==
    ASSUME NEW tk, NEW rd, NEW rg, NEW l, NEW p, PortTypes(tk, rd, rg, l, p),
           PortsAre(tk, rd, rg, l, p), NEW q \in Packet, NEW m,
           Listed(l, q, m), NEW r, Appended(p, q, r)
    PROVE  PortsAre(tk, rd, rg, m, r)
<1>0. /\ tk \in Seq(Packet) /\ rd \in Seq(Byte) /\ rg \in Seq(Byte)
      /\ l \in Seq(Packet) /\ p \in Seq(Packet)
  BY DEF PortTypes
<1>1. PICK a : a = Chosen(l, ToPort(TCPHost)) /\ a \in Seq(Packet)
  BY <1>0, ChosenIs
<1>2. PICK d : d = DataOf(l, ToPort(RawSerial)) /\ d \in Seq(Byte)
  BY <1>0, DataOfIs
<1>3. PICK z : z = Joined(rd, rg) /\ z \in Seq(Byte)
  BY <1>0, JoinedType
<1>4. Joined(tk, a) = Chosen(p, Kept(TCPHost))
  BY <1>1 DEF PortsAre
<1>5. Joined(z, d) = DataOf(p, Kept(RawSerial))
  BY <1>2, <1>3 DEF PortsAre
<1>6. /\ Chosen(r, Kept(TCPHost)) = IF q \in Kept(TCPHost)
                                    THEN Append(Joined(tk, a), q) ELSE Joined(tk, a)
      /\ DataOf(r, Kept(RawSerial)) = IF q \in Kept(RawSerial)
                                      THEN Joined(Joined(z, d), q.data)
                                      ELSE Joined(z, d)
  BY ONLY <1>0, <1>4, <1>5, q \in Packet, Appended(p, q, r), ChosenAppend
<1>7. /\ q \in Kept(TCPHost) => Appended(l, q, m)
      /\ q \in Kept(RawSerial) => Appended(l, q, m)
      /\ m = l \/ Appended(l, q, m)
      /\ q \in ToPort(TCPHost) /\ q \notin Kept(TCPHost) => m = l
      /\ q \in ToPort(RawSerial) /\ q \notin Kept(RawSerial) => m = l
      /\ q \in Kept(TCPHost) => q \in ToPort(TCPHost)
      /\ q \in Kept(RawSerial) => q \in ToPort(RawSerial)
  BY DEF Listed, Kept, ToPort, Consumers
<1>8. ASSUME Appended(l, q, m)
      PROVE  /\ Chosen(m, ToPort(TCPHost)) = IF q \in ToPort(TCPHost)
                                             THEN Append(a, q) ELSE a
             /\ DataOf(m, ToPort(RawSerial)) = IF q \in ToPort(RawSerial)
                                               THEN Joined(d, q.data) ELSE d
  BY ONLY <1>0, <1>1, <1>2, <1>8, q \in Packet, ChosenAppend
<1>9. Joined(tk, Chosen(m, ToPort(TCPHost))) = Chosen(r, Kept(TCPHost))
  <2>1. Joined(tk, Append(a, q)) = Append(Joined(tk, a), q)
    <3>1. PICK v : v = Append(a, q) /\ Appended(a, q, v)
      BY DEF Appended
    <3>2. Appended(Joined(tk, a), q, Joined(tk, v))
      BY ONLY <1>0, <1>1, q \in Packet, <3>1, JoinedAppend
    <3> QED BY ONLY <3>1, <3>2 DEF Appended
  <2>2. CASE q \in Kept(TCPHost)
    BY ONLY <1>6, <1>7, <1>8, <2>1, <2>2
  <2>3. CASE q \notin Kept(TCPHost)
    BY ONLY <1>1, <1>6, <1>7, <1>8, <2>3
  <2> QED BY <2>2, <2>3
<1>10. Joined(z, DataOf(m, ToPort(RawSerial))) = DataOf(r, Kept(RawSerial))
  <2>1. Joined(z, Joined(d, q.data)) = Joined(Joined(z, d), q.data)
    BY ONLY <1>2, <1>3, q \in Packet, PacketIs, JoinedRegroup
  <2>2. CASE q \in Kept(RawSerial)
    BY ONLY <1>6, <1>7, <1>8, <2>1, <2>2
  <2>3. CASE q \notin Kept(RawSerial)
    BY ONLY <1>2, <1>6, <1>7, <1>8, <2>3
  <2> QED BY <2>2, <2>3
<1> QED BY ONLY <1>3, <1>9, <1>10 DEF PortsAre

LEMMA PortsTaken ==
    ASSUME NEW tk, NEW rd, NEW rg, NEW l, NEW p, PortTypes(tk, rd, rg, l, p),
           PortsAre(tk, rd, rg, l, p), NEW r, r = Chosen(l, Packet \ ToPort(TCPHost)),
           NEW t, t = Joined(tk, Chosen(l, ToPort(TCPHost)))
    PROVE  PortTypes(t, rd, rg, r, p) /\ PortsAre(t, rd, rg, r, p)
<1>0. tk \in Seq(Packet) /\ l \in Seq(Packet)
  BY DEF PortTypes
<1>1. Chosen(l, ToPort(TCPHost)) \in Seq(Packet) /\ r \in Seq(Packet)
  BY <1>0, ChosenIs
<1>2. t \in Seq(Packet)
  BY <1>0, <1>1, JoinedType
<1>3. /\ Chosen(r, ToPort(TCPHost)) = <<>>
      /\ DataOf(r, ToPort(RawSerial)) = DataOf(l, ToPort(RawSerial))
  BY <1>0, TakenForTcp
<1>4. Joined(t, <<>>) = t
  BY ONLY <1>2, JoinedEmpty
<1>5. PortTypes(t, rd, rg, r, p)
  BY <1>1, <1>2 DEF PortTypes
<1>6. PICK e : e = Chosen(r, ToPort(TCPHost)) /\ Joined(t, e) = t
  BY ONLY <1>3, <1>4
<1>7. t = Chosen(p, Kept(TCPHost))
  BY DEF PortsAre
<1>8. Joined(Joined(rd, rg), DataOf(l, ToPort(RawSerial))) =
          DataOf(p, Kept(RawSerial))
  BY DEF PortsAre
<1> QED BY ONLY <1>3, <1>5, <1>6, <1>7, <1>8 DEF PortsAre

LEMMA PortsReadOn ==
    ASSUME NEW tk, NEW rd, NEW rg, NEW l, NEW p, PortTypes(tk, rd, rg, l, p),
           PortsAre(tk, rd, rg, l, p), rg # <<>>, NEW e, NEW g,
           e = Append(rd, Head(rg)), g = Tail(rg)
    PROVE  PortTypes(tk, e, g, l, p) /\ PortsAre(tk, e, g, l, p)
<1>1. rd \in Seq(Byte) /\ rg \in Seq(Byte)
  BY DEF PortTypes
<1>2. Joined(e, g) = Joined(rd, rg) /\ e \in Seq(Byte) /\ g \in Seq(Byte)
  BY <1>1, OneByteOn
<1> QED BY <1>2 DEF PortTypes, PortsAre

(* The next packet.                                                         *)
FirstFor(l, i, to) ==
    /\ i \in 1 .. Len(l) /\ l[i].to = to
    /\ \A k \in 1 .. (i - 1) : l[k].to # to

LEMMA PortsReadNext ==
    ASSUME NEW tk, NEW rd, NEW rg, NEW l, NEW p, PortTypes(tk, rd, rg, l, p),
           PortsAre(tk, rd, rg, l, p), rg = <<>>, NEW i,
           FirstFor(l, i, RawSerial), NEW g, NEW r,
           g = l[i].data, r = RemoveAt(l, i)
    PROVE  PortTypes(tk, rd, g, r, p) /\ PortsAre(tk, rd, g, r, p)
<1>0. /\ rd \in Seq(Byte) /\ l \in Seq(Packet) /\ tk \in Seq(Packet)
      /\ p \in Seq(Packet)
  BY DEF PortTypes
<1>1. /\ i \in 1 .. Len(l) /\ l[i] \in Packet /\ l[i].to = RawSerial
      /\ \A k \in 1 .. (i - 1) : l[k] \notin ToPort(RawSerial)
  BY <1>0, ElementOfSeq DEF FirstFor, ToPort
<1>2. l[i] \in ToPort(RawSerial) /\ l[i] \notin ToPort(TCPHost)
  BY <1>1, PortsAreBytes DEF ToPort
<1>3. g \in Seq(Byte)
  BY <1>1, PacketIs
<1>4. PICK d : d = DataOf(r, ToPort(RawSerial))
  OBVIOUS
<1>5. /\ r \in Seq(Packet) /\ d \in Seq(Byte)
      /\ DataOf(l, ToPort(RawSerial)) = Joined(g, d)
      /\ Chosen(r, ToPort(TCPHost)) = Chosen(l, ToPort(TCPHost))
  <2>1. FirstOf(l, i, ToPort(RawSerial), ToPort(TCPHost))
    BY <1>1, <1>2 DEF FirstOf
  <2>2. /\ r \in Seq(Packet) /\ FirstTaken(l, i, r, ToPort(RawSerial))
        /\ SameChosen(r, ToPort(TCPHost), l, ToPort(TCPHost))
    BY ONLY <1>0, <2>1, r = RemoveAt(l, i), FirstRemoved
  <2> QED BY ONLY <1>4, <2>2, g = l[i].data DEF FirstTaken, SameChosen
<1>7. Joined(Joined(rd, g), d) = Joined(rd, Joined(g, d))
  BY ONLY <1>0, <1>3, <1>5, JoinedRegroup
<1>8. Joined(rd, rg) = rd
  BY <1>0, JoinedEmpty
<1>9. /\ Joined(tk, Chosen(l, ToPort(TCPHost))) = Chosen(p, Kept(TCPHost))
      /\ Joined(Joined(rd, rg), DataOf(l, ToPort(RawSerial))) =
            DataOf(p, Kept(RawSerial))
  BY DEF PortsAre
<1>10. PortTypes(tk, rd, g, r, p)
  BY ONLY <1>0, <1>3, <1>5 DEF PortTypes
<1> QED BY ONLY <1>4, <1>5, <1>7, <1>8, <1>9, <1>10 DEF PortsAre

(* A frame: the signature, four bytes, the data.                            *)
FrameIs(x, q) ==
    /\ x \in Seq(Byte) /\ Len(x) = HeaderLen + Len(q.data)
    /\ \A k \in 1 .. SignatureLen : x[k] = Signature[k]
    /\ x[SignatureLen + 1] = q.type /\ x[SignatureLen + 2] = Len(q.data)
    /\ x[SignatureLen + 3] = q.from /\ x[SignatureLen + 4] = q.to
    /\ \A k \in 1 .. Len(q.data) : x[HeaderLen + k] = q.data[k]

LEMMA HeaderIs ==
    ASSUME NEW q \in Packet, NEW y, y = Header(q)
    PROVE  /\ y \in Seq(Byte) /\ Len(y) = HeaderLen
           /\ \A k \in 1 .. SignatureLen : y[k] = Signature[k]
           /\ y[SignatureLen + 1] = q.type /\ y[SignatureLen + 2] = Len(q.data)
           /\ y[SignatureLen + 3] = q.from /\ y[SignatureLen + 4] = q.to
<1>1. PICK h : h = <<q.type, Len(q.data), q.from, q.to>>
  OBVIOUS
<1>2. /\ q.type \in Byte /\ Len(q.data) \in Byte /\ q.from \in Byte /\ q.to \in Byte
  BY PacketIs
<1>3. /\ h \in Seq(Byte) /\ Len(h) = 4 /\ h[1] = q.type /\ h[2] = Len(q.data)
      /\ h[3] = q.from /\ h[4] = q.to
  BY ONLY <1>1, <1>2
<1>4. y = Joined(Signature, h)
  BY <1>1 DEF Header, Joined
<1>5. SignatureLen \in Nat /\ Len(Signature) = SignatureLen /\ Signature \in Seq(Byte)
  BY SignatureIs
<1>6. /\ y \in Seq(Byte) /\ Len(y) = Len(Signature) + Len(h)
      /\ \A k \in 1 .. Len(Signature) : y[k] = Signature[k]
      /\ \A k \in 1 .. Len(h) : y[Len(Signature) + k] = h[k]
  <2>1. h \in Seq(Byte)
    BY <1>3
  <2>2. Signature \in Seq(Byte)
    BY <1>5
  <2>3. y \in Seq(Byte) /\ TwoParts(Signature, h, y)
    BY ONLY <1>4, <2>1, <2>2, PartsOfJoined
  <2> QED BY ONLY <2>3 DEF TwoParts
<1>7. /\ \A k \in 1 .. 4 : y[SignatureLen + k] = h[k]
      /\ Len(y) = SignatureLen + 4
      /\ \A k \in 1 .. SignatureLen : y[k] = Signature[k]
  BY ONLY <1>3, <1>5, <1>6
<1>8. HeaderLen = SignatureLen + 4
  BY SignatureIs
<1>9. \A k \in {1, 2, 3, 4} : y[SignatureLen + k] = h[k]
  BY ONLY <1>7
<1> QED BY ONLY <1>3, <1>6, <1>7, <1>8, <1>9

LEMMA EncodeIs ==
    ASSUME NEW q \in Packet, NEW x, x = Encode(q)
    PROVE  FrameIs(x, q)
<1>1. PICK y : y = Header(q)
  OBVIOUS
<1>2. /\ y \in Seq(Byte) /\ Len(y) = HeaderLen
      /\ \A k \in 1 .. SignatureLen : y[k] = Signature[k]
      /\ y[SignatureLen + 1] = q.type /\ y[SignatureLen + 2] = Len(q.data)
      /\ y[SignatureLen + 3] = q.from /\ y[SignatureLen + 4] = q.to
  BY <1>1, HeaderIs
<1>3. x = Joined(y, q.data)
  BY <1>1 DEF Encode, Joined
<1>4. q.data \in Seq(Byte)
  BY PacketIs
<1>5. /\ x \in Seq(Byte) /\ Len(x) = HeaderLen + Len(q.data)
      /\ \A k \in 1 .. HeaderLen : x[k] = y[k]
      /\ \A k \in 1 .. Len(q.data) : x[HeaderLen + k] = q.data[k]
  <2>1. y \in Seq(Byte)
    BY <1>2
  <2>2. x \in Seq(Byte) /\ TwoParts(y, q.data, x)
    BY ONLY <1>3, <1>4, <2>1, PartsOfJoined
  <2> QED BY ONLY <1>2, <2>2 DEF TwoParts
<1>6. SignatureLen \in Nat /\ HeaderLen = SignatureLen + 4
  BY SignatureIs
<1>7. /\ \A k \in 1 .. SignatureLen : k \in 1 .. HeaderLen
      /\ \A k \in {1, 2, 3, 4} : SignatureLen + k \in 1 .. HeaderLen
  BY ONLY <1>6
<1>8. \A k \in {1, 2, 3, 4} : x[SignatureLen + k] = y[SignatureLen + k]
  BY ONLY <1>5, <1>7
<1>9. \A k \in 1 .. SignatureLen : x[k] = Signature[k]
  BY ONLY <1>2, <1>5, <1>7
<1> QED BY ONLY <1>2, <1>5, <1>8, <1>9 DEF FrameIs

LEMMA DecodeIs ==
    ASSUME NEW q \in Packet, NEW x, FrameIs(x, q)
    PROVE  Decode(x) = q
<1>1. /\ x \in Seq(Byte) /\ Len(x) = HeaderLen + Len(q.data)
      /\ x[SignatureLen + 1] = q.type
      /\ x[SignatureLen + 3] = q.from /\ x[SignatureLen + 4] = q.to
      /\ \A k \in 1 .. Len(q.data) : x[HeaderLen + k] = q.data[k]
  BY DEF FrameIs
<1>2. PICK d : d = q.data /\ d \in Seq(Byte)
  BY PacketIs
<1>3. PICK m \in Nat, h \in Nat : m = Len(d) /\ h = HeaderLen
  BY <1>2, SignatureIs, LenProperties
<1>4. PICK v : v = SubSeq(x, h + 1, h + m)
  OBVIOUS
<1>5. /\ v \in Seq(Byte) /\ Len(v) = m /\ \A i \in 1 .. m : v[i] = x[h + i]
  <2>1. \A i \in (h + 1) .. (h + m) : x[i] \in Byte
    <3>1. \A i \in (h + 1) .. (h + m) : i \in 1 .. (h + m)
      BY ONLY m \in Nat, h \in Nat
    <3>2. \A i \in 1 .. Len(x) : x[i] \in Byte
      BY ONLY <1>1, ElementOfSeq
    <3>3. Len(x) = h + m
      BY <1>1, <1>2, <1>3
    <3> QED BY ONLY <3>1, <3>2, <3>3
  <2>2. h + 1 \in Int /\ h + m \in Int
    BY ONLY m \in Nat, h \in Nat
  <2>3. /\ v \in Seq(Byte)
        /\ Len(v) = (IF h + 1 <= h + m THEN (h + m) - (h + 1) + 1 ELSE 0)
        /\ \A i \in 1 .. ((h + m) - (h + 1) + 1) : v[i] = x[(h + 1) + i - 1]
    BY ONLY <1>4, <2>1, <2>2, SubSeqProperties
  <2> QED BY ONLY <2>3, m \in Nat, h \in Nat
<1>6. v = d
  <2>1. \A i \in 1 .. m : v[i] = d[i]
    BY <1>1, <1>2, <1>3, <1>5
  <2> QED BY ONLY <1>2, <1>3, <1>5, <2>1, SeqEqual
<1>7. Decode(x) = New(q.type, q.from, q.to, v)
  <2>1. HeaderLen + 1 = h + 1 /\ Len(x) = h + m
    BY <1>1, <1>2, <1>3
  <2> QED BY <1>1, <1>4, <2>1 DEF Decode
<1> QED BY ONLY <1>2, <1>6, <1>7, q \in Packet, PacketIs

(* What the host puts onto the line for what it sends.                      *)
WireOf(x, q) ==
    \/ q \in HostPackets /\ x = Encode(q)
    \/ \E byte \in RawBytes : x = <<byte>> /\ q = Unframed(<<byte>>)

Wires(w, pending) ==
    /\ w \in Seq(Seq(Byte)) /\ pending \in Seq(Arrivals)
    /\ Len(w) = Len(pending)
    /\ \A k \in 1 .. Len(w) : WireOf(w[k], pending[k])

(* What the host has sent, s, is what was parsed, p, and what is pending:   *)
(* the bytes that wait in the receiver, rb, and on the line, tk, are those  *)
(* of the pending packets; of the first of them the receiver has a part,    *)
(* and once it has read its length it knows the end.                        *)
FramesWith(s, p, rb, n, tk, w, pending) ==
    /\ Wires(w, pending)
    /\ s = Joined(p, pending) /\ Joined(rb, tk) = FlattenSeq(w)
    /\ IF w = <<>> THEN rb = <<>>
       ELSE Len(rb) < Len(w[1]) /\ (Len(rb) >= LenAt => n = Len(w[1]))

FramesAre(s, p, rb, n, tk) ==
    \E w, pending : FramesWith(s, p, rb, n, tk, w, pending)

FrameTypes(s, p, rb, tk) ==
    /\ s \in Seq(Arrivals) /\ p \in Seq(Arrivals)
    /\ rb \in Seq(Byte) /\ tk \in Seq(Byte)

LEMMA WireIs ==
    ASSUME NEW x, NEW q, WireOf(x, q)
    PROVE  /\ x \in Seq(Byte) /\ q \in Arrivals /\ Len(x) \in Nat \ {0}
           /\ Len(x) <= HeaderLen + MaxLen
           /\ \/ q \in Packet /\ FrameIs(x, q) /\ Len(q.data) <= MaxLen
              \/ \E byte \in RawBytes : x = <<byte>> /\ q = Unframed(<<byte>>)
<1>0. /\ MaxLen \in Nat /\ HeaderLen \in Nat /\ HeaderLen >= 1
  BY SignatureIs, SerialAssumption
<1>1. CASE q \in HostPackets /\ x = Encode(q)
  <2>1. q \in Packet /\ Len(q.data) <= MaxLen
    BY <1>1, SerialAssumption, HostAssumption
  <2>2. FrameIs(x, q)
    BY ONLY <1>1, <2>1, EncodeIs
  <2>3. q.data \in Seq(Byte)
    BY ONLY <2>1, PacketIs
  <2>4. Len(q.data) \in Nat
    BY ONLY <2>3, LenProperties
  <2>5. x \in Seq(Byte) /\ Len(x) = HeaderLen + Len(q.data)
    BY <2>2 DEF FrameIs
  <2>6. Len(x) \in Nat \ {0} /\ Len(x) <= HeaderLen + MaxLen
    BY ONLY <1>0, <2>1, <2>4, <2>5
  <2>7. q \in Arrivals
    BY <1>1 DEF Arrivals
  <2> QED BY <2>1, <2>2, <2>5, <2>6, <2>7
<1>2. ASSUME NEW byte \in RawBytes, x = <<byte>>, q = Unframed(<<byte>>)
      PROVE  /\ x \in Seq(Byte) /\ q \in Arrivals /\ Len(x) \in Nat \ {0}
             /\ Len(x) <= HeaderLen + MaxLen
  <2>1. q \in Arrivals
    BY <1>2 DEF Arrivals
  <2>2. byte \in Byte
    BY SignatureIs
  <2>3. x \in Seq(Byte) /\ Len(x) = 1
    BY ONLY <1>2, <2>2, OneByte
  <2> QED BY ONLY <1>0, <2>1, <2>3
<1> QED BY <1>1, <1>2 DEF WireOf

(* The host sends.                                                          *)
LEMMA FramesSent ==
    ASSUME NEW s, NEW p, NEW rb, NEW n, NEW tk, FrameTypes(s, p, rb, tk),
           FramesAre(s, p, rb, n, tk), NEW x, NEW q, WireOf(x, q),
           NEW t, Appended(s, q, t), NEW l, l = Joined(tk, x)
    PROVE  FrameTypes(t, p, rb, l) /\ FramesAre(t, p, rb, n, l)
<1>0. /\ s \in Seq(Arrivals) /\ p \in Seq(Arrivals)
      /\ rb \in Seq(Byte) /\ tk \in Seq(Byte)
  BY DEF FrameTypes
<1>1. PICK w, pending : FramesWith(s, p, rb, n, tk, w, pending)
  BY DEF FramesAre
<1>2. /\ x \in Seq(Byte) /\ q \in Arrivals /\ Len(x) \in Nat \ {0}
  BY WireIs
<1>3. /\ w \in Seq(Seq(Byte)) /\ pending \in Seq(Arrivals) /\ Len(w) = Len(pending)
      /\ \A k \in 1 .. Len(w) : WireOf(w[k], pending[k])
      /\ s = Joined(p, pending) /\ Joined(rb, tk) = FlattenSeq(w)
      /\ IF w = <<>> THEN rb = <<>>
         ELSE Len(rb) < Len(w[1]) /\ (Len(rb) >= LenAt => n = Len(w[1]))
  BY <1>1 DEF FramesWith, Wires
<1>4. PICK v : v = Append(w, x)
  OBVIOUS
<1>5. PICK r : r = Append(pending, q) /\ Appended(pending, q, r)
  BY DEF Appended
<1>6. PICK m \in Nat : m = Len(w)
  BY <1>3, LenProperties
<1>7. /\ v \in Seq(Seq(Byte)) /\ Len(v) = m + 1 /\ v[m + 1] = x
      /\ \A k \in 1 .. m : v[k] = w[k]
  <2>1. w \in Seq(Seq(Byte))
    BY <1>3
  <2> QED BY ONLY <1>2, <1>4, <1>6, <2>1, AppendProperties
<1>8. /\ r \in Seq(Arrivals) /\ Len(r) = m + 1 /\ r[m + 1] = q
      /\ \A k \in 1 .. m : r[k] = pending[k]
  <2>1. pending \in Seq(Arrivals) /\ Len(pending) = m
    BY <1>3, <1>6
  <2> QED BY ONLY <1>2, <1>5, <2>1, AppendProperties
<1>9. Wires(v, r)
  <2>1. \A k \in 1 .. m : WireOf(v[k], r[k])
    BY <1>3, <1>6, <1>7, <1>8
  <2>2. \A k \in 1 .. (m + 1) : k \in 1 .. m \/ k = m + 1
    BY <1>6
  <2>3. \A k \in 1 .. (m + 1) : WireOf(v[k], r[k])
    BY <1>7, <1>8, <2>1, <2>2
  <2> QED BY <1>7, <1>8, <2>3 DEF Wires
<1>10. t = Joined(p, r)
  <2>1. pending \in Seq(Arrivals) /\ s = Joined(p, pending)
    BY <1>3
  <2>2. Appended(Joined(p, pending), q, Joined(p, r))
    BY ONLY <1>0, <1>2, <1>5, <2>1, JoinedAppend
  <2> QED BY ONLY <2>1, <2>2, Appended(s, q, t) DEF Appended
<1>11. Joined(rb, l) = FlattenSeq(v)
  <2>1. w \in Seq(Seq(Byte)) /\ Joined(rb, tk) = FlattenSeq(w)
    BY <1>3
  <2>2. FlattenSeq(v) = Joined(FlattenSeq(w), x)
    BY ONLY <1>2, <1>4, <2>1, FlattenAppend
  <2>3. Joined(Joined(rb, tk), x) = Joined(rb, Joined(tk, x))
    <3>1. x \in Seq(Byte) /\ rb \in Seq(Byte) /\ tk \in Seq(Byte)
      BY <1>0, <1>2
    <3> QED BY ONLY <3>1, JoinedRegroup
  <2> QED BY ONLY <2>1, <2>2, <2>3, l = Joined(tk, x)
<1>12. /\ v # <<>>
       /\ Len(rb) < Len(v[1]) /\ (Len(rb) >= LenAt => n = Len(v[1]))
  <2>1. v # <<>>
    <3>1. Len(v) # 0
      BY <1>6, <1>7
    <3> QED BY ONLY <3>1, EmptySeq
  <2>2. CASE w = <<>>
    <3>1. m = 0 /\ rb = <<>>
      BY ONLY <1>3, <1>6, <2>2, EmptySeq
    <3>2. Len(rb) = 0
      BY ONLY <3>1, EmptySeq
    <3>3. v[1] = x
      BY <1>7, <3>1
    <3>4. LenAt > 0 /\ LenAt \in Nat
      BY SignatureIs
    <3> QED BY ONLY <1>2, <2>1, <3>2, <3>3, <3>4
  <2>3. CASE w # <<>>
    <3>1. m # 0
      BY <1>3, <1>6, <2>3, EmptySeq
    <3>2. v[1] = w[1]
      BY <1>6, <1>7, <3>1
    <3> QED BY ONLY <1>3, <2>1, <2>3, <3>2
  <2> QED BY <2>2, <2>3
<1>13. FramesAre(t, p, rb, n, l)
  <2>1. FramesWith(t, p, rb, n, l, v, r)
    BY ONLY <1>9, <1>10, <1>11, <1>12 DEF FramesWith
  <2> QED BY <2>1 DEF FramesAre
<1>14. t \in Seq(Arrivals)
  BY <1>0, <1>2, AppendProperties DEF Appended
<1>15. l \in Seq(Byte)
  BY <1>0, <1>2, JoinedType
<1> QED BY ONLY <1>0, <1>13, <1>14, <1>15 DEF FrameTypes

(* The first packet that is pending has arrived as a whole.                 *)
ArrivedWhole(w, pending, s, p, bytes, l) ==
    /\ Wires(w, pending) /\ w # <<>> /\ bytes = w[1]
    /\ s = Joined(p, pending) /\ Joined(bytes, l) = FlattenSeq(w)

LEMMA WiresTail ==
    ASSUME NEW w, NEW pending, Wires(w, pending), w # <<>>
    PROVE  /\ WireOf(w[1], pending[1]) /\ pending # <<>>
           /\ Head(pending) = pending[1]
           /\ Wires(Tail(w), Tail(pending))
           /\ FlattenSeq(w) = Joined(w[1], FlattenSeq(Tail(w)))
           /\ FlattenSeq(Tail(w)) \in Seq(Byte)
<1>1. /\ w \in Seq(Seq(Byte)) /\ pending \in Seq(Arrivals)
      /\ Len(w) = Len(pending)
      /\ \A k \in 1 .. Len(w) : WireOf(w[k], pending[k])
  BY DEF Wires
<1>2. PICK n \in Nat : n = Len(w)
  BY <1>1, LenProperties
<1>3. n # 0
  <2>1. PICK T : T = Seq(Byte)
    OBVIOUS
  <2>2. w \in Seq(T)
    BY <1>1, <2>1
  <2> QED BY ONLY <1>2, <2>2, w # <<>>, EmptySeq
<1>4. pending # <<>>
  BY <1>1, <1>2, <1>3, EmptySeq
<1>5. PICK u : u = Tail(w)
  OBVIOUS
<1>6. PICK r : r = Tail(pending)
  OBVIOUS
<1>7. u \in Seq(Seq(Byte)) /\ FlattenSeq(w) = Joined(w[1], FlattenSeq(u))
  BY ONLY <1>1, <1>5, w # <<>>, FlattenHead
<1>8. Len(u) = n - 1 /\ \A k \in 1 .. Len(u) : u[k] = w[k + 1]
  <2>1. w \in Seq(Seq(Byte))
    BY <1>1
  <2> QED BY ONLY <1>2, <1>5, <2>1, w # <<>>, HeadTailProperties
<1>9. /\ r \in Seq(Arrivals) /\ Len(r) = n - 1
      /\ \A k \in 1 .. Len(r) : r[k] = pending[k + 1]
  <2>1. pending \in Seq(Arrivals) /\ Len(pending) = n
    BY <1>1, <1>2
  <2> QED BY ONLY <1>4, <1>6, <2>1, HeadTailProperties
<1>10. \A k \in 1 .. (n - 1) : k + 1 \in 1 .. n
  BY ONLY n \in Nat
<1>11. \A k \in 1 .. Len(u) : WireOf(u[k], r[k])
  BY <1>1, <1>2, <1>8, <1>9, <1>10
<1>12. Wires(u, r)
  BY ONLY <1>7, <1>8, <1>9, <1>11 DEF Wires
<1>13. WireOf(w[1], pending[1])
  <2>1. 1 \in 1 .. n
    BY ONLY <1>3, n \in Nat
  <2> QED BY <1>1, <1>2, <2>1
<1>14. FlattenSeq(u) \in Seq(Byte)
  BY ONLY <1>7, FlattenType
<1>15. Head(pending) = pending[1]
  OBVIOUS
<1> QED BY ONLY <1>4, <1>5, <1>6, <1>7, <1>12, <1>13, <1>14, <1>15

LEMMA FramesWhole ==
    ASSUME NEW w, NEW pending, NEW s, NEW p \in Seq(Arrivals), NEW bytes,
           NEW l \in Seq(Byte), ArrivedWhole(w, pending, s, p, bytes, l),
           NEW n, NEW r, Appended(p, pending[1], r)
    PROVE  r \in Seq(Arrivals) /\ FramesAre(s, r, <<>>, n, l)
<1>0. /\ Wires(w, pending) /\ w # <<>> /\ bytes = w[1]
      /\ s = Joined(p, pending) /\ Joined(bytes, l) = FlattenSeq(w)
  BY DEF ArrivedWhole
<1>1. /\ WireOf(w[1], pending[1]) /\ pending # <<>>
      /\ Head(pending) = pending[1]
      /\ Wires(Tail(w), Tail(pending))
      /\ FlattenSeq(w) = Joined(w[1], FlattenSeq(Tail(w)))
      /\ FlattenSeq(Tail(w)) \in Seq(Byte)
  BY ONLY <1>0, WiresTail
<1>2. PICK u, t, y : u = Tail(w) /\ t = Tail(pending) /\ y = FlattenSeq(u)
  OBVIOUS
<1>3. bytes \in Seq(Byte) /\ Len(bytes) <= Len(bytes)
  <2>1. bytes \in Seq(Byte) /\ Len(bytes) \in Nat
    BY ONLY <1>0, <1>1, WireIs
  <2> QED BY ONLY <2>1
<1>4. l = y
  <2>1. PICK z : z = Joined(bytes, l)
    OBVIOUS
  <2>2. z = Joined(bytes, y) /\ y \in Seq(Byte)
    BY ONLY <1>0, <1>1, <1>2, <2>1
  <2> QED BY ONLY <1>3, <2>1, <2>2, l \in Seq(Byte), JoinedBegins
<1>5. s = Joined(r, t) /\ r \in Seq(Arrivals)
  <2>1. pending \in Seq(Arrivals)
    BY <1>0 DEF Wires
  <2>2. /\ Joined(Append(p, Head(pending)), Tail(pending)) = Joined(p, pending)
        /\ Append(p, Head(pending)) \in Seq(Arrivals)
    BY ONLY <1>1, <2>1, p \in Seq(Arrivals), OneByteOn
  <2> QED BY ONLY <1>0, <1>1, <1>2, <2>2, Appended(p, pending[1], r) DEF Appended
<1>6. Joined(<<>>, l) = FlattenSeq(u)
  <2>1. Joined(<<>>, l) = l
    BY ONLY l \in Seq(Byte), JoinedEmpty
  <2> QED BY ONLY <1>2, <1>4, <2>1
<1>7. Wires(u, t)
  BY ONLY <1>1, <1>2
<1>8. ASSUME u # <<>>
      PROVE  Len(<<>>) < Len(u[1]) /\ (Len(<<>>) >= LenAt => n = Len(u[1]))
  <2>1. WireOf(u[1], t[1])
    BY ONLY <1>7, <1>8, WiresTail
  <2>2. Len(u[1]) \in Nat \ {0}
    BY ONLY <2>1, WireIs
  <2>3. LenAt > 0 /\ LenAt \in Nat
    BY SignatureIs
  <2>4. Len(<<>>) = 0
    BY EmptySeq
  <2> QED BY ONLY <2>2, <2>3, <2>4
<1>9. FramesWith(s, r, <<>>, n, l, u, t)
  BY ONLY <1>5, <1>6, <1>7, <1>8 DEF FramesWith
<1> QED BY <1>5, <1>9 DEF FramesAre

(* What the receiver makes of one byte more.                                *)
Unknown(bytes) == Len(bytes) <= SignatureLen /\ ~IsPrefix(bytes, Signature)
Ready(bytes, n) == Len(bytes) > LenAt /\ Len(bytes) = n
LenAfter(bytes, n) ==
    IF Len(bytes) = LenAt THEN Announced(Last(bytes)) ELSE n

Taken(s, p, q, n, l) ==
    /\ q \in Arrivals
    /\ \A r : Appended(p, q, r) => r \in Seq(Arrivals) /\ FramesAre(s, r, <<>>, n, l)

OneMore(s, p, bytes, n, l) ==
    /\ Unknown(bytes) => Taken(s, p, Unframed(bytes), n, l)
    /\ ~Unknown(bytes) /\ Ready(bytes, n) => Taken(s, p, Decode(bytes), n, l)
    /\ ~Unknown(bytes) /\ ~Ready(bytes, n) =>
          FramesAre(s, p, bytes, LenAfter(bytes, n), l)

LEMMA FramesByte ==
    ASSUME NEW s, NEW p, NEW rb, NEW n, NEW tk, FrameTypes(s, p, rb, tk),
           FramesAre(s, p, rb, n, tk), tk # <<>>,
           NEW bytes, bytes = Append(rb, Head(tk)), NEW l, l = Tail(tk)
    PROVE  /\ bytes \in Seq(Byte) /\ l \in Seq(Byte)
           /\ OneMore(s, p, bytes, n, l)
<1>0. /\ p \in Seq(Arrivals) /\ rb \in Seq(Byte) /\ tk \in Seq(Byte)
  BY DEF FrameTypes
<1>1. PICK w, pending : FramesWith(s, p, rb, n, tk, w, pending)
  BY DEF FramesAre
<1>2. /\ Wires(w, pending)
      /\ s = Joined(p, pending) /\ Joined(rb, tk) = FlattenSeq(w)
      /\ IF w = <<>> THEN rb = <<>>
         ELSE Len(rb) < Len(w[1]) /\ (Len(rb) >= LenAt => n = Len(w[1]))
  BY <1>1 DEF FramesWith
<1>3. /\ Joined(bytes, l) = Joined(rb, tk)
      /\ bytes \in Seq(Byte) /\ l \in Seq(Byte)
  BY ONLY <1>0, tk # <<>>, bytes = Append(rb, Head(tk)), l = Tail(tk), OneByteOn
<1>4. w # <<>>
  <2> SUFFICES ASSUME w = <<>> PROVE FALSE
    OBVIOUS
  <2>1. rb = <<>> /\ FlattenSeq(w) = <<>>
    BY <1>2, FlattenEmpty
  <2>2. Joined(rb, tk) = tk
    BY ONLY <1>0, <2>1, JoinedEmpty
  <2> QED BY ONLY <1>2, <2>1, <2>2, tk # <<>>
<1>5. PICK x, q, y : x = w[1] /\ q = pending[1] /\ y = FlattenSeq(Tail(w))
  OBVIOUS
<1>6. WireOf(x, q) /\ FlattenSeq(w) = Joined(x, y) /\ y \in Seq(Byte)
  BY ONLY <1>2, <1>4, <1>5, WiresTail
<1>7. /\ x \in Seq(Byte) /\ q \in Arrivals /\ Len(x) \in Nat \ {0}
      /\ \/ q \in Packet /\ FrameIs(x, q) /\ Len(q.data) <= MaxLen
         \/ \E byte \in RawBytes : x = <<byte>> /\ q = Unframed(<<byte>>)
  BY ONLY <1>6, WireIs
<1>8. /\ Len(bytes) = Len(rb) + 1 /\ Len(rb) \in Nat
      /\ Len(bytes) <= Len(x) /\ (Len(rb) >= LenAt => n = Len(x))
  <2>1. Head(tk) \in Byte
    BY ONLY <1>0, tk # <<>>, HeadTailProperties
  <2>2. Len(bytes) = Len(rb) + 1
    BY ONLY <1>0, <2>1, bytes = Append(rb, Head(tk)), AppendProperties
  <2>3. Len(rb) \in Nat
    BY ONLY <1>0, LenProperties
  <2>4. Len(rb) < Len(x) /\ (Len(rb) >= LenAt => n = Len(x))
    BY ONLY <1>2, <1>4, <1>5
  <2> QED BY ONLY <1>7, <2>2, <2>3, <2>4
<1>9. Begins(bytes, x) /\ (Len(bytes) = Len(x) => bytes = x)
  <2>1. PICK z : z = Joined(bytes, l)
    OBVIOUS
  <2>2. z = Joined(x, y)
    BY ONLY <1>2, <1>3, <1>6, <2>1
  <2>3. bytes \in Seq(Byte) /\ l \in Seq(Byte) /\ x \in Seq(Byte) /\ y \in Seq(Byte)
    BY ONLY <1>3, <1>6, <1>7
  <2>4. Len(bytes) <= Len(x)
    BY <1>8
  <2> QED BY ONLY <2>1, <2>2, <2>3, <2>4, JoinedBegins
<1>10. ASSUME bytes = x PROVE Taken(s, p, q, n, l)
  <2>1. ArrivedWhole(w, pending, s, p, bytes, l)
    BY ONLY <1>2, <1>3, <1>4, <1>5, <1>10 DEF ArrivedWhole
  <2>2. ASSUME NEW r, Appended(p, q, r)
        PROVE  r \in Seq(Arrivals) /\ FramesAre(s, r, <<>>, n, l)
    <3>1. Appended(p, pending[1], r)
      BY <1>5, <2>2
    <3> QED BY ONLY <1>0, <1>3, <2>1, <3>1, FramesWhole
  <2> QED BY ONLY <1>7, <2>2 DEF Taken
<1>11. ASSUME NEW byte \in RawBytes, x = <<byte>>, q = Unframed(<<byte>>)
       PROVE  OneMore(s, p, bytes, n, l)
  <2>1. byte \in Byte /\ byte # Signature[1]
    BY SignatureIs
  <2>2. Len(x) = 1 /\ x[1] = byte
    BY ONLY <1>11, <2>1, OneByte
  <2>3. bytes = x
    BY ONLY <1>8, <1>9, <2>2
  <2>4. q = Unframed(bytes)
    BY <1>11, <2>3
  <2>5. ~IsPrefix(bytes, Signature)
    <3>1. ~Begins(bytes, Signature)
      <4>1. 1 \in 1 .. Len(bytes) /\ bytes[1] = byte
        BY ONLY <2>2, <2>3
      <4> QED BY ONLY <2>1, <4>1 DEF Begins
    <3>2. Signature \in Seq(Byte)
      BY SignatureIs
    <3> QED BY ONLY <1>3, <3>1, <3>2, PrefixIsBegin
  <2>6. Unknown(bytes)
    <3>1. SignatureLen \in Nat \ {0}
      BY SignatureIs
    <3>2. Len(bytes) <= SignatureLen
      <4>1. PICK m : m = Len(bytes) /\ m = 1
        BY ONLY <2>2, <2>3
      <4> QED BY ONLY <3>1, <4>1
    <3> QED BY ONLY <2>5, <3>2 DEF Unknown
  <2>7. Taken(s, p, Unframed(bytes), n, l)
    BY ONLY <1>10, <2>3, <2>4
  <2> QED BY ONLY <2>6, <2>7 DEF OneMore
<1>12. ASSUME q \in Packet, FrameIs(x, q), Len(q.data) <= MaxLen
       PROVE  OneMore(s, p, bytes, n, l)
  <2>1. /\ Len(x) = HeaderLen + Len(q.data)
        /\ \A k \in 1 .. SignatureLen : x[k] = Signature[k]
        /\ x[SignatureLen + 2] = Len(q.data)
    BY <1>12 DEF FrameIs
  <2>2. /\ SignatureLen \in Nat \ {0} /\ Len(Signature) = SignatureLen
        /\ LenAt = SignatureLen + 2 /\ HeaderLen = SignatureLen + 4
    BY SignatureIs
  <2>3. Len(q.data) \in Nat
    <3>1. q.data \in Seq(Byte)
      BY ONLY <1>12, PacketIs
    <3> QED BY ONLY <3>1, LenProperties
  <2>4. Len(bytes) <= SignatureLen => IsPrefix(bytes, Signature)
    <3>1. ASSUME Len(bytes) <= SignatureLen PROVE Begins(bytes, Signature)
      <4>1. \A k \in 1 .. Len(bytes) : bytes[k] = x[k]
        BY <1>9 DEF Begins
      <4>2. \A k \in 1 .. Len(bytes) : k \in 1 .. SignatureLen
        BY ONLY <1>8, <2>2, <3>1
      <4> QED BY ONLY <2>1, <2>2, <3>1, <4>1, <4>2 DEF Begins
    <3>2. Signature \in Seq(Byte)
      BY SignatureIs
    <3> QED BY ONLY <1>3, <3>1, <3>2, PrefixIsBegin
  <2>5. ~Unknown(bytes)
    BY ONLY <2>4 DEF Unknown
  <2>6. Len(bytes) > LenAt => n = Len(x)
    BY ONLY <1>8, <2>2
  <2>7. ASSUME Ready(bytes, n) PROVE Taken(s, p, Decode(bytes), n, l)
    <3>1. Len(bytes) = Len(x)
      BY ONLY <2>6, <2>7 DEF Ready
    <3>2. bytes = x
      BY ONLY <1>9, <3>1
    <3>3. Decode(x) = q
      BY ONLY <1>12, DecodeIs
    <3>4. Taken(s, p, q, n, l)
      BY ONLY <1>10, <3>2
    <3> QED BY ONLY <3>2, <3>3, <3>4
  <2>8. ASSUME ~Ready(bytes, n)
        PROVE  FramesAre(s, p, bytes, LenAfter(bytes, n), l)
    <3>1. Len(bytes) < Len(x)
      <4>1. Len(bytes) # Len(x)
        <5> SUFFICES ASSUME Len(bytes) = Len(x) PROVE FALSE
          OBVIOUS
        <5>1. Len(bytes) > LenAt
          BY ONLY <2>1, <2>2, <2>3, Len(bytes) = Len(x)
        <5> QED BY ONLY <2>6, <2>8, <5>1, Len(bytes) = Len(x) DEF Ready
      <4> QED BY ONLY <1>7, <1>8, <4>1
    <3>2. ASSUME Len(bytes) >= LenAt PROVE LenAfter(bytes, n) = Len(x)
      <4>1. CASE Len(bytes) = LenAt
        <5>1. LenAt \in 1 .. Len(bytes)
          BY ONLY <2>2, <4>1
        <5>2. bytes[LenAt] = x[LenAt]
          BY ONLY <1>9, <5>1 DEF Begins
        <5>3. Last(bytes) = Len(q.data)
          BY ONLY <2>1, <2>2, <4>1, <5>2 DEF Last
        <5>4. Announced(Len(q.data)) = HeaderLen + Len(q.data)
          <6>1. ~(Len(q.data) > MaxLen)
            BY <1>12, <2>3, SerialAssumption
          <6> QED BY <6>1 DEF Announced
        <5> QED BY ONLY <2>1, <4>1, <5>3, <5>4 DEF LenAfter
      <4>2. CASE Len(bytes) # LenAt
        <5>1. Len(bytes) > LenAt
          BY ONLY <1>8, <2>2, <3>2, <4>2
        <5> QED BY ONLY <2>6, <4>2, <5>1 DEF LenAfter
      <4> QED BY <4>1, <4>2
    <3>3. FramesWith(s, p, bytes, LenAfter(bytes, n), l, w, pending)
      BY ONLY <1>2, <1>3, <1>4, <1>5, <3>1, <3>2 DEF FramesWith
    <3> QED BY <3>3 DEF FramesAre
  <2> QED BY ONLY <2>5, <2>7, <2>8 DEF OneMore
<1> QED BY ONLY <1>3, <1>7, <1>11, <1>12

(* What follows for the packets that were parsed.                           *)
LEMMA FramesPrefix ==
    ASSUME NEW s, NEW p, NEW rb, NEW n, NEW tk, FrameTypes(s, p, rb, tk),
           FramesAre(s, p, rb, n, tk)
    PROVE  /\ IsPrefix(p, s) /\ Len(rb) < HeaderLen + MaxLen
           /\ rb = <<>> /\ tk = <<>> => p = s
<1>0. /\ s \in Seq(Arrivals) /\ p \in Seq(Arrivals)
      /\ rb \in Seq(Byte) /\ tk \in Seq(Byte)
  BY DEF FrameTypes
<1>1. PICK w, pending : FramesWith(s, p, rb, n, tk, w, pending)
  BY DEF FramesAre
<1>2. /\ Wires(w, pending)
      /\ s = Joined(p, pending) /\ Joined(rb, tk) = FlattenSeq(w)
      /\ IF w = <<>> THEN rb = <<>>
         ELSE Len(rb) < Len(w[1]) /\ (Len(rb) >= LenAt => n = Len(w[1]))
  BY <1>1 DEF FramesWith
<1>3. pending \in Seq(Arrivals) /\ w \in Seq(Seq(Byte)) /\ Len(w) = Len(pending)
  BY <1>2 DEF Wires
<1>4. IsPrefix(p, s)
  BY ONLY <1>0, <1>2, <1>3, JoinedPrefix
<1>5. /\ MaxLen \in Nat /\ HeaderLen \in Nat /\ HeaderLen >= 1 /\ Len(<<>>) = 0
  BY SignatureIs, SerialAssumption, EmptySeq
<1>6. CASE w = <<>>
  <2>1. Len(rb) < HeaderLen + MaxLen
    BY ONLY <1>2, <1>5, <1>6
  <2>2. pending = <<>>
    BY ONLY <1>3, <1>6, EmptySeq
  <2>3. p = s
    BY ONLY <1>0, <1>2, <2>2, JoinedEmpty
  <2> QED BY ONLY <1>4, <2>1, <2>3
<1>7. CASE w # <<>>
  <2>1. WireOf(w[1], pending[1]) /\ FlattenSeq(w) = Joined(w[1], FlattenSeq(Tail(w)))
        /\ FlattenSeq(Tail(w)) \in Seq(Byte)
    BY ONLY <1>2, <1>7, WiresTail
  <2>2. /\ w[1] \in Seq(Byte) /\ Len(w[1]) \in Nat \ {0}
        /\ Len(w[1]) <= HeaderLen + MaxLen
    BY ONLY <2>1, WireIs
  <2>3. Len(rb) \in Nat
    BY ONLY <1>0, LenProperties
  <2>4. Len(rb) < HeaderLen + MaxLen
    BY ONLY <1>2, <1>5, <1>7, <2>2, <2>3
  <2>5. ASSUME rb = <<>>, tk = <<>> PROVE FALSE
    <3>1. Joined(rb, tk) = <<>>
      BY ONLY <1>0, <2>5, JoinedEmpty
    <3>2. PICK z : z = FlattenSeq(w)
      OBVIOUS
    <3>3. PICK y : y = FlattenSeq(Tail(w)) /\ y \in Seq(Byte)
      BY <2>1
    <3>4. TwoParts(w[1], y, z)
      <4>1. z = Joined(w[1], y)
        BY ONLY <2>1, <3>2, <3>3
      <4>2. w[1] \in Seq(Byte) /\ y \in Seq(Byte)
        BY ONLY <2>2, <3>3
      <4> QED BY ONLY <4>1, <4>2, PartsOfJoined
    <3>5. Len(z) = 0
      BY ONLY <1>2, <1>5, <3>1, <3>2
    <3> QED BY ONLY <2>2, <3>4, <3>5 DEF TwoParts
  <2> QED BY ONLY <1>4, <2>4, <2>5
<1> QED BY <1>6, <1>7

(* While nobody is connected: what the host has typed is on the line, then  *)
(* what is left of its signature, then what it has typed since.             *)
SignatureFrom(k) == SubSeq(Signature, k + 1, SignatureLen)

GreetWith(g, ci, s, tk, typed, w) ==
    /\ ci \in 0 .. (SignatureLen - 1) /\ typed \in Seq(RawBytes) /\ Wires(w, s)
    /\ ci # 0 => typed = <<>>
    /\ IF g THEN tk = Joined(typed, Joined(SignatureFrom(ci), FlattenSeq(w)))
       ELSE ci = 0 /\ s = <<>> /\ tk = typed

Greets(g, ci, s, tk) == \E typed, w : GreetWith(g, ci, s, tk, typed, w)

LEMMA NoWires == Wires(<<>>, <<>>)
<1>1. <<>> \in Seq(Seq(Byte)) /\ <<>> \in Seq(Arrivals) /\ Len(<<>>) = 0
  BY EmptySeq
<1>2. \A k \in 1 .. Len(<<>>) : FALSE
  BY ONLY <1>1
<1> QED BY ONLY <1>1, <1>2 DEF Wires

LEMMA SignatureParts ==
    /\ SignatureFrom(0) = Signature
    /\ SignatureFrom(SignatureLen) = <<>>
    /\ \A k \in 0 .. SignatureLen : SignatureFrom(k) \in Seq(Byte)
    /\ \A k \in 0 .. (SignatureLen - 1) :
          SignatureFrom(k) = Joined(<<Signature[k + 1]>>, SignatureFrom(k + 1))
<1>0. /\ SignatureLen \in Nat \ {0} /\ Len(Signature) = SignatureLen
      /\ Signature \in Seq(Byte)
      /\ \A k \in 1 .. SignatureLen : Signature[k] \in Byte
  BY SignatureIs
<1>1. SignatureFrom(0) = Signature
  <2>1. SubSeq(Signature, 1, Len(Signature)) = Signature
    BY ONLY <1>0, SubSeqFull
  <2> QED BY <1>0, <2>1 DEF SignatureFrom
<1>2. SignatureFrom(SignatureLen) = <<>>
  <2>1. PICK m, n \in Int : m = SignatureLen + 1 /\ n = SignatureLen /\ n < m
    BY <1>0
  <2>2. SubSeq(Signature, m, n) = <<>>
    BY ONLY m \in Int, n \in Int, <2>1, SubSeqEmpty
  <2> QED BY <2>1, <2>2 DEF SignatureFrom
<1>3. ASSUME NEW k \in 0 .. SignatureLen PROVE SignatureFrom(k) \in Seq(Byte)
  <2>1. PICK m, n \in Int : m = k + 1 /\ n = SignatureLen
    BY <1>0
  <2>2. \A i \in m .. n : i \in 1 .. SignatureLen
    BY ONLY <1>0, <2>1, k \in 0 .. SignatureLen
  <2>3. \A i \in m .. n : Signature[i] \in Byte
    BY ONLY <1>0, <2>2
  <2>4. SubSeq(Signature, m, n) \in Seq(Byte)
    BY ONLY m \in Int, n \in Int, <2>3, SubSeqProperties
  <2> QED BY <2>1, <2>4 DEF SignatureFrom
<1>4. ASSUME NEW k \in 0 .. (SignatureLen - 1)
      PROVE  SignatureFrom(k) = Joined(<<Signature[k + 1]>>, SignatureFrom(k + 1))
  <2>1. PICK m : m = k + 1 /\ m \in 1 .. SignatureLen
    BY <1>0
  <2>2. SignatureLen \in m .. SignatureLen
    BY <1>0, <2>1
  <2>3. SubSeq(Signature, m, SignatureLen) =
           <<Signature[m]>> \o SubSeq(Signature, m + 1, SignatureLen)
    BY ONLY <1>0, <2>1, <2>2, SubSeqRecursiveFirst
  <2> QED BY ONLY <2>1, <2>3 DEF SignatureFrom, Joined
<1> QED BY <1>1, <1>2, <1>3, <1>4

LEMMA TypedAre ==
    ASSUME NEW s \in Seq(RawBytes)
    PROVE  /\ s \in Seq(Byte)
           /\ s # <<>> => /\ Head(s) \in RawBytes /\ Head(s) # Signature[1]
                          /\ Tail(s) \in Seq(RawBytes)
<1>1. RawBytes \subseteq Byte
  BY SignatureIs
<1>2. s \in Seq(Byte)
  BY ONLY <1>1, s \in Seq(RawBytes), SeqMonotonic
<1>3. s # <<>> => Head(s) \in RawBytes /\ Tail(s) \in Seq(RawBytes)
  BY HeadTailProperties
<1> QED BY <1>2, <1>3, SignatureIs

LEMMA GreetsTypes ==
    ASSUME NEW g, NEW ci, NEW s, NEW tk, NEW typed, NEW w,
           GreetWith(g, ci, s, tk, typed, w)
    PROVE  /\ ci \in 0 .. (SignatureLen - 1) /\ typed \in Seq(RawBytes)
           /\ typed \in Seq(Byte) /\ Wires(w, s)
           /\ FlattenSeq(w) \in Seq(Byte) /\ s \in Seq(Arrivals)
           /\ SignatureFrom(ci) \in Seq(Byte)
           /\ Joined(SignatureFrom(ci), FlattenSeq(w)) \in Seq(Byte)
           /\ tk \in Seq(Byte)
<1>1. /\ ci \in 0 .. (SignatureLen - 1) /\ typed \in Seq(RawBytes) /\ Wires(w, s)
      /\ IF g THEN tk = Joined(typed, Joined(SignatureFrom(ci), FlattenSeq(w)))
         ELSE tk = typed
  BY DEF GreetWith
<1>2. typed \in Seq(Byte)
  BY <1>1, TypedAre
<1>3. w \in Seq(Seq(Byte)) /\ s \in Seq(Arrivals)
  BY <1>1 DEF Wires
<1>4. FlattenSeq(w) \in Seq(Byte)
  BY ONLY <1>3, FlattenType
<1>5. SignatureFrom(ci) \in Seq(Byte)
  <2>1. ci \in 0 .. SignatureLen
    BY <1>1, SignatureIs
  <2> QED BY ONLY <2>1, SignatureParts
<1>6. Joined(SignatureFrom(ci), FlattenSeq(w)) \in Seq(Byte)
  BY ONLY <1>4, <1>5, JoinedType
<1>7. Joined(typed, Joined(SignatureFrom(ci), FlattenSeq(w))) \in Seq(Byte)
  BY ONLY <1>2, <1>6, JoinedType
<1> QED BY ONLY <1>1, <1>2, <1>3, <1>4, <1>5, <1>6, <1>7

(* The host types a byte, before its signature.                             *)
LEMMA GreetsTyped ==
    ASSUME NEW g, NEW ci, NEW s, NEW tk, ~g, Greets(g, ci, s, tk),
           NEW byte \in RawBytes, NEW l, l = Append(tk, byte)
    PROVE  Greets(g, ci, s, l)
<1>1. PICK typed, w : GreetWith(g, ci, s, tk, typed, w)
  BY DEF Greets
<1>2. /\ ci = 0 /\ s = <<>> /\ tk = typed /\ Wires(w, s)
      /\ typed \in Seq(RawBytes) /\ ci \in 0 .. (SignatureLen - 1)
  BY <1>1 DEF GreetWith
<1>3. l \in Seq(RawBytes)
  <2>1. tk \in Seq(RawBytes)
    BY <1>2
  <2> QED BY ONLY <2>1, byte \in RawBytes, l = Append(tk, byte), AppendProperties
<1>4. GreetWith(g, ci, s, l, l, w)
  BY <1>2, <1>3 DEF GreetWith
<1> QED BY <1>4 DEF Greets

(* The host sends its signature.                                            *)
LEMMA GreetsGreeted ==
    ASSUME NEW ci, NEW s, NEW tk, Greets(FALSE, ci, s, tk),
           NEW l, l = Joined(tk, Signature)
    PROVE  Greets(TRUE, ci, s, l)
<1>1. PICK typed, w : GreetWith(FALSE, ci, s, tk, typed, w)
  BY DEF Greets
<1>2. /\ ci = 0 /\ s = <<>> /\ tk = typed
      /\ typed \in Seq(RawBytes) /\ ci \in 0 .. (SignatureLen - 1)
  BY <1>1 DEF GreetWith
<1>3. Joined(SignatureFrom(0), FlattenSeq(<<>>)) = Signature
  <2>1. Signature \in Seq(Byte)
    BY SignatureIs
  <2>2. Joined(Signature, <<>>) = Signature
    BY ONLY <2>1, JoinedEmpty
  <2> QED BY ONLY <2>2, SignatureParts, FlattenEmpty
<1>4. Wires(<<>>, s)
  BY <1>2, NoWires
<1>5. GreetWith(TRUE, ci, s, l, typed, <<>>)
  BY <1>2, <1>3, <1>4 DEF GreetWith
<1> QED BY <1>5 DEF Greets

(* The host types a byte, after its signature.                              *)
LEMMA WiresMore ==
    ASSUME NEW w, NEW s, Wires(w, s), NEW x, NEW q, WireOf(x, q),
           NEW v, v = Append(w, x), NEW t, Appended(s, q, t)
    PROVE  Wires(v, t) /\ FlattenSeq(v) = Joined(FlattenSeq(w), x)
<1>1. /\ w \in Seq(Seq(Byte)) /\ s \in Seq(Arrivals) /\ Len(w) = Len(s)
      /\ \A k \in 1 .. Len(w) : WireOf(w[k], s[k])
  BY DEF Wires
<1>2. x \in Seq(Byte) /\ q \in Arrivals
  BY WireIs
<1>3. PICK m \in Nat : m = Len(w)
  BY <1>1, LenProperties
<1>4. /\ v \in Seq(Seq(Byte)) /\ Len(v) = m + 1 /\ v[m + 1] = x
      /\ \A k \in 1 .. m : v[k] = w[k]
  <2>1. w \in Seq(Seq(Byte))
    BY <1>1
  <2> QED BY ONLY <1>2, <1>3, <2>1, v = Append(w, x), AppendProperties
<1>5. /\ t \in Seq(Arrivals) /\ Len(t) = m + 1 /\ t[m + 1] = q
      /\ \A k \in 1 .. m : t[k] = s[k]
  <2>1. s \in Seq(Arrivals) /\ Len(s) = m /\ t = Append(s, q)
    BY <1>1, <1>3 DEF Appended
  <2> QED BY ONLY <1>2, <2>1, AppendProperties
<1>6. \A k \in 1 .. m : WireOf(v[k], t[k])
  BY <1>1, <1>3, <1>4, <1>5
<1>7. \A k \in 1 .. (m + 1) : k \in 1 .. m \/ k = m + 1
  BY <1>3
<1>8. \A k \in 1 .. (m + 1) : WireOf(v[k], t[k])
  BY <1>4, <1>5, <1>6, <1>7
<1>9. Wires(v, t)
  BY <1>4, <1>5, <1>8 DEF Wires
<1>10. FlattenSeq(v) = Joined(FlattenSeq(w), x)
  BY ONLY <1>1, <1>2, v = Append(w, x), FlattenAppend
<1> QED BY <1>9, <1>10

LEMMA GreetsSent ==
    ASSUME NEW g, NEW ci, NEW s, NEW tk, g, Greets(g, ci, s, tk),
           NEW x, NEW q, WireOf(x, q), NEW t, Appended(s, q, t),
           NEW l, l = Joined(tk, x)
    PROVE  Greets(g, ci, t, l)
<1>1. PICK typed, w : GreetWith(g, ci, s, tk, typed, w)
  BY DEF Greets
<1>2. /\ ci \in 0 .. (SignatureLen - 1) /\ typed \in Seq(RawBytes) /\ Wires(w, s)
      /\ ci # 0 => typed = <<>>
      /\ tk = Joined(typed, Joined(SignatureFrom(ci), FlattenSeq(w)))
  BY <1>1 DEF GreetWith
<1>3. PICK f, e : f = FlattenSeq(w) /\ e = SignatureFrom(ci)
  OBVIOUS
<1>4. PICK v : v = Append(w, x)
  OBVIOUS
<1>5. Wires(v, t) /\ FlattenSeq(v) = Joined(f, x)
  BY ONLY <1>2, <1>3, <1>4, WireOf(x, q), Appended(s, q, t), WiresMore
<1>6. /\ typed \in Seq(Byte) /\ f \in Seq(Byte) /\ e \in Seq(Byte)
      /\ Joined(e, f) \in Seq(Byte) /\ x \in Seq(Byte)
  BY ONLY <1>1, <1>3, WireOf(x, q), GreetsTypes, WireIs
<1>7. Joined(Joined(e, f), x) = Joined(e, Joined(f, x))
  <2>1. f \in Seq(Byte) /\ e \in Seq(Byte) /\ x \in Seq(Byte)
    BY <1>6
  <2> QED BY ONLY <2>1, JoinedRegroup
<1>8. Joined(Joined(typed, Joined(e, f)), x) = Joined(typed, Joined(Joined(e, f), x))
  <2>1. typed \in Seq(Byte) /\ Joined(e, f) \in Seq(Byte) /\ x \in Seq(Byte)
    BY <1>6
  <2> QED BY ONLY <2>1, JoinedRegroup
<1>9. l = Joined(typed, Joined(SignatureFrom(ci), FlattenSeq(v)))
  BY ONLY <1>2, <1>3, <1>5, <1>7, <1>8, l = Joined(tk, x)
<1>10. GreetWith(g, ci, t, l, typed, v)
  BY <1>2, <1>5, <1>9 DEF GreetWith
<1> QED BY <1>10 DEF Greets

(* The kernel looks at a byte.                                              *)
Looked(g, ci, s, b, l, n) ==
    LET fits     == b = Signature[ci + 1]
        complete == fits /\ ci + 1 = SignatureLen
    IN  /\ complete => g /\ FramesAre(s, <<>>, <<>>, n, l)
        /\ ~complete => Greets(g, IF fits THEN ci + 1 ELSE 0, s, l)
        /\ ~fits => b \in RawBytes

LEMMA GreetsByte ==
    ASSUME NEW g, NEW ci, NEW s, NEW tk, Greets(g, ci, s, tk), tk # <<>>,
           NEW l, l = Tail(tk), NEW b, b = Head(tk), NEW n
    PROVE  l \in Seq(Byte) /\ b \in Byte /\ Looked(g, ci, s, b, l, n)
<1>1. PICK typed, w : GreetWith(g, ci, s, tk, typed, w)
  BY DEF Greets
<1>2. /\ ci \in 0 .. (SignatureLen - 1) /\ typed \in Seq(RawBytes) /\ Wires(w, s)
      /\ ci # 0 => typed = <<>>
      /\ IF g THEN tk = Joined(typed, Joined(SignatureFrom(ci), FlattenSeq(w)))
         ELSE ci = 0 /\ s = <<>> /\ tk = typed
  BY <1>1 DEF GreetWith
<1>3. PICK f, e : f = FlattenSeq(w) /\ e = SignatureFrom(ci)
  OBVIOUS
<1>4. /\ typed \in Seq(Byte) /\ f \in Seq(Byte) /\ e \in Seq(Byte)
      /\ Joined(e, f) \in Seq(Byte) /\ tk \in Seq(Byte) /\ s \in Seq(Arrivals)
  BY ONLY <1>1, <1>3, GreetsTypes
<1>5. l \in Seq(Byte) /\ b \in Byte
  <2>1. tk \in Seq(Byte)
    BY <1>4
  <2> QED BY ONLY <2>1, tk # <<>>, l = Tail(tk), b = Head(tk), HeadTailProperties
<1>6. SignatureLen \in Nat \ {0}
  BY SignatureIs
<1> SUFFICES Looked(g, ci, s, b, l, n)
  BY <1>5
<1>7. ASSUME ci = 0, b \in RawBytes, b # Signature[1], Greets(g, 0, s, l)
      PROVE  Looked(g, ci, s, b, l, n)
  <2>1. b # Signature[ci + 1]
    BY <1>7
  <2> QED BY ONLY <1>7, <2>1 DEF Looked
<1>8. CASE ~g
  <2>1. ci = 0 /\ s = <<>> /\ tk = typed
    BY <1>2, <1>8
  <2>2. b \in RawBytes /\ b # Signature[1] /\ l \in Seq(RawBytes)
    BY <1>2, <2>1, TypedAre
  <2>3. GreetWith(g, 0, s, l, l, w)
    BY <1>2, <1>6, <1>8, <2>1, <2>2 DEF GreetWith
  <2>4. Greets(g, 0, s, l)
    BY <2>3 DEF Greets
  <2> QED BY ONLY <1>7, <2>1, <2>2, <2>4
<1>9. CASE g /\ typed # <<>>
  <2>1. ci = 0 /\ tk = Joined(typed, Joined(e, f))
    BY <1>2, <1>3, <1>9
  <2>2. HeadOfJoined(typed, Joined(e, f), tk)
    <3>1. typed \in Seq(Byte) /\ Joined(e, f) \in Seq(Byte)
      BY <1>4
    <3> QED BY ONLY <1>9, <2>1, <3>1, JoinedHead
  <2>3. b = Head(typed) /\ l = Joined(Tail(typed), Joined(e, f))
    BY <2>2 DEF HeadOfJoined
  <2>4. b \in RawBytes /\ b # Signature[1] /\ Tail(typed) \in Seq(RawBytes)
    BY <1>2, <1>9, <2>3, TypedAre
  <2>5. GreetWith(g, 0, s, l, Tail(typed), w)
    BY <1>2, <1>3, <1>9, <2>1, <2>3, <2>4 DEF GreetWith
  <2>6. Greets(g, 0, s, l)
    BY <2>5 DEF Greets
  <2> QED BY ONLY <1>7, <2>1, <2>4, <2>6
<1>10. CASE g /\ typed = <<>>
  <2>1. PICK c : c = ci + 1 /\ c \in 1 .. SignatureLen /\ c \in 0 .. SignatureLen
    BY <1>2, <1>6
  <2>2. PICK r, o : r = SignatureFrom(c) /\ o = <<Signature[c]>>
    OBVIOUS
  <2>3. e = Joined(o, r) /\ r \in Seq(Byte)
    BY ONLY <1>2, <1>3, <2>1, <2>2, SignatureParts
  <2>4. Signature[c] \in Byte
    BY <2>1, SignatureIs
  <2>5. o \in Seq(Byte) /\ o # <<>>
    BY ONLY <2>2, <2>4, OneByte
  <2>6. Head(o) = Signature[c] /\ Tail(o) = <<>>
    <3>1. Len(o) = 1 /\ o[1] = Signature[c]
      BY ONLY <2>2, <2>4, OneByte
    <3>2. Head(o) = Signature[c]
      BY <3>1
    <3>3. Tail(o) \in Seq(Byte) /\ Len(Tail(o)) = Len(o) - 1
      BY ONLY <2>5, HeadTailProperties
    <3>4. Tail(o) = <<>>
      <4>1. PICK t : t = Tail(o) /\ t \in Seq(Byte) /\ Len(t) = 0
        <5>1. Len(Tail(o)) = 0
          BY ONLY <3>1, <3>3
        <5> QED BY ONLY <3>3, <5>1
      <4> QED BY ONLY <4>1, EmptySeq
    <3> QED BY <3>2, <3>4
  <2>7. tk = Joined(e, f)
    <3>1. tk = Joined(typed, Joined(e, f))
      BY <1>2, <1>3, <1>10
    <3>2. Joined(<<>>, Joined(e, f)) = Joined(e, f)
      BY ONLY <1>4, JoinedEmpty
    <3> QED BY ONLY <1>10, <3>1, <3>2
  <2>8. tk = Joined(o, Joined(r, f))
    <3>1. o \in Seq(Byte) /\ r \in Seq(Byte) /\ f \in Seq(Byte)
      BY <1>4, <2>3, <2>5
    <3>2. Joined(Joined(o, r), f) = Joined(o, Joined(r, f))
      BY ONLY <3>1, JoinedRegroup
    <3> QED BY ONLY <2>3, <2>7, <3>2
  <2>9. Joined(r, f) \in Seq(Byte)
    BY ONLY <1>4, <2>3, JoinedType
  <2>10. HeadOfJoined(o, Joined(r, f), tk)
    BY ONLY <2>5, <2>8, <2>9, JoinedHead
  <2>11. b = Signature[c] /\ l = Joined(r, f)
    <3>1. Joined(<<>>, Joined(r, f)) = Joined(r, f)
      BY ONLY <2>9, JoinedEmpty
    <3> QED BY ONLY <2>6, <2>10, <3>1, b = Head(tk), l = Tail(tk) DEF HeadOfJoined
  <2>12. CASE c = SignatureLen
    <3>1. l = f
      <4>1. r = <<>>
        BY ONLY <2>2, <2>12, SignatureParts
      <4>2. Joined(<<>>, f) = f
        BY ONLY <1>4, JoinedEmpty
      <4> QED BY ONLY <2>11, <4>1, <4>2
    <3>2. Joined(<<>>, s) = s /\ Joined(<<>>, l) = l
      BY ONLY <1>4, <1>5, JoinedEmpty
    <3>3. ASSUME w # <<>>
          PROVE  Len(<<>>) < Len(w[1]) /\ (Len(<<>>) >= LenAt => n = Len(w[1]))
      <4>1. WireOf(w[1], s[1])
        BY ONLY <1>2, <3>3, WiresTail
      <4>2. Len(w[1]) \in Nat \ {0}
        BY ONLY <4>1, WireIs
      <4>3. LenAt > 0 /\ LenAt \in Nat /\ Len(<<>>) = 0
        BY SignatureIs, EmptySeq
      <4> QED BY ONLY <4>2, <4>3
    <3>4. FramesWith(s, <<>>, <<>>, n, l, w, s)
      BY ONLY <1>2, <1>3, <3>1, <3>2, <3>3 DEF FramesWith
    <3>5. FramesAre(s, <<>>, <<>>, n, l)
      BY <3>4 DEF FramesAre
    <3> QED BY ONLY <1>10, <2>1, <2>11, <2>12, <3>5 DEF Looked
  <2>13. CASE c # SignatureLen
    <3>1. c \in 0 .. (SignatureLen - 1)
      BY <1>6, <2>1, <2>13
    <3>2. Joined(<<>>, Joined(r, f)) = Joined(r, f)
      BY ONLY <2>9, JoinedEmpty
    <3>3. GreetWith(g, c, s, l, <<>>, w)
      BY ONLY <1>2, <1>3, <1>10, <2>2, <2>11, <3>1, <3>2 DEF GreetWith
    <3>4. Greets(g, c, s, l)
      BY <3>3 DEF Greets
    <3> QED BY ONLY <2>1, <2>11, <2>13, <3>4 DEF Looked
  <2> QED BY <2>12, <2>13
<1> QED BY <1>8, <1>9, <1>10

(* What was sent to the host: some bytes, at of them, then what it has seen *)
(* since its signature was answered; that, and what is not sent yet, are    *)
(* the signature and the frames of the packets that were begun.             *)
DataFrom(packet, i) == SubSeq(packet.data, i + 1, Len(packet.data))

Unsent(packet, buffer, i) ==
    IF packet = NoPacket THEN <<>> ELSE Joined(buffer, DataFrom(packet, i))

LeaveWith(th, at, bg, un, e, sn) ==
    /\ e \in Seq(Byte) /\ Len(e) = at /\ sn \in Seq(Byte) /\ sn # <<>>
    /\ th = Joined(e, sn)
    /\ Joined(sn, un) = Joined(Signature, Images(bg, FrameOf))

Leaves(th, at, bg, un) == \E e, sn : LeaveWith(th, at, bg, un, e, sn)

LEMMA FrameOfIs ==
    /\ FrameOf \in [Packet -> Seq(Byte)]
    /\ \A q \in Packet : FrameOf[q] = Encode(q)
<1>1. ASSUME NEW q \in Packet PROVE Encode(q) \in Seq(Byte)
  BY EncodeIs DEF FrameIs
<1> QED BY <1>1 DEF FrameOf

LEMMA LeavesMoved ==
    ASSUME NEW th, NEW at, NEW bg, NEW un \in Seq(Byte), Leaves(th, at, bg, un), un # <<>>,
           NEW l, l = Append(th, Head(un)), NEW v, v = Tail(un)
    PROVE  Leaves(l, at, bg, v)
<1>1. PICK e, sn : LeaveWith(th, at, bg, un, e, sn)
  BY DEF Leaves
<1>2. /\ e \in Seq(Byte) /\ Len(e) = at /\ sn \in Seq(Byte) /\ sn # <<>>
      /\ th = Joined(e, sn)
      /\ Joined(sn, un) = Joined(Signature, Images(bg, FrameOf))
  BY <1>1 DEF LeaveWith
<1>3. PICK b : b = Head(un) /\ b \in Byte
  BY HeadTailProperties
<1>4. PICK n : n = Append(sn, b) /\ Appended(sn, b, n)
  BY DEF Appended
<1>5. Joined(n, v) = Joined(sn, un) /\ n \in Seq(Byte)
  BY ONLY <1>2, <1>3, <1>4, un \in Seq(Byte), un # <<>>, v = Tail(un), OneByteOn
<1>6. l = Joined(e, n)
  <2>2. Appended(Joined(e, sn), b, Joined(e, n))
    BY ONLY <1>2, <1>3, <1>4, JoinedAppend
  <2> QED BY ONLY <1>2, <1>3, <2>2, l = Append(th, Head(un)) DEF Appended
<1>7. n # <<>>
  <2>1. Len(n) = Len(sn) + 1 /\ Len(sn) \in Nat
    BY ONLY <1>2, <1>3, <1>4, AppendProperties, LenProperties
  <2>2. Len(n) # 0
    BY ONLY <2>1
  <2> QED BY ONLY <2>2, EmptySeq
<1>8. LeaveWith(l, at, bg, v, e, n)
  BY ONLY <1>2, <1>5, <1>6, <1>7 DEF LeaveWith
<1> QED BY <1>8 DEF Leaves

LEMMA LeavesBegun ==
    ASSUME NEW th, NEW at, NEW bg \in Seq(Packet), Leaves(th, at, bg, <<>>), NEW q \in Packet,
           NEW b, Appended(bg, q, b), NEW h, h = Header(q),
           NEW l, l = Append(th, Head(h)), NEW v, v = Joined(Tail(h), q.data)
    PROVE  Leaves(l, at, b, v) /\ v \in Seq(Byte) /\ Tail(h) \in Seq(Byte)
<1>1. PICK e, sn : LeaveWith(th, at, bg, <<>>, e, sn)
  BY DEF Leaves
<1>2. /\ e \in Seq(Byte) /\ Len(e) = at /\ sn \in Seq(Byte) /\ sn # <<>>
      /\ th = Joined(e, sn)
      /\ Joined(sn, <<>>) = Joined(Signature, Images(bg, FrameOf))
  BY <1>1 DEF LeaveWith
<1>3. PICK x : x = Encode(q) /\ x \in Seq(Byte)
  BY EncodeIs DEF FrameIs
<1>4. PICK f : f = Images(bg, FrameOf)
  OBVIOUS
<1>5. f \in Seq(Byte) /\ Images(b, FrameOf) = Joined(f, x)
  <2>1. Maps(bg, FrameOf, Packet, Byte)
    BY FrameOfIs DEF Maps
  <2>2. f \in Seq(Byte)
    BY ONLY <1>4, <2>1, ImagesType
  <2>3. Images(b, FrameOf) = Joined(f, FrameOf[q])
    BY ONLY <1>4, <2>1, q \in Packet, Appended(bg, q, b), ImagesAppend
  <2> QED BY ONLY <1>3, <2>2, <2>3, q \in Packet, FrameOfIs
<1>6. Joined(sn, x) = Joined(Signature, Images(b, FrameOf))
  <2>1. Joined(sn, <<>>) = sn
    BY ONLY <1>2, JoinedEmpty
  <2>2. sn = Joined(Signature, f)
    BY ONLY <1>2, <1>4, <2>1
  <2>3. Joined(Joined(Signature, f), x) = Joined(Signature, Joined(f, x))
    <3>1. Signature \in Seq(Byte) /\ f \in Seq(Byte) /\ x \in Seq(Byte)
      BY <1>3, <1>5, SignatureIs
    <3> QED BY ONLY <3>1, JoinedRegroup
  <2> QED BY ONLY <1>5, <2>2, <2>3
<1>7. Leaves(th, at, b, x)
  <2>1. LeaveWith(th, at, b, x, e, sn)
    BY ONLY <1>2, <1>6 DEF LeaveWith
  <2> QED BY <2>1 DEF Leaves
<1>8. h \in Seq(Byte) /\ h # <<>> /\ q.data \in Seq(Byte)
  <2>1. h \in Seq(Byte) /\ Len(h) = HeaderLen
    BY HeaderIs
  <2>2. Len(h) # 0
    BY <2>1, SignatureIs
  <2>3. h # <<>>
    BY ONLY <2>2, EmptySeq
  <2> QED BY <2>1, <2>3, PacketIs
<1>9. HeadOfJoined(h, q.data, x)
  <2>1. x = Joined(h, q.data)
    BY <1>3 DEF Encode, Joined
  <2> QED BY ONLY <1>8, <2>1, JoinedHead
<1>10. l = Append(th, Head(x)) /\ v = Tail(x)
  BY ONLY <1>9, l = Append(th, Head(h)), v = Joined(Tail(h), q.data) DEF HeadOfJoined
<1>11. Tail(h) \in Seq(Byte)
  BY ONLY <1>8, HeadTailProperties
<1>12. v \in Seq(Byte)
  BY ONLY <1>8, <1>11, v = Joined(Tail(h), q.data), JoinedType
<1>13. x # <<>>
  <2>1. TwoParts(h, q.data, x)
    <3>1. x = Joined(h, q.data)
      BY <1>3 DEF Encode, Joined
    <3> QED BY ONLY <1>8, <3>1, PartsOfJoined
  <2>2. Len(h) # 0
    BY ONLY <1>8, EmptySeq
  <2>3. Len(x) # 0
    BY ONLY <2>1, <2>2 DEF TwoParts
  <2> QED BY ONLY <2>3, EmptySeq
<1>14. Leaves(l, at, b, v)
  <2>1. x \in Seq(Byte)
    BY <1>3
  <2> QED BY ONLY <1>7, <1>10, <1>13, <2>1, LeavesMoved
<1> QED BY ONLY <1>11, <1>12, <1>14

(* One more byte of the packet's data.                                      *)
LEMMA DataFromIs ==
    ASSUME NEW q \in Packet, NEW i \in Nat, i <= Len(q.data)
    PROVE  /\ DataFrom(q, i) \in Seq(Byte)
           /\ i = Len(q.data) => DataFrom(q, i) = <<>>
           /\ i < Len(q.data) => /\ DataFrom(q, i) # <<>>
                                 /\ Head(DataFrom(q, i)) = q.data[i + 1]
                                 /\ Tail(DataFrom(q, i)) = DataFrom(q, i + 1)
<1>1. PICK d : d = q.data /\ d \in Seq(Byte)
  BY PacketIs
<1>2. PICK n \in Nat : n = Len(d)
  BY <1>1, LenProperties
<1>3. PICK s, t : s = SubSeq(d, i + 1, n) /\ t = SubSeq(d, (i + 1) + 1, n)
  OBVIOUS
<1>4. DataFrom(q, i) = s /\ DataFrom(q, i + 1) = t /\ i <= n
  BY <1>1, <1>2, <1>3 DEF DataFrom
<1>5. s \in Seq(Byte) /\ Len(s) = IF i + 1 <= n THEN n - (i + 1) + 1 ELSE 0
  <2>1. \A k \in (i + 1) .. n : k \in 1 .. Len(d)
    BY <1>2
  <2>2. \A k \in (i + 1) .. n : d[k] \in Byte
    BY ONLY <1>1, <2>1, ElementOfSeq
  <2>3. i + 1 \in Int /\ n \in Int
    OBVIOUS
  <2> QED BY ONLY <1>3, <2>2, <2>3, SubSeqProperties
<1>6. CASE i = n
  <2>1. Len(s) = 0
    BY ONLY <1>5, <1>6, n \in Nat
  <2>2. s = <<>>
    BY ONLY <1>5, <2>1, EmptySeq
  <2> QED BY <1>1, <1>2, <1>4, <1>5, <1>6, <2>2
<1>7. CASE i < n
  <2>1. i + 1 \in 1 .. Len(d) /\ n \in (i + 1) .. Len(d)
    BY <1>2, <1>7
  <2>2. Head(s) = d[i + 1] /\ Tail(s) = t
    BY ONLY <1>1, <1>3, <2>1, HeadTailOfSubSeq
  <2>3. Len(s) # 0
    BY ONLY <1>5, <1>7, n \in Nat, i \in Nat
  <2>4. s # <<>>
    BY ONLY <2>3, EmptySeq
  <2> QED BY <1>1, <1>2, <1>4, <1>5, <1>7, <2>2, <2>4
<1>8. i = n \/ i < n
  BY <1>4
<1> QED BY <1>6, <1>7, <1>8

(* What the host has seen, and what it is to see.                           *)
SeenOf(th, at) == SubSeq(th, at + 1, Len(th))
FramesOf(bg) == FlattenSeq([i \in DOMAIN bg |-> Encode(bg[i])])
ToSee(bg) == Signature \o FramesOf(bg)

LEMMA LeavesSeen ==
    ASSUME NEW th, NEW at, NEW bg \in Seq(Packet), NEW un \in Seq(Byte),
           Leaves(th, at, bg, un)
    PROVE  /\ IsPrefix(SeenOf(th, at), ToSee(bg))
           /\ un = <<>> => SeenOf(th, at) = ToSee(bg)
<1>01. PICK seen, frames :
          seen = SubSeq(th, at + 1, Len(th)) /\ frames = FramesOf(bg)
  OBVIOUS
<1>1. PICK e, sn : LeaveWith(th, at, bg, un, e, sn)
  BY DEF Leaves
<1>2. /\ e \in Seq(Byte) /\ Len(e) = at /\ sn \in Seq(Byte) /\ sn # <<>>
      /\ th = Joined(e, sn)
      /\ Joined(sn, un) = Joined(Signature, Images(bg, FrameOf))
  BY <1>1 DEF LeaveWith
<1>3. frames = Images(bg, FrameOf) /\ frames \in Seq(Byte)
  <2> DEFINE t == [i \in DOMAIN bg |-> Encode(bg[i])]
  <2>1. \A k \in 1 .. Len(bg) : bg[k] \in Packet
    BY ElementOfSeq
  <2>2. DOMAIN bg = 1 .. Len(bg)
    BY LenProperties
  <2>3. /\ DOMAIN t = DOMAIN bg /\ t = [k \in DOMAIN bg |-> t[k]]
        /\ \A k \in 1 .. Len(bg) : t[k] = FrameOf[bg[k]]
    BY <2>1, <2>2, FrameOfIs
  <2>4. frames = FlattenSeq(t)
    BY <1>01 DEF FramesOf
  <2> HIDE DEF t
  <2>5. t = EachImage(bg, FrameOf)
    BY ONLY bg \in Seq(Packet), <2>3, EachImageEqual
  <2>6. frames = Images(bg, FrameOf)
    BY ONLY <2>4, <2>5 DEF Images
  <2>7. Maps(bg, FrameOf, Packet, Byte)
    BY FrameOfIs DEF Maps
  <2> QED BY ONLY <2>6, <2>7, ImagesType
<1>5. PICK m \in Nat, n \in Nat : m = Len(e) /\ n = Len(sn)
  BY ONLY <1>2, LenProperties
<1>6. n # 0
  BY <1>2, <1>5, EmptySeq
<1>7. /\ th \in Seq(Byte) /\ Len(th) = m + n
      /\ \A k \in 1 .. m : th[k] = e[k]
      /\ \A k \in 1 .. n : th[m + k] = sn[k]
  <2>1. th \in Seq(Byte) /\ TwoParts(e, sn, th)
    BY ONLY <1>2, PartsOfJoined
  <2> QED BY ONLY <1>5, <2>1 DEF TwoParts
<1>10. seen = sn
  <2>1. PICK a \in Int, c \in Int : a = m + 1 /\ c = m + n
    OBVIOUS
  <2>2. \A i \in a .. c : i \in 1 .. (m + n)
    BY ONLY <2>1, m \in Nat, n \in Nat
  <2>3. \A i \in a .. c : th[i] \in Byte
    BY ONLY <1>7, <2>2, ElementOfSeq
  <2>4. seen = SubSeq(th, a, c)
    BY <1>01, <1>2, <1>5, <1>7, <2>1
  <2>5. /\ seen \in Seq(Byte) /\ Len(seen) = (IF a <= c THEN c - a + 1 ELSE 0)
        /\ \A i \in 1 .. (c - a + 1) : seen[i] = th[a + i - 1]
    <3>1. /\ SubSeq(th, a, c) \in Seq(Byte)
          /\ Len(SubSeq(th, a, c)) = (IF a <= c THEN c - a + 1 ELSE 0)
          /\ \A i \in 1 .. (c - a + 1) : SubSeq(th, a, c)[i] = th[a + i - 1]
      BY ONLY <2>3, a \in Int, c \in Int, SubSeqProperties
    <3> QED BY ONLY <2>4, <3>1
  <2>8. n = c - a + 1 /\ a <= c
    BY ONLY <1>6, <2>1, m \in Nat, n \in Nat
  <2>9. \A i \in 1 .. n : a + i - 1 = m + i
    BY ONLY <2>1, m \in Nat, n \in Nat
  <2>6. Len(seen) = n /\ \A i \in 1 .. n : seen[i] = th[m + i]
    BY ONLY <2>5, <2>8, <2>9
  <2>7. \A i \in 1 .. n : seen[i] = sn[i]
    BY ONLY <1>7, <2>6
  <2> QED BY ONLY <1>2, <1>5, <2>5, <2>6, <2>7, SeqEqual
<1>11. PICK z : z = Joined(sn, un) /\ z = Signature \o frames
  BY <1>2, <1>3 DEF Joined
<1>12. IsPrefix(sn, z)
  <2>1. z = Joined(sn, un)
    BY <1>11
  <2> QED BY ONLY <1>2, <2>1, un \in Seq(Byte), JoinedPrefix
<1>13. Joined(sn, <<>>) = sn
  BY ONLY <1>2, JoinedEmpty
<1>14. seen = SeenOf(th, at) /\ z = ToSee(bg)
  BY ONLY <1>01, <1>11 DEF SeenOf, ToSee
<1> QED BY ONLY <1>10, <1>11, <1>12, <1>13, <1>14

-----------------------------------------------------------------------------
(* The inductive invariant.                                                 *)
ClientTypes ==
    /\ connected \in BOOLEAN /\ greeted \in BOOLEAN /\ (connected => greeted)
    /\ checkIndex \in 0 .. (SignatureLen - 1) /\ answered \in Nat
    /\ pc \in {"main", "receive", "send"} /\ (pc # "main" => connected)
    /\ left \in 0 .. Burst

RouterPart ==
    /\ RouterTypes(working, packetsToBeSent, packetsReceived)
    /\ packetsReceived \in Seq(Arrivals)

SenderTypes ==
    /\ currentSendPacket \in Packet /\ sendBuffer \in Seq(Byte)
    /\ sendBufferIndex \in 0 .. Len(currentSendPacket.data)
    /\ begun \in Seq(Packet) /\ toHost \in Seq(Byte)

ReceiverTypes ==
    /\ FrameTypes(sentByHost, parsed, receiveBuffer, toKernel)
    /\ receiveBufferLen \in Nat

MainSteps == {"idle", "raw", "enqueue", "find", "remove", "readRaw"}

MainTypes ==
    /\ mainPacket \in Packet /\ written \in 0 .. MaxWritten
    /\ read \in Seq(Byte) /\ reading \in Seq(Byte) /\ takenByTcp \in Seq(Packet)
    /\ mainStep \in MainSteps /\ typing \in Seq(Byte) /\ searchAt \in Nat \ {0}
    /\ intruded \in BOOLEAN
    /\ mainStep = "raw" => typing # <<>>
    /\ mainStep = "enqueue" => mainPacket # NoPacket
    /\ mainStep = "find" => reading = <<>>
    /\ mainStep = "remove" => reading # <<>>

SerialTypes ==
    ClientTypes /\ RouterPart /\ SenderTypes /\ ReceiverTypes /\ MainTypes

Receiving ==
    IF connected
    THEN FramesAre(sentByHost, parsed, receiveBuffer, receiveBufferLen, toKernel)
    ELSE /\ Greets(greeted, checkIndex, sentByHost, toKernel)
         /\ receiveBuffer = <<>> /\ parsed = <<>>

PortsKept == PortsAre(takenByTcp, read, reading, packetsReceived, parsed)

Leaving ==
    IF connected
    THEN ~intruded => Leaves(toHost, answered, begun,
                             Unsent(currentSendPacket, sendBuffer, sendBufferIndex))
    ELSE begun = <<>> /\ currentSendPacket = NoPacket

SerialInv == SerialTypes /\ Receiving /\ PortsKept /\ Leaving

(* GetPacket has passed no packet for the port, and none in between has      *)
(* been taken off the list.                                                 *)
Finding ==
    mainStep = "find" =>
       /\ searchAt <= Len(packetsReceived) + 1
       /\ \A k \in 1 .. (searchAt - 1) : packetsReceived[k].to # RawSerial

SerialKept == overtaken \/ (SerialInv /\ Finding)

LEMMA SerialInitInv == SerialInit => SerialInv /\ Finding
<1> SUFFICES ASSUME SerialInit PROVE SerialInv /\ Finding
  OBVIOUS
<1>1. /\ connected = FALSE /\ checkIndex = 0
      /\ working = {InitHost, RawSerial, TCPHost, InitClient}
      /\ currentSendPacket = NoPacket /\ sendBufferIndex = 0
      /\ receiveBufferLen = 0 /\ pc = "main" /\ left = 0
      /\ mainPacket = NoPacket /\ greeted = FALSE /\ written = 0
      /\ answered = 0 /\ mainStep = "idle" /\ searchAt = 1 /\ intruded = FALSE
  BY DEF SerialInit
<1>2. /\ packetsToBeSent = <<>> /\ packetsReceived = <<>> /\ sendBuffer = <<>>
      /\ receiveBuffer = <<>> /\ reading = <<>> /\ toKernel = <<>>
      /\ toHost = <<>> /\ sentByHost = <<>> /\ parsed = <<>> /\ begun = <<>>
      /\ read = <<>> /\ takenByTcp = <<>> /\ typing = <<>>
  BY DEF SerialInit
<1>3. /\ <<>> \in Seq(Packet) /\ <<>> \in Seq(Packet \ {NoPacket})
      /\ <<>> \in Seq(Byte) /\ <<>> \in Seq(Arrivals) /\ <<>> \in Seq(RawBytes)
      /\ 0 \in Nat /\ 1 \in Nat \ {0}
  BY EmptySeq
<1>4. ClientTypes
  <2>1. SignatureLen \in Nat \ {0} /\ Burst \in Nat
    BY SignatureIs, SerialAssumption
  <2>2. 0 \in 0 .. (SignatureLen - 1) /\ 0 \in 0 .. Burst
    BY ONLY <2>1
  <2>3. connected \in BOOLEAN /\ greeted \in BOOLEAN /\ ~connected /\ pc = "main"
    BY ONLY <1>1
  <2> QED BY ONLY <1>1, <1>3, <2>2, <2>3 DEF ClientTypes
<1>5. RouterPart
  <2>1. working \subseteq ReservedPorts /\ Consumers \subseteq working
    <3>1. {InitHost, RawSerial, TCPHost, InitClient} \subseteq ReservedPorts
      BY PortsAreBytes
    <3> QED BY <1>1, <3>1 DEF Consumers
  <2> QED BY ONLY <1>2, <1>3, <2>1 DEF RouterPart, RouterTypes
<1>6. SenderTypes
  <2>1. currentSendPacket \in Packet /\ currentSendPacket.data = <<>>
    BY <1>1, NoPacketIs
  <2>2. Len(currentSendPacket.data) \in Nat
    BY ONLY <1>3, <2>1, LenProperties
  <2>3. sendBufferIndex \in 0 .. Len(currentSendPacket.data)
    BY ONLY <1>1, <2>2
  <2> QED BY ONLY <1>2, <1>3, <2>1, <2>3 DEF SenderTypes
<1>7. ReceiverTypes
  BY ONLY <1>1, <1>2, <1>3 DEF ReceiverTypes, FrameTypes
<1>8. MainTypes
  <2>1. mainPacket \in Packet /\ written \in 0 .. MaxWritten
    BY <1>1, NoPacketIs, SerialAssumption
  <2>2. mainStep \in MainSteps /\ mainStep \notin {"raw", "enqueue", "find", "remove"}
    BY ONLY <1>1 DEF MainSteps
  <2> QED BY ONLY <1>1, <1>2, <1>3, <2>1, <2>2 DEF MainTypes
<1>9. Receiving
  <2>1. 0 \in 0 .. (SignatureLen - 1)
    BY SignatureIs
  <2>2. GreetWith(FALSE, 0, <<>>, <<>>, <<>>, <<>>)
    BY ONLY <1>3, <2>1, NoWires DEF GreetWith
  <2>3. Greets(FALSE, 0, <<>>, <<>>)
    BY <2>2 DEF Greets
  <2> QED BY ONLY <1>1, <1>2, <2>3 DEF Receiving
<1>10. PortsKept
  <2>1. \A T : /\ Chosen(<<>>, T) = <<>> /\ DataOf(<<>>, T) = <<>>
    BY ONLY <1>3, ChosenIs, DataOfIs, ImagesEmpty
  <2>2. Joined(<<>>, <<>>) = <<>>
    BY ONLY <1>3, JoinedEmpty
  <2> QED BY ONLY <1>2, <2>1, <2>2 DEF PortsKept, PortsAre
<1>11. Leaving
  BY ONLY <1>1, <1>2, <1>3 DEF Leaving
<1>12. Finding
  BY ONLY <1>1 DEF Finding
<1> QED BY ONLY <1>4, <1>5, <1>6, <1>7, <1>8, <1>9, <1>10, <1>11, <1>12
        DEF SerialInv, SerialTypes

(* What the steps leave alone.                                              *)
StillClient == UNCHANGED <<client, greeted, pc, left>>
StillRouter == UNCHANGED router
StillSender == UNCHANGED <<sender, begun, toHost>>
StillReceiver == UNCHANGED <<receiver, sentByHost, parsed, toKernel>>
StillMain == UNCHANGED <<mainLoop, takenByTcp>>

LEMMA StillTypes ==
    ASSUME SerialTypes
    PROVE  /\ StillClient => ClientTypes'
           /\ StillRouter => RouterPart'
           /\ StillSender => SenderTypes'
           /\ StillReceiver => ReceiverTypes'
           /\ StillMain => MainTypes'
<1>1. StillClient => ClientTypes'
  BY DEF SerialTypes, ClientTypes, StillClient, client
<1>2. StillRouter => RouterPart'
  BY DEF SerialTypes, RouterPart, StillRouter, router
<1>3. StillSender => SenderTypes'
  BY DEF SerialTypes, SenderTypes, StillSender, sender
<1>4. StillReceiver => ReceiverTypes'
  BY DEF SerialTypes, ReceiverTypes, StillReceiver, receiver
<1>5. StillMain => MainTypes'
  BY DEF SerialTypes, MainTypes, StillMain, mainLoop
<1> QED BY <1>1, <1>2, <1>3, <1>4, <1>5

LEMMA StillThere ==
    ASSUME SerialInv
    PROVE  /\ StillReceiver /\ UNCHANGED <<connected, checkIndex, greeted>> =>
                 Receiving'
           /\ StillMain /\ StillRouter /\ UNCHANGED parsed => PortsKept'
           /\ StillSender /\ UNCHANGED <<connected, answered, intruded>> => Leaving'
<1>1. StillReceiver /\ UNCHANGED <<connected, checkIndex, greeted>> => Receiving'
  BY DEF SerialInv, Receiving, StillReceiver, receiver
<1>2. StillMain /\ StillRouter /\ UNCHANGED parsed => PortsKept'
  BY DEF SerialInv, PortsKept, StillMain, StillRouter, mainLoop, router
<1>3. StillSender /\ UNCHANGED <<connected, answered, intruded>> => Leaving'
  BY DEF SerialInv, Leaving, StillSender, sender
<1> QED BY <1>1, <1>2, <1>3

LEMMA SerialStutter ==
    SerialInv /\ Finding /\ UNCHANGED serialVars => SerialInv' /\ Finding'
<1> SUFFICES ASSUME SerialInv, Finding, UNCHANGED serialVars
             PROVE  SerialInv' /\ Finding'
  OBVIOUS
<1>1. /\ StillClient /\ StillRouter /\ StillSender /\ StillReceiver /\ StillMain
      /\ UNCHANGED <<connected, checkIndex, answered, greeted, parsed, intruded>>
      /\ UNCHANGED <<mainStep, searchAt, packetsReceived>>
  BY DEF serialVars, StillClient, StillRouter, StillSender, StillReceiver,
         StillMain, host, client, receiver, mainLoop, router
<1>2. Finding'
  BY ONLY Finding, <1>1 DEF Finding
<1> QED BY <1>1, <1>2, StillTypes, StillThere DEF SerialInv, SerialTypes

LEMMA CheckForClientKeeps == SerialInv /\ CheckForClient => SerialInv'
<1> SUFFICES ASSUME SerialInv, CheckForClient PROVE SerialInv'
  OBVIOUS
<1>0. /\ pc = "main" /\ connected = FALSE /\ toKernel # <<>>
      /\ checkIndex \in 0 .. (SignatureLen - 1)
      /\ Greets(greeted, checkIndex, sentByHost, toKernel)
      /\ receiveBuffer = <<>> /\ parsed = <<>>
      /\ toHost \in Seq(Byte) /\ begun = <<>> /\ currentSendPacket = NoPacket
      /\ SerialTypes /\ PortsKept /\ answered \in Nat
  BY DEF SerialInv, SerialTypes, ClientTypes, SenderTypes, Receiving, Leaving,
         CheckForClient
<1>1. PICK b, l : b = Head(toKernel) /\ l = Tail(toKernel)
  OBVIOUS
<1>2. PICK fits \in BOOLEAN : fits <=> b = Signature[checkIndex + 1]
  <2> DEFINE F == (b = Signature[checkIndex + 1])
  <2> WITNESS F \in BOOLEAN
  <2> QED OBVIOUS
<1>3. PICK complete \in BOOLEAN : complete <=> fits /\ checkIndex + 1 = SignatureLen
  <2> DEFINE C == (fits /\ checkIndex + 1 = SignatureLen)
  <2> WITNESS C \in BOOLEAN
  <2> QED OBVIOUS
<1>4. /\ toKernel' = l /\ connected' = complete
      /\ checkIndex' = IF fits /\ ~complete THEN checkIndex + 1 ELSE 0
      /\ toHost' = IF complete THEN Joined(toHost, Signature)
                   ELSE IF fits THEN toHost ELSE Append(toHost, b)
      /\ answered' = IF complete THEN Len(toHost) ELSE answered
      /\ pc' = IF complete THEN "receive" ELSE "main"
      /\ left' = IF complete THEN Burst ELSE 0
  <2>1. Len(Signature) = SignatureLen
    BY SignatureIs
  <2>2. complete <=> b = Signature[checkIndex + 1] /\ checkIndex + 1 = Len(Signature)
    BY ONLY <1>2, <1>3, <2>1
  <2> QED BY <1>1, <1>2, <2>2 DEF CheckForClient, Joined
<1>5. StillRouter /\ StillMain /\ UNCHANGED <<sender, receiver, host, parsed, begun>>
  BY DEF CheckForClient, StillRouter, StillMain
<1>6. l \in Seq(Byte) /\ b \in Byte
      /\ Looked(greeted, checkIndex, sentByHost, b, l, receiveBufferLen)
  BY ONLY <1>0, <1>1, GreetsByte
<1>7. /\ complete => /\ greeted
                     /\ FramesAre(sentByHost, <<>>, <<>>, receiveBufferLen, l)
      /\ ~complete => Greets(greeted, IF fits THEN checkIndex + 1 ELSE 0, sentByHost, l)
      /\ ~fits => b \in RawBytes
  BY ONLY <1>2, <1>3, <1>6 DEF Looked
<1>8. /\ SignatureLen \in Nat \ {0} /\ Burst \in Nat
      /\ Signature \in Seq(Byte) /\ Len(Signature) = SignatureLen
  BY SignatureIs, SerialAssumption
<1>9. ClientTypes'
  <2>1. checkIndex' \in 0 .. (SignatureLen - 1)
    <3>1. CASE fits /\ ~complete
      <4>1. checkIndex + 1 \in 0 .. (SignatureLen - 1)
        BY ONLY <1>0, <1>3, <1>8, <3>1
      <4> QED BY ONLY <1>4, <3>1, <4>1
    <3>2. CASE ~(fits /\ ~complete)
      BY ONLY <1>4, <1>8, <3>2
    <3> QED BY <3>1, <3>2
  <2>2. left' \in 0 .. Burst
    BY ONLY <1>4, <1>8
  <2>3. greeted' = greeted /\ greeted \in BOOLEAN
    BY <1>0, <1>5 DEF host, SerialTypes, ClientTypes
  <2>4. answered' \in Nat
    BY ONLY <1>0, <1>4, LenProperties
  <2> QED BY ONLY <1>4, <1>7, <2>1, <2>2, <2>3, <2>4, complete \in BOOLEAN
          DEF ClientTypes
<1>10. toHost' \in Seq(Byte)
  <2>1. CASE complete
    <3>1. Joined(toHost, Signature) \in Seq(Byte)
      BY ONLY <1>0, <1>8, JoinedType
    <3> QED BY ONLY <1>4, <2>1, <3>1
  <2>2. CASE ~complete
    BY ONLY <1>0, <1>4, <1>6, <2>2, AppendProperties
  <2> QED BY <2>1, <2>2
<1>11. SenderTypes'
  BY <1>0, <1>5, <1>10 DEF SerialTypes, SenderTypes, sender
<1>12. ReceiverTypes'
  BY <1>0, <1>4, <1>5, <1>6 DEF SerialTypes, ReceiverTypes, FrameTypes, receiver, host
<1>13. Receiving'
  <2>1. receiveBuffer' = <<>> /\ parsed' = <<>> /\ sentByHost' = sentByHost
        /\ receiveBufferLen' = receiveBufferLen /\ greeted' = greeted
    BY <1>0, <1>5 DEF receiver, host
  <2>2. CASE complete
    BY ONLY <1>4, <1>7, <2>1, <2>2 DEF Receiving
  <2>3. CASE ~complete
    BY ONLY <1>4, <1>7, <2>1, <2>3 DEF Receiving
  <2> QED BY <2>2, <2>3
<1>14. Leaving'
  <2>1. begun' = <<>> /\ currentSendPacket' = NoPacket
    BY <1>0, <1>5 DEF sender
  <2>2. CASE complete
    <3>1. Images(<<>>, FrameOf) = <<>>
      BY ImagesEmpty
    <3>2. Joined(Signature, <<>>) = Signature
      BY ONLY <1>8, JoinedEmpty
    <3>3. Signature # <<>>
      BY SerialAssumption
    <3>4. LeaveWith(toHost', answered', <<>>, <<>>, toHost, Signature)
      BY ONLY <1>0, <1>4, <1>8, <2>2, <3>1, <3>2, <3>3 DEF LeaveWith
    <3>5. Leaves(toHost', answered', <<>>, <<>>)
      BY <3>4 DEF Leaves
    <3> QED BY ONLY <1>4, <2>1, <2>2, <3>5 DEF Leaving, Unsent
  <2>3. CASE ~complete
    BY ONLY <1>4, <1>10, <2>1, <2>3 DEF Leaving
  <2> QED BY <2>2, <2>3
<1>15. RouterPart' /\ MainTypes' /\ PortsKept'
  BY <1>0, <1>5, StillTypes, StillThere
<1> QED BY ONLY <1>9, <1>11, <1>12, <1>13, <1>14, <1>15 DEF SerialInv, SerialTypes

LEMMA PortTypesAre ==
    ASSUME SerialTypes
    PROVE  PortTypes(takenByTcp, read, reading, packetsReceived, parsed)
<1>1. parsed \in Seq(Arrivals) /\ packetsReceived \in Seq(Packet)
  BY DEF SerialTypes, RouterPart, RouterTypes, ReceiverTypes, FrameTypes
<1>2. parsed \in Seq(Packet)
  BY <1>1, SomeArrivals
<1> QED BY <1>1, <1>2 DEF SerialTypes, MainTypes, PortTypes

LEMMA DoStepKeeps == SerialInv /\ DoStep => SerialInv'
<1> SUFFICES ASSUME SerialInv, DoStep PROVE SerialInv'
  OBVIOUS
<1>0. /\ pc = "main" /\ connected /\ SerialTypes /\ PortsKept
      /\ pc' = "receive" /\ left' = Burst
      /\ UNCHANGED <<working, packetsToBeSent, client, mainLoop, greeted, parsed>>
      /\ StillSender /\ StillReceiver
  BY DEF SerialInv, DoStep, StillSender, StillReceiver, host
<1>1. PICK r : r = Chosen(packetsReceived, Packet \ ToPort(TCPHost))
  OBVIOUS
<1>2. PICK t : t = Joined(takenByTcp, Chosen(packetsReceived, ToPort(TCPHost)))
  OBVIOUS
<1>3. packetsReceived' = r /\ takenByTcp' = t
  BY <1>1, <1>2 DEF DoStep, Joined
<1>4. PortsAre(takenByTcp, read, reading, packetsReceived, parsed)
  BY <1>0 DEF PortsKept
<1>5. PortTypes(t, read, reading, r, parsed) /\ PortsAre(t, read, reading, r, parsed)
  BY ONLY <1>0, <1>1, <1>2, <1>4, PortTypesAre, PortsTaken
<1>6. r \in Seq(Arrivals)
  <2>1. packetsReceived \in Seq(Arrivals)
    BY <1>0 DEF SerialTypes, RouterPart
  <2>2. Arrivals \subseteq Packet
    BY ArrivalsAre
  <2> QED BY ONLY <1>1, <2>1, <2>2, ChosenKind
<1>7. ClientTypes'
  <2>1. Burst \in Nat
    BY SerialAssumption
  <2> QED BY <1>0, <2>1 DEF SerialTypes, ClientTypes, client
<1>8. RouterPart'
  BY <1>0, <1>3, <1>5, <1>6 DEF SerialTypes, RouterPart, RouterTypes, PortTypes
<1>9. MainTypes'
  BY <1>0, <1>3, <1>5 DEF SerialTypes, MainTypes, mainLoop, PortTypes
<1>10. PortsKept'
  BY <1>0, <1>3, <1>5 DEF PortsKept, mainLoop
<1>11. SenderTypes' /\ ReceiverTypes' /\ Receiving' /\ Leaving'
  <2>1. UNCHANGED <<connected, checkIndex, answered, greeted, intruded>>
    BY <1>0 DEF client, mainLoop
  <2> QED BY <1>0, <2>1, StillTypes, StillThere
<1> QED BY ONLY <1>7, <1>8, <1>9, <1>10, <1>11 DEF SerialInv, SerialTypes

(* A packet was received.                                                   *)
LEMMA ReceivedKeeps ==
    ASSUME SerialInv, connected, NEW q, NEW l, l \in Seq(Byte),
           Taken(sentByHost, parsed, q, receiveBufferLen, l), Received(q),
           toKernel' = l, sentByHost' = sentByHost, connected' = connected,
           StillMain
    PROVE  RouterPart' /\ ReceiverTypes' /\ Receiving' /\ PortsKept'
<1>0. /\ SerialTypes /\ PortsKept
      /\ RouterIs(SendPacket(Router, q)) /\ parsed' = Append(parsed, q)
      /\ receiveBuffer' = <<>> /\ receiveBufferLen' = receiveBufferLen
  BY DEF SerialInv, Received
<1>1. Appended(parsed, q, parsed')
  BY <1>0 DEF Appended
<1>2. /\ q \in Arrivals /\ parsed' \in Seq(Arrivals)
      /\ FramesAre(sentByHost, parsed', <<>>, receiveBufferLen, l)
  BY ONLY <1>1, Taken(sentByHost, parsed, q, receiveBufferLen, l) DEF Taken
<1>3. q \in Packet /\ Harmless(q)
  BY ONLY <1>2, ArrivalsAre DEF Harmless, Consumers
<1>4. PICK r : r = Router
  OBVIOUS
<1>5. RouterIn(r) /\ r.list = packetsReceived
  <2>1. RouterTypes(working, packetsToBeSent, packetsReceived)
    BY <1>0 DEF SerialTypes, RouterPart
  <2>2. r = [working |-> working, queue |-> packetsToBeSent, list |-> packetsReceived]
    BY <1>4 DEF Router
  <2> QED BY ONLY <2>1, <2>2 DEF RouterIn
<1>6. PICK u : u = SendPacket(r, q)
  OBVIOUS
<1>7. RouterIn(u) /\ Listed(packetsReceived, q, u.list)
  BY ONLY <1>3, <1>5, <1>6, SendPacketIs
<1>8. working' = u.working /\ packetsToBeSent' = u.queue /\ packetsReceived' = u.list
  BY <1>0, <1>4, <1>6 DEF RouterIs
<1>9. packetsReceived' \in Seq(Arrivals)
  <2>1. packetsReceived \in Seq(Arrivals)
    BY <1>0 DEF SerialTypes, RouterPart
  <2>2. u.list = packetsReceived \/ u.list = Append(packetsReceived, q)
    BY ONLY <1>7 DEF Listed, Appended
  <2> QED BY ONLY <1>2, <1>8, <2>1, <2>2, AppendProperties
<1>10. RouterPart'
  BY ONLY <1>7, <1>8, <1>9 DEF RouterPart, RouterIn
<1>11. ReceiverTypes'
  <2>1. sentByHost \in Seq(Arrivals) /\ receiveBufferLen \in Nat /\ <<>> \in Seq(Byte)
    BY <1>0, EmptySeq DEF SerialTypes, ReceiverTypes, FrameTypes
  <2> QED BY ONLY <1>0, <1>2, <2>1, l \in Seq(Byte), toKernel' = l,
             sentByHost' = sentByHost DEF ReceiverTypes, FrameTypes
<1>12. Receiving'
  BY ONLY <1>0, <1>2, connected, toKernel' = l, sentByHost' = sentByHost,
          connected' = connected DEF Receiving
<1>13. PortsKept'
  <2>1. PortTypes(takenByTcp, read, reading, packetsReceived, parsed)
    BY ONLY <1>0, PortTypesAre
  <2>2. PortsAre(takenByTcp, read, reading, packetsReceived, parsed)
    BY <1>0 DEF PortsKept
  <2>3. PortsAre(takenByTcp, read, reading, u.list, parsed')
    BY ONLY <1>1, <1>3, <1>7, <2>1, <2>2, PortsReceived
  <2>4. UNCHANGED <<takenByTcp, read, reading>>
    BY DEF StillMain, mainLoop
  <2> QED BY ONLY <1>8, <2>3, <2>4 DEF PortsKept
<1> QED BY ONLY <1>10, <1>11, <1>12, <1>13

LEMMA ReceiveByteKeeps == SerialInv /\ ReceiveByte => SerialInv'
<1> SUFFICES ASSUME SerialInv, ReceiveByte PROVE SerialInv'
  OBVIOUS
<1>0. /\ SerialTypes /\ connected /\ toKernel # <<>> /\ left > 0
      /\ FrameTypes(sentByHost, parsed, receiveBuffer, toKernel)
      /\ FramesAre(sentByHost, parsed, receiveBuffer, receiveBufferLen, toKernel)
  BY DEF SerialInv, SerialTypes, ClientTypes, ReceiverTypes, Receiving, ReceiveByte
<1>1. PICK bytes, l : bytes = Append(receiveBuffer, Head(toKernel)) /\ l = Tail(toKernel)
  OBVIOUS
<1>2. /\ toKernel' = l /\ left' = left - 1
      /\ IF Unknown(bytes) THEN Received(Unframed(bytes))
         ELSE IF Ready(bytes, receiveBufferLen) THEN Received(Decode(bytes))
         ELSE Waiting(bytes)
  BY <1>1 DEF ReceiveByte, Unknown, Ready, Complete
<1>3. /\ StillMain /\ StillSender
      /\ UNCHANGED <<connected, checkIndex, answered, greeted, sentByHost, pc>>
      /\ UNCHANGED intruded
  BY DEF ReceiveByte, StillMain, StillSender, client, host, mainLoop
<1>4. /\ bytes \in Seq(Byte) /\ l \in Seq(Byte)
      /\ OneMore(sentByHost, parsed, bytes, receiveBufferLen, l)
  BY ONLY <1>0, <1>1, FramesByte
<1>5. RouterPart' /\ ReceiverTypes' /\ Receiving' /\ PortsKept'
  <2>1. CASE Unknown(bytes)
    <3>1. Received(Unframed(bytes))
      BY ONLY <1>2, <2>1
    <3>2. Taken(sentByHost, parsed, Unframed(bytes), receiveBufferLen, l)
      BY ONLY <1>4, <2>1 DEF OneMore
    <3>3. PICK q : q = Unframed(bytes)
      OBVIOUS
    <3> QED BY ONLY SerialInv, <1>0, <1>2, <1>3, <1>4, <3>1, <3>2, <3>3, ReceivedKeeps
  <2>2. CASE ~Unknown(bytes) /\ Ready(bytes, receiveBufferLen)
    <3>1. Received(Decode(bytes))
      BY ONLY <1>2, <2>2
    <3>2. Taken(sentByHost, parsed, Decode(bytes), receiveBufferLen, l)
      BY ONLY <1>4, <2>2 DEF OneMore
    <3>3. PICK q : q = Decode(bytes)
      OBVIOUS
    <3> QED BY ONLY SerialInv, <1>0, <1>2, <1>3, <1>4, <3>1, <3>2, <3>3, ReceivedKeeps
  <2>3. CASE ~Unknown(bytes) /\ ~Ready(bytes, receiveBufferLen)
    <3>1. Waiting(bytes)
      BY ONLY <1>2, <2>3
    <3>2. FramesAre(sentByHost, parsed, bytes, LenAfter(bytes, receiveBufferLen), l)
      BY ONLY <1>4, <2>3 DEF OneMore
    <3>3. /\ receiveBuffer' = bytes
          /\ receiveBufferLen' = LenAfter(bytes, receiveBufferLen)
          /\ UNCHANGED <<router, parsed>>
      BY ONLY <3>1 DEF Waiting, LenAfter
    <3>4. Receiving'
      BY ONLY <1>0, <1>2, <1>3, <3>2, <3>3 DEF Receiving
    <3>5. LenAfter(bytes, receiveBufferLen) \in Nat
      <4>1. /\ LenAt \in Nat \ {0} /\ HeaderLen \in Nat /\ MaxLen \in Nat
            /\ receiveBufferLen \in Nat
        BY <1>0, SignatureIs, SerialAssumption DEF SerialTypes, ReceiverTypes
      <4>2. ASSUME Len(bytes) = LenAt PROVE Announced(Last(bytes)) \in Nat
        <5>1. Len(bytes) \in 1 .. Len(bytes)
          BY ONLY <4>1, <4>2
        <5>2. Last(bytes) \in Byte
          BY ONLY <1>4, <5>1, ElementOfSeq DEF Last
        <5> QED BY ONLY <4>1, <5>2 DEF Announced, Byte
      <4> QED BY ONLY <4>1, <4>2 DEF LenAfter
    <3>6. ReceiverTypes'
      BY ONLY <1>0, <1>2, <1>3, <1>4, <3>3, <3>5 DEF ReceiverTypes, FrameTypes
    <3>7. RouterPart' /\ PortsKept'
      <4>1. StillRouter
        BY <3>3 DEF StillRouter
      <4>2. UNCHANGED parsed
        BY <3>3
      <4> QED BY ONLY SerialInv, <1>0, <1>3, <4>1, <4>2, StillTypes, StillThere
    <3> QED BY <3>4, <3>6, <3>7
  <2> QED BY <2>1, <2>2, <2>3
<1>6. ClientTypes'
  BY <1>0, <1>2, <1>3, SerialAssumption DEF SerialTypes, ClientTypes
<1>7. SenderTypes' /\ MainTypes' /\ Leaving'
  BY ONLY SerialInv, <1>0, <1>3, StillTypes, StillThere
<1> QED BY ONLY <1>5, <1>6, <1>7 DEF SerialInv, SerialTypes

(* The interrupt goes on to its next part.                                  *)
LEMMA GoOnKeeps ==
    ASSUME SerialInv, StillRouter, StillSender, StillReceiver, StillMain,
           UNCHANGED client, UNCHANGED greeted, connected,
           pc' \in {"main", "receive", "send"}, left' \in 0 .. Burst
    PROVE  SerialInv'
<1>1. UNCHANGED <<connected, checkIndex, answered, greeted, parsed, intruded>>
  BY DEF client, StillReceiver, StillMain, mainLoop
<1>2. ClientTypes'
  BY <1>1 DEF SerialInv, SerialTypes, ClientTypes
<1> QED BY <1>1, <1>2, StillTypes, StillThere DEF SerialInv, SerialTypes

LEMMA ReceiveEndKeeps == SerialInv /\ ReceiveEnd => SerialInv'
<1> SUFFICES ASSUME SerialInv, ReceiveEnd PROVE SerialInv'
  OBVIOUS
<1>1. /\ StillRouter /\ StillSender /\ StillReceiver /\ StillMain
      /\ UNCHANGED client /\ UNCHANGED greeted /\ pc = "receive"
      /\ pc' = "send" /\ left' = Burst
  BY DEF ReceiveEnd, StillRouter, StillSender, StillReceiver, StillMain, host
<1>2. connected /\ left' \in 0 .. Burst
  BY <1>1, SerialAssumption DEF SerialInv, SerialTypes, ClientTypes
<1> QED BY <1>1, <1>2, GoOnKeeps

LEMMA SendEndKeeps == SerialInv /\ SendEnd => SerialInv'
<1> SUFFICES ASSUME SerialInv, SendEnd PROVE SerialInv'
  OBVIOUS
<1>1. /\ StillRouter /\ StillSender /\ StillReceiver /\ StillMain
      /\ UNCHANGED client /\ UNCHANGED greeted /\ pc = "send"
      /\ pc' = "main" /\ left' = 0
  BY DEF SendEnd, StillRouter, StillSender, StillReceiver, StillMain, host
<1>2. connected /\ left' \in 0 .. Burst
  BY <1>1, SerialAssumption DEF SerialInv, SerialTypes, ClientTypes
<1> QED BY <1>1, <1>2, GoOnKeeps

(* One more byte is sent, or a packet is done with.                         *)
LEMMA SendKeepsRest ==
    ASSUME SerialInv, pc = "send", left > 0, left' = left - 1,
           StillReceiver, StillMain, UNCHANGED client, UNCHANGED greeted, UNCHANGED pc,
           UNCHANGED packetsReceived
    PROVE  connected /\ ClientTypes' /\ ReceiverTypes' /\ MainTypes' /\ Receiving'
           /\ PortsKept' /\ UNCHANGED <<connected, answered, intruded>>
<1>1. UNCHANGED <<connected, checkIndex, answered, greeted, parsed, intruded>>
  BY DEF client, StillReceiver, StillMain, mainLoop
<1>2. connected /\ ClientTypes'
  BY <1>1, SerialAssumption DEF SerialInv, SerialTypes, ClientTypes
<1>3. PortsKept'
  BY <1>1 DEF SerialInv, PortsKept, StillMain, mainLoop
<1> QED BY <1>1, <1>2, <1>3, StillTypes, StillThere DEF SerialInv

LEMMA BeginPacketKeeps == SerialInv /\ BeginPacket => SerialInv'
<1> SUFFICES ASSUME SerialInv, BeginPacket PROVE SerialInv'
  OBVIOUS
<1>0. /\ pc = "send" /\ left > 0 /\ left' = left - 1
      /\ currentSendPacket = NoPacket /\ packetsToBeSent # <<>>
      /\ packetsToBeSent' = Tail(packetsToBeSent) /\ Begin /\ sendBufferIndex' = 0
      /\ UNCHANGED <<working, packetsReceived, client, greeted, pc>>
      /\ StillReceiver /\ StillMain
  BY DEF BeginPacket, StillReceiver, StillMain, host
<1>1. connected /\ ClientTypes' /\ ReceiverTypes' /\ MainTypes' /\ Receiving' /\ PortsKept'
      /\ UNCHANGED <<connected, answered, intruded>>
  BY ONLY SerialInv, <1>0, SendKeepsRest
<1>2. PICK q : q = Head(packetsToBeSent)
  OBVIOUS
<1>3. /\ packetsToBeSent \in Seq(Packet \ {NoPacket})
      /\ begun \in Seq(Packet) /\ toHost \in Seq(Byte) /\ sendBuffer \in Seq(Byte)
      /\ currentSendPacket \in Packet
  BY DEF SerialInv, SerialTypes, RouterPart, RouterTypes, SenderTypes
<1>4. q \in Packet /\ q # NoPacket /\ packetsToBeSent' \in Seq(Packet \ {NoPacket})
  BY ONLY <1>0, <1>2, <1>3, HeadTailProperties
<1>5. RouterPart'
  BY <1>0, <1>4 DEF SerialInv, SerialTypes, RouterPart, RouterTypes
<1>6. ~intruded => Leaves(toHost, answered, begun, <<>>)
  BY <1>0, <1>1 DEF SerialInv, Leaving, Unsent
<1>7. connected'
  BY <1>1
<1>8. CASE MayBegin(q)
  <2>1. PICK h : h = Header(q)
    OBVIOUS
  <2>2. /\ currentSendPacket' = q /\ sendBuffer' = Tail(h)
        /\ toHost' = Append(toHost, Head(h)) /\ begun' = Append(begun, q)
    BY <1>0, <1>2, <1>8, <2>1 DEF Begin
  <2>3. Appended(begun, q, begun')
    BY <2>2 DEF Appended
  <2>4. PICK v : v = Joined(Tail(h), q.data)
    OBVIOUS
  <2>5. ASSUME ~intruded PROVE Leaves(toHost', answered, begun', v)
    BY ONLY <1>3, <1>4, <1>6, <2>1, <2>2, <2>3, <2>4, <2>5, LeavesBegun
  <2>9. h \in Seq(Byte) /\ h # <<>> /\ Tail(h) \in Seq(Byte)
    <3>1. h \in Seq(Byte) /\ Len(h) = HeaderLen
      BY ONLY <1>4, <2>1, HeaderIs
    <3>2. Len(h) # 0
      BY <3>1, SignatureIs
    <3>3. h # <<>>
      BY ONLY <3>2, EmptySeq
    <3> QED BY ONLY <3>1, <3>3, HeadTailProperties
  <2>6. DataFrom(q, 0) = q.data /\ 0 \in 0 .. Len(q.data)
    <3>1. q.data \in Seq(Byte)
      BY ONLY <1>4, PacketIs
    <3>2. SubSeq(q.data, 1, Len(q.data)) = q.data
      BY ONLY <3>1, SubSeqFull
    <3>3. Len(q.data) \in Nat
      BY ONLY <3>1, LenProperties
    <3> QED BY <3>2, <3>3 DEF DataFrom
  <2>7. Leaving'
    <3>1. Unsent(currentSendPacket', sendBuffer', sendBufferIndex') = v
      BY ONLY <1>0, <1>4, <2>2, <2>4, <2>6 DEF Unsent
    <3> QED BY ONLY <1>1, <1>7, <2>5, <3>1 DEF Leaving
  <2>8. SenderTypes'
    <3>1. begun' \in Seq(Packet)
      BY ONLY <1>3, <1>4, <2>2, AppendProperties
    <3>2. toHost' \in Seq(Byte)
      <4>3. Head(h) \in Byte
        BY ONLY <2>9, HeadTailProperties
      <4> QED BY ONLY <1>3, <2>2, <4>3, AppendProperties
    <3> QED BY ONLY <1>0, <1>4, <2>2, <2>6, <2>9, <3>1, <3>2 DEF SenderTypes
  <2> QED BY <1>1, <1>5, <2>7, <2>8 DEF SerialInv, SerialTypes
<1>9. CASE ~MayBegin(q)
  <2>1. sendBuffer' = <<>> /\ UNCHANGED <<currentSendPacket, toHost, begun>>
    BY <1>0, <1>2, <1>9 DEF Begin
  <2>2. Leaving'
    BY ONLY <1>0, <1>1, <1>6, <1>7, <2>1 DEF Leaving, Unsent
  <2>3. SenderTypes'
    <3>1. 0 \in 0 .. Len(currentSendPacket.data) /\ <<>> \in Seq(Byte)
      <4>1. currentSendPacket.data \in Seq(Byte)
        BY ONLY <1>3, PacketIs
      <4>2. Len(currentSendPacket.data) \in Nat
        BY ONLY <4>1, LenProperties
      <4> QED BY <4>2, EmptySeq
    <3> QED BY ONLY <1>0, <1>3, <2>1, <3>1 DEF SenderTypes
  <2> QED BY <1>1, <1>5, <2>2, <2>3 DEF SerialInv, SerialTypes
<1> QED BY <1>8, <1>9

LEMMA SendByteKeeps == SerialInv /\ SendByte => SerialInv'
<1> SUFFICES ASSUME SerialInv, SendByte PROVE SerialInv'
  OBVIOUS
<1>0. /\ pc = "send" /\ left > 0 /\ left' = left - 1
      /\ currentSendPacket # NoPacket
      /\ UNCHANGED <<currentSendPacket, client, greeted, pc, begun>>
      /\ StillRouter /\ StillReceiver /\ StillMain
  BY DEF SendByte, StillReceiver, StillMain, StillRouter, host
<1>1. UNCHANGED packetsReceived /\ UNCHANGED connected
  BY <1>0 DEF StillRouter, router, client
<1>2. connected /\ ClientTypes' /\ ReceiverTypes' /\ MainTypes' /\ Receiving' /\ PortsKept'
      /\ UNCHANGED <<connected, answered, intruded>>
  BY ONLY SerialInv, <1>0, <1>1, SendKeepsRest
<1>3. RouterPart'
  BY <1>0, StillTypes DEF SerialInv
<1>4. /\ currentSendPacket \in Packet /\ sendBuffer \in Seq(Byte)
      /\ sendBufferIndex \in 0 .. Len(currentSendPacket.data)
      /\ begun \in Seq(Packet) /\ toHost \in Seq(Byte)
  BY DEF SerialInv, SerialTypes, SenderTypes
<1>5. PICK q, i, buf : q = currentSendPacket /\ i = sendBufferIndex /\ buf = sendBuffer
  OBVIOUS
<1>6. /\ q \in Packet /\ i \in Nat /\ i <= Len(q.data) /\ Len(q.data) \in Nat
      /\ buf \in Seq(Byte)
  <2>1. q.data \in Seq(Byte)
    BY ONLY <1>4, <1>5, PacketIs
  <2>2. Len(q.data) \in Nat
    BY ONLY <2>1, LenProperties
  <2> QED BY ONLY <1>4, <1>5, <2>2
<1>7. PICK d : d = DataFrom(q, i) /\ d \in Seq(Byte)
  BY ONLY <1>6, DataFromIs
<1>8. PICK un : un = Joined(buf, d) /\ un \in Seq(Byte)
  BY ONLY <1>6, <1>7, JoinedType
<1>9. ~intruded => Leaves(toHost, answered, begun, un)
  BY <1>0, <1>2, <1>5, <1>7, <1>8 DEF SerialInv, Leaving, Unsent
<1>10. ASSUME un # <<>>, Head(un) \in Byte,
              Unsent(currentSendPacket', sendBuffer', sendBufferIndex') = Tail(un),
              toHost' = Append(toHost, Head(un))
       PROVE  Leaving' /\ toHost' \in Seq(Byte)
  <2>1. PICK l : l = toHost'
    OBVIOUS
  <2>2. PICK v : v = Tail(un)
    OBVIOUS
  <2>3. un \in Seq(Byte)
    BY <1>8
  <2>4. ASSUME ~intruded PROVE Leaves(l, answered, begun, v)
    BY ONLY <1>9, <1>10, <2>1, <2>2, <2>3, <2>4, LeavesMoved
  <2>5. Leaving'
    BY ONLY <1>0, <1>1, <1>2, <1>10, <2>1, <2>2, <2>4 DEF Leaving
  <2>6. toHost' \in Seq(Byte)
    BY ONLY <1>4, <1>10, AppendProperties
  <2> QED BY <2>5, <2>6
<1>11. CASE /\ buf # <<>> /\ toHost' = Append(toHost, Head(buf))
            /\ sendBuffer' = Tail(buf) /\ sendBufferIndex' = i
  <2>1. Head(buf) \in Byte /\ Tail(buf) \in Seq(Byte)
    BY ONLY <1>6, <1>11, HeadTailProperties
  <2>2. HeadOfJoined(buf, d, un)
    BY ONLY <1>6, <1>7, <1>8, <1>11, JoinedHead
  <2>3. Head(un) = Head(buf) /\ Tail(un) = Joined(Tail(buf), d)
    BY ONLY <2>2 DEF HeadOfJoined
  <2>4. un # <<>>
    <3>1. TwoParts(buf, d, un)
      BY ONLY <1>6, <1>7, <1>8, PartsOfJoined
    <3>2. Len(buf) # 0
      BY ONLY <1>6, <1>11, EmptySeq
    <3>3. Len(un) # 0
      BY ONLY <3>1, <3>2 DEF TwoParts
    <3> QED BY ONLY <3>3, EmptySeq
  <2>5. Unsent(currentSendPacket', sendBuffer', sendBufferIndex') = Tail(un)
    BY ONLY <1>0, <1>5, <1>7, <1>11, <2>3 DEF Unsent
  <2>6. Leaving' /\ toHost' \in Seq(Byte)
    BY ONLY <1>10, <1>11, <2>1, <2>3, <2>4, <2>5
  <2>7. SenderTypes'
    BY ONLY <1>0, <1>4, <1>5, <1>11, <2>1, <2>6 DEF SenderTypes
  <2> QED BY <1>2, <1>3, <2>6, <2>7 DEF SerialInv, SerialTypes
<1>12. CASE /\ buf = <<>> /\ i < Len(q.data)
            /\ toHost' = Append(toHost, q.data[i + 1])
            /\ sendBuffer' = buf /\ sendBufferIndex' = i + 1
  <2>1. un = d
    BY ONLY <1>7, <1>8, <1>12, JoinedEmpty
  <2>2. /\ un # <<>> /\ Head(un) = q.data[i + 1]
        /\ Tail(un) = DataFrom(q, i + 1)
    BY ONLY <1>6, <1>7, <1>12, <2>1, DataFromIs
  <2>3. Head(un) \in Byte /\ Tail(un) \in Seq(Byte)
    BY ONLY <1>8, <2>2, HeadTailProperties
  <2>4. Joined(<<>>, Tail(un)) = Tail(un)
    BY ONLY <2>3, JoinedEmpty
  <2>5. Unsent(currentSendPacket', sendBuffer', sendBufferIndex') = Tail(un)
    BY ONLY <1>0, <1>5, <1>12, <2>2, <2>4 DEF Unsent
  <2>6. Leaving' /\ toHost' \in Seq(Byte)
    BY ONLY <1>10, <1>12, <2>2, <2>3, <2>5
  <2>7. SenderTypes'
    <3>1. i + 1 \in 0 .. Len(q.data)
      BY ONLY <1>6, <1>12
    <3> QED BY ONLY <1>0, <1>4, <1>5, <1>12, <2>6, <3>1 DEF SenderTypes
  <2> QED BY <1>2, <1>3, <2>6, <2>7 DEF SerialInv, SerialTypes
<1> QED BY <1>5, <1>11, <1>12 DEF SendByte

LEMMA SendDoneKeeps == SerialInv /\ SendDone => SerialInv'
<1> SUFFICES ASSUME SerialInv, SendDone PROVE SerialInv'
  OBVIOUS
<1>0. /\ pc = "send" /\ left > 0 /\ left' = left - 1
      /\ currentSendPacket # NoPacket /\ sendBuffer = <<>>
      /\ sendBufferIndex = Len(currentSendPacket.data)
      /\ currentSendPacket' = NoPacket /\ sendBufferIndex' = 0
      /\ UNCHANGED <<sendBuffer, client, greeted, pc, begun, toHost>>
      /\ StillRouter /\ StillReceiver /\ StillMain
  BY DEF SendDone, StillReceiver, StillMain, StillRouter, host
<1>1. UNCHANGED packetsReceived /\ UNCHANGED connected
  BY <1>0 DEF StillRouter, router, client
<1>2. connected /\ ClientTypes' /\ ReceiverTypes' /\ MainTypes' /\ Receiving' /\ PortsKept'
      /\ UNCHANGED <<connected, answered, intruded>>
  BY ONLY SerialInv, <1>0, <1>1, SendKeepsRest
<1>3. RouterPart'
  BY <1>0, StillTypes DEF SerialInv
<1>4. /\ currentSendPacket \in Packet /\ sendBuffer \in Seq(Byte)
      /\ begun \in Seq(Packet) /\ toHost \in Seq(Byte)
  BY DEF SerialInv, SerialTypes, SenderTypes
<1>5. PICK q, i : q = currentSendPacket /\ i = sendBufferIndex
  OBVIOUS
<1>6. q \in Packet /\ i \in Nat /\ i = Len(q.data)
  <2>1. q.data \in Seq(Byte)
    BY ONLY <1>4, <1>5, PacketIs
  <2>2. Len(q.data) \in Nat
    BY ONLY <2>1, LenProperties
  <2> QED BY ONLY <1>0, <1>4, <1>5, <2>2
<1>7. DataFrom(q, i) = <<>>
  <2>1. i <= Len(q.data)
    BY ONLY <1>6
  <2> QED BY ONLY <1>6, <2>1, DataFromIs
<1>8. Unsent(currentSendPacket, sendBuffer, sendBufferIndex) = <<>>
  <2>1. Joined(<<>>, <<>>) = <<>>
    BY ONLY EmptySeq, JoinedEmpty
  <2> QED BY ONLY <1>0, <1>5, <1>7, <2>1 DEF Unsent
<1>9. ~intruded => Leaves(toHost, answered, begun, <<>>)
  BY <1>2, <1>8 DEF SerialInv, Leaving
<1>10. Leaving'
  BY ONLY <1>0, <1>1, <1>2, <1>9 DEF Leaving, Unsent
<1>11. SenderTypes'
  <2>1. NoPacket \in Packet /\ NoPacket.data = <<>>
    BY NoPacketIs
  <2>2. Len(NoPacket.data) = 0
    BY ONLY <2>1, EmptySeq
  <2>3. 0 \in 0 .. Len(NoPacket.data)
    BY ONLY <2>2
  <2> QED BY ONLY <1>0, <1>4, <2>1, <2>3 DEF SenderTypes
<1> QED BY <1>2, <1>3, <1>10, <1>11 DEF SerialInv, SerialTypes

(* The main loop.                                                           *)
LEMMA MainStepKeeps ==
    ASSUME SerialInv, StillClient, StillRouter, StillSender, StillReceiver,
           UNCHANGED <<read, reading, takenByTcp, intruded>>, MainTypes'
    PROVE  SerialInv'
<1>1. UNCHANGED <<connected, checkIndex, answered, greeted, parsed, packetsReceived>>
  BY DEF StillClient, StillReceiver, StillRouter, client, router
<1>2. PortsKept'
  BY <1>1 DEF SerialInv, PortsKept
<1> QED BY <1>1, <1>2, StillTypes, StillThere DEF SerialInv, SerialTypes

LEMMA CheckedIs ==
    ASSUME NEW packet \in Packet
    PROVE  Checked(packet) \in Packet
  BY NoPacketIs DEF Checked

LEMMA WriteKeeps ==
    ASSUME SerialInv, NEW packet \in KernelPackets,
           WritePacket(packet) \/ WriteString(packet)
    PROVE  SerialInv' /\ Finding'
<1>1. /\ StillClient /\ StillRouter /\ StillSender /\ StillReceiver
      /\ UNCHANGED <<read, reading, takenByTcp, intruded, mainStep, searchAt>>
      /\ mainStep = "idle" /\ written < MaxWritten /\ written' = written + 1
      /\ \/ mainPacket' = Checked(packet) /\ UNCHANGED typing
         \/ typing' = packet.data /\ UNCHANGED mainPacket
  BY DEF WritePacket, WriteString, AtRest, StillClient, StillRouter, StillSender,
         StillReceiver, host, client, receiver
<1>2. /\ packet \in Packet /\ packet.data \in Seq(Byte) /\ MaxWritten \in Nat
      /\ Checked(packet) \in Packet
  BY SerialAssumption, PacketIs, CheckedIs
<1>3. MainTypes
  BY DEF SerialInv, SerialTypes
<1>4. MainTypes'
  BY ONLY <1>1, <1>2, <1>3 DEF MainTypes
<1> QED BY <1>1, <1>4, MainStepKeeps DEF Finding

LEMMA WriteCharKeeps == SerialInv /\ WriteChar => SerialInv' /\ Finding'
<1> SUFFICES ASSUME SerialInv, WriteChar PROVE SerialInv' /\ Finding'
  OBVIOUS
<1>1. PICK packet : packet = New(TypeData, RawSerial, RawSerialClient, <<Head(typing)>>)
  OBVIOUS
<1>2. /\ StillClient /\ StillRouter /\ StillSender /\ StillReceiver
      /\ UNCHANGED <<read, reading, takenByTcp, intruded, searchAt, written>>
      /\ mainStep = "idle" /\ typing # <<>>
      /\ \/ /\ mainPacket' = Checked(packet) /\ typing' = Tail(typing)
            /\ mainStep' = "idle"
         \/ mainStep' = "raw" /\ UNCHANGED <<mainPacket, typing>>
  BY <1>1 DEF WriteChar, StillClient, StillRouter, StillSender, StillReceiver, host,
     client, receiver
<1>3. MainTypes
  BY DEF SerialInv, SerialTypes
<1>4. Head(typing) \in Byte /\ Tail(typing) \in Seq(Byte)
  <2>1. typing \in Seq(Byte)
    BY ONLY <1>3 DEF MainTypes
  <2> QED BY ONLY <1>2, <2>1, HeadTailProperties
<1>5. Checked(packet) \in Packet
  <2>1. packet \in Packet
    <3>1. <<Head(typing)>> \in Seq(Byte) /\ Len(<<Head(typing)>>) = 1
      BY ONLY <1>4, OneByte
    <3>2. TypeData \in Byte /\ RawSerial \in Byte /\ RawSerialClient \in Byte /\ 1 \in Byte
      BY PortsAreBytes DEF TypeData, RawSerial, RawSerialClient, Byte
    <3>3. PICK d : d = <<Head(typing)>> /\ d \in Seq(Byte) /\ Len(d) \in Byte
      BY ONLY <3>1, <3>2
    <3>4. packet = New(TypeData, RawSerial, RawSerialClient, d)
      BY ONLY <1>1, <3>3
    <3>5. PICK t, f, o : t = TypeData /\ f = RawSerial /\ o = RawSerialClient
      OBVIOUS
    <3>6. packet = New(t, f, o, d) /\ t \in Byte /\ f \in Byte /\ o \in Byte
      BY ONLY <3>2, <3>4, <3>5
    <3> QED BY ONLY <3>3, <3>6 DEF New, Packet
  <2> QED BY ONLY <2>1, CheckedIs
<1>6. MainTypes'
  BY ONLY <1>2, <1>3, <1>4, <1>5 DEF MainTypes, MainSteps
<1> QED BY <1>2, <1>6, MainStepKeeps DEF Finding

LEMMA WriteRawKeeps == SerialInv /\ WriteRaw => SerialInv' /\ Finding'
<1> SUFFICES ASSUME SerialInv, WriteRaw PROVE SerialInv' /\ Finding'
  OBVIOUS
<1>1. /\ StillClient /\ StillRouter /\ StillReceiver
      /\ UNCHANGED <<connected, checkIndex, answered, greeted, parsed>>
      /\ UNCHANGED <<packetsReceived, sender, begun>>
      /\ UNCHANGED <<read, reading, takenByTcp, mainPacket, searchAt, written>>
      /\ mainStep = "raw" /\ mainStep' = "idle"
      /\ toHost' = Append(toHost, Head(typing)) /\ typing' = Tail(typing)
      /\ intruded' = (intruded \/ connected)
  BY DEF WriteRaw, StillClient, StillRouter, StillReceiver, host, client, receiver,
         router
<1>2. MainTypes /\ SenderTypes
  BY DEF SerialInv, SerialTypes
<1>3. Head(typing) \in Byte /\ Tail(typing) \in Seq(Byte)
  <2>1. typing \in Seq(Byte) /\ typing # <<>>
    BY ONLY <1>1, <1>2 DEF MainTypes
  <2> QED BY ONLY <2>1, HeadTailProperties
<1>4. MainTypes'
  <2>1. intruded' \in BOOLEAN
    BY ONLY <1>1
  <2>2. mainStep' \in MainSteps
    BY ONLY <1>1 DEF MainSteps
  <2> QED BY ONLY <1>1, <1>2, <1>3, <2>1, <2>2 DEF MainTypes
<1>5. SenderTypes'
  <2>1. toHost' \in Seq(Byte)
    <3>1. toHost \in Seq(Byte)
      BY ONLY <1>2 DEF SenderTypes
    <3> QED BY ONLY <1>1, <1>3, <3>1, AppendProperties
  <2> QED BY ONLY <1>1, <1>2, <2>1 DEF SenderTypes, sender
<1>6. Leaving'
  BY <1>1 DEF SerialInv, Leaving, sender
<1>7. PortsKept'
  BY <1>1 DEF SerialInv, PortsKept
<1> QED BY <1>1, <1>4, <1>5, <1>6, <1>7, StillTypes, StillThere
        DEF SerialInv, SerialTypes, Finding

LEMMA EnqueueBeginsKeeps == SerialInv /\ EnqueueBegins => SerialInv' /\ Finding'
<1> SUFFICES ASSUME SerialInv, EnqueueBegins PROVE SerialInv' /\ Finding'
  OBVIOUS
<1>1. /\ StillClient /\ StillRouter /\ StillSender /\ StillReceiver
      /\ UNCHANGED <<read, reading, takenByTcp, intruded, searchAt, written, typing>>
      /\ UNCHANGED mainPacket /\ mainPacket # NoPacket /\ mainStep' = "enqueue"
  BY DEF EnqueueBegins, StillClient, StillRouter, StillSender, StillReceiver, host,
         client, receiver
<1>2. MainTypes'
  BY <1>1 DEF SerialInv, SerialTypes, MainTypes, MainSteps
<1> QED BY <1>1, <1>2, MainStepKeeps DEF Finding

LEMMA WriteQueuedKeeps == SerialInv /\ WriteQueued => SerialInv' /\ Finding'
<1> SUFFICES ASSUME SerialInv, WriteQueued PROVE SerialInv' /\ Finding'
  OBVIOUS
<1>1. /\ StillClient /\ StillSender /\ StillReceiver
      /\ UNCHANGED <<connected, checkIndex, answered, greeted, parsed>>
      /\ UNCHANGED <<reading, read, takenByTcp, written, typing, searchAt, intruded>>
      /\ UNCHANGED <<working, packetsReceived>>
      /\ mainStep = "enqueue" /\ mainPacket' = NoPacket /\ mainStep' = "idle"
      /\ packetsToBeSent' = Append(packetsToBeSent, mainPacket)
  BY DEF WriteQueued, StillClient, StillSender, StillReceiver, host, client, receiver
<1>2. MainTypes'
  BY <1>1, NoPacketIs DEF SerialInv, SerialTypes, MainTypes, MainSteps
<1>3. RouterPart'
  <2>1. /\ packetsToBeSent \in Seq(Packet \ {NoPacket})
        /\ mainPacket \in Packet \ {NoPacket}
    BY <1>1 DEF SerialInv, SerialTypes, RouterPart, RouterTypes, MainTypes
  <2>2. packetsToBeSent' \in Seq(Packet \ {NoPacket})
    BY ONLY <1>1, <2>1, AppendProperties
  <2> QED BY <1>1, <2>2 DEF SerialInv, SerialTypes, RouterPart, RouterTypes
<1>4. PortsKept'
  BY <1>1 DEF SerialInv, PortsKept
<1> QED BY <1>1, <1>2, <1>3, <1>4, StillTypes, StillThere
        DEF SerialInv, SerialTypes, Finding

LEMMA ReadBeginsKeeps == SerialInv /\ ReadBegins => SerialInv' /\ Finding'
<1> SUFFICES ASSUME SerialInv, ReadBegins PROVE SerialInv' /\ Finding'
  OBVIOUS
<1>1. /\ StillClient /\ StillRouter /\ StillSender /\ StillReceiver
      /\ UNCHANGED <<read, reading, takenByTcp, intruded, written, typing>>
      /\ UNCHANGED <<mainPacket, packetsReceived>> /\ reading = <<>> /\ searchAt' = 1
      /\ mainStep' \in {"find", "readRaw"}
  BY DEF ReadBegins, AtRest, StillClient, StillRouter, StillSender, StillReceiver,
         host, client, receiver, router
<1>2. MainTypes'
  <2>1. mainStep' \in MainSteps /\ searchAt' \in Nat \ {0}
        /\ mainStep' \notin {"raw", "enqueue", "remove"}
    BY ONLY <1>1 DEF MainSteps
  <2> QED BY <1>1, <2>1 DEF SerialInv, SerialTypes, MainTypes
<1>3. Finding'
  <2>1. Len(packetsReceived) \in Nat
    BY LenProperties DEF SerialInv, SerialTypes, RouterPart, RouterTypes
  <2> QED BY ONLY <1>1, <2>1 DEF Finding
<1> QED BY <1>1, <1>2, <1>3, MainStepKeeps

LEMMA GetPacketOnKeeps == SerialInv /\ Finding /\ GetPacketOn => SerialInv' /\ Finding'
<1> SUFFICES ASSUME SerialInv, Finding, GetPacketOn PROVE SerialInv' /\ Finding'
  OBVIOUS
<1>1. /\ StillClient /\ StillRouter /\ StillSender /\ StillReceiver
      /\ UNCHANGED <<read, reading, takenByTcp, intruded, written, typing>>
      /\ UNCHANGED <<mainPacket, packetsReceived>> /\ mainStep = "find"
  BY DEF GetPacketOn, StillClient, StillRouter, StillSender, StillReceiver, host,
         client, receiver, router
<1>2. /\ ~Wanted
      /\ IF searchAt <= Len(packetsReceived)
         THEN searchAt' = searchAt + 1 /\ mainStep' = "find"
         ELSE searchAt' = 1 /\ mainStep' = "idle"
  BY <1>1 DEF GetPacketOn
<1>3. MainTypes
  BY DEF SerialInv, SerialTypes
<1>4. MainTypes'
  <2>1. searchAt \in Nat
    BY ONLY <1>3 DEF MainTypes
  <2>2. searchAt' \in Nat \ {0}
    BY ONLY <1>2, <2>1
  <2>3. mainStep' \in {"idle", "find"} /\ mainStep' \in MainSteps
    BY ONLY <1>2 DEF MainSteps
  <2> QED BY ONLY <1>1, <1>3, <2>2, <2>3 DEF MainTypes
<1>5. Finding'
  <2> SUFFICES ASSUME mainStep' = "find"
               PROVE  /\ searchAt' <= Len(packetsReceived) + 1
                      /\ \A k \in 1 .. (searchAt' - 1) : packetsReceived[k].to # RawSerial
    BY <1>1 DEF Finding
  <2>1. searchAt <= Len(packetsReceived) /\ searchAt' = searchAt + 1
    BY ONLY <1>2, mainStep' = "find"
  <2>2. \A k \in 1 .. (searchAt - 1) : packetsReceived[k].to # RawSerial
    BY <1>1 DEF Finding
  <2>3. packetsReceived[searchAt].to # RawSerial
    BY ONLY <1>2, <2>1 DEF Wanted
  <2>4. searchAt \in Nat /\ Len(packetsReceived) \in Nat
    BY <1>3, LenProperties DEF MainTypes, SerialInv, SerialTypes, RouterPart, RouterTypes
  <2>5. \A k \in 1 .. (searchAt' - 1) : k \in 1 .. (searchAt - 1) \/ k = searchAt
    BY ONLY <2>1, <2>4
  <2> QED BY ONLY <2>1, <2>2, <2>3, <2>4, <2>5
<1> QED BY <1>1, <1>4, <1>5, MainStepKeeps

(* A step that reads: what the port has had, has and will have is the same. *)
LEMMA ReadingKeeps ==
    ASSUME SerialInv, StillClient, StillSender, StillReceiver,
           UNCHANGED <<takenByTcp, working, packetsToBeSent>>,
           PortTypes(takenByTcp, read', reading', packetsReceived', parsed),
           PortsAre(takenByTcp, read', reading', packetsReceived', parsed),
           packetsReceived' \in Seq(Arrivals), UNCHANGED intruded, MainTypes'
    PROVE  SerialInv'
<1>1. UNCHANGED <<connected, checkIndex, answered, greeted, parsed>>
  BY DEF StillClient, StillReceiver, client
<1>2. PortsKept'
  BY <1>1 DEF PortsKept
<1>3. RouterPart'
  BY DEF SerialInv, SerialTypes, RouterPart, RouterTypes, PortTypes
<1> QED BY <1>1, <1>2, <1>3, StillTypes, StillThere DEF SerialInv, SerialTypes

(* What the main loop reads from.                                           *)
LEMMA ToRead ==
    ASSUME SerialInv
    PROVE  /\ PortTypes(takenByTcp, read, reading, packetsReceived, parsed)
           /\ PortsAre(takenByTcp, read, reading, packetsReceived, parsed)
           /\ packetsReceived \in Seq(Arrivals) /\ MainTypes
  BY PortTypesAre DEF SerialInv, SerialTypes, RouterPart, PortsKept

LEMMA ReadKeeps == SerialInv /\ (ReadOn \/ Read) => SerialInv' /\ Finding'
<1> SUFFICES ASSUME SerialInv, ReadOn \/ Read PROVE SerialInv' /\ Finding'
  OBVIOUS
<1>1. PICK e, g : e = Append(read, Head(reading)) /\ g = Tail(reading)
  OBVIOUS
<1>2. /\ StillClient /\ StillSender /\ StillReceiver
      /\ UNCHANGED <<takenByTcp, working, packetsToBeSent, packetsReceived>>
      /\ UNCHANGED <<intruded, mainPacket, written, typing, searchAt>>
      /\ read' = e /\ reading' = g /\ mainStep' = "idle"
  BY <1>1 DEF ReadOn, Read, AtRest, StillClient, StillSender, StillReceiver, host,
     client, receiver, router
<1>3. reading # <<>>
  BY ToRead DEF ReadOn, Read, MainTypes
<1>4. /\ PortTypes(takenByTcp, e, g, packetsReceived, parsed)
      /\ PortsAre(takenByTcp, e, g, packetsReceived, parsed)
  BY ONLY SerialInv, <1>1, <1>3, ToRead, PortsReadOn
<1>5. MainTypes'
  <2>1. e \in Seq(Byte) /\ g \in Seq(Byte)
    BY ONLY <1>4 DEF PortTypes
  <2>2. mainStep' \in MainSteps
    BY ONLY <1>2 DEF MainSteps
  <2>3. MainTypes
    BY ToRead
  <2> QED BY ONLY <1>2, <2>1, <2>2, <2>3 DEF MainTypes
<1>6. /\ PortTypes(takenByTcp, read', reading', packetsReceived', parsed)
      /\ PortsAre(takenByTcp, read', reading', packetsReceived', parsed)
      /\ packetsReceived' \in Seq(Arrivals)
  BY ONLY SerialInv, <1>2, <1>4, ToRead
<1> QED BY <1>2, <1>5, <1>6, ReadingKeeps DEF Finding

LEMMA GetPacketKeeps == SerialInv /\ Finding /\ GetPacket => SerialInv' /\ Finding'
<1> SUFFICES ASSUME SerialInv, Finding, GetPacket PROVE SerialInv' /\ Finding'
  OBVIOUS
<1>1. PICK i : i = searchAt
  OBVIOUS
<1>2. PICK g, r : g = packetsReceived[i].data /\ r = RemoveAt(packetsReceived, i)
  OBVIOUS
<1>3. /\ StillClient /\ StillSender /\ StillReceiver
      /\ UNCHANGED <<takenByTcp, working, packetsToBeSent, read>>
      /\ UNCHANGED <<intruded, mainPacket, written, typing>>
      /\ packetsReceived' = r /\ reading' = g /\ mainStep' = "remove"
      /\ mainStep = "find" /\ searchAt' = 1
  BY <1>1, <1>2 DEF GetPacket, StillClient, StillSender, StillReceiver, host, client,
     receiver
<1>4. FirstFor(packetsReceived, i, RawSerial) /\ i \in 1 .. Len(packetsReceived)
  <2>1. i \in Nat \ {0} /\ Len(packetsReceived) \in Nat
    BY <1>1, ToRead, LenProperties DEF MainTypes
  <2>2. i <= Len(packetsReceived) /\ packetsReceived[i].to = RawSerial
    BY <1>1 DEF GetPacket, Wanted
  <2>3. \A k \in 1 .. (i - 1) : packetsReceived[k].to # RawSerial
    BY <1>1, <1>3 DEF Finding
  <2> QED BY ONLY <2>1, <2>2, <2>3 DEF FirstFor
<1>5. reading = <<>>
  BY ONLY SerialInv, <1>3, ToRead DEF MainTypes
<1>6. PortTypes(takenByTcp, read, g, r, parsed) /\ PortsAre(takenByTcp, read, g, r, parsed)
  BY ONLY SerialInv, <1>2, <1>4, <1>5, ToRead, PortsReadNext
<1>7. g # <<>>
  <2>1. packetsReceived[i] \in Arrivals
    BY ONLY SerialInv, <1>4, ToRead, ElementOfSeq
  <2>2. packetsReceived[i].to = RawSerial
    BY ONLY <1>4 DEF FirstFor
  <2> QED BY ONLY <1>2, <2>1, <2>2, ArrivalsAre
<1>8. r \in Seq(Arrivals)
  BY ONLY SerialInv, <1>2, <1>4, ToRead, RemoveAtProperties
<1>9. MainTypes'
  <2>1. g \in Seq(Byte)
    BY ONLY <1>6 DEF PortTypes
  <2>2. mainStep' \in MainSteps /\ searchAt' \in Nat \ {0}
    BY ONLY <1>3 DEF MainSteps
  <2>3. MainTypes
    BY ToRead
  <2> QED BY ONLY <1>3, <1>7, <2>1, <2>2, <2>3 DEF MainTypes
<1>10. /\ PortTypes(takenByTcp, read', reading', packetsReceived', parsed)
       /\ PortsAre(takenByTcp, read', reading', packetsReceived', parsed)
       /\ packetsReceived' \in Seq(Arrivals)
  BY ONLY <1>3, <1>6, <1>8
<1> QED BY <1>3, <1>9, <1>10, ReadingKeeps DEF Finding

(* A byte is read off the line before the host has sent its signature.      *)
LEMMA GreetsLess ==
    ASSUME NEW ci, NEW s, NEW tk, Greets(FALSE, ci, s, tk), tk # <<>>,
           NEW l, l = Tail(tk)
    PROVE  Greets(FALSE, ci, s, l) /\ l \in Seq(Byte)
<1>1. PICK typed, w : GreetWith(FALSE, ci, s, tk, typed, w)
  BY DEF Greets
<1>2. /\ ci = 0 /\ s = <<>> /\ tk = typed /\ Wires(w, s)
      /\ typed \in Seq(RawBytes) /\ ci \in 0 .. (SignatureLen - 1)
  BY <1>1 DEF GreetWith
<1>3. l \in Seq(RawBytes)
  BY ONLY <1>2, tk # <<>>, l = Tail(tk), TypedAre
<1>4. GreetWith(FALSE, ci, s, l, l, w)
  BY <1>2, <1>3 DEF GreetWith
<1>5. Greets(FALSE, ci, s, l)
  BY <1>4 DEF Greets
<1> QED BY ONLY <1>3, <1>5, TypedAre

LEMMA ReadRawKeeps == SerialInv /\ ReadRaw /\ ~greeted => SerialInv' /\ Finding'
<1> SUFFICES ASSUME SerialInv, ReadRaw, ~greeted PROVE SerialInv' /\ Finding'
  OBVIOUS
<1>1. /\ ~connected /\ greeted = FALSE /\ receiveBuffer = <<>> /\ parsed = <<>>
      /\ Greets(FALSE, checkIndex, sentByHost, toKernel)
  <2>1. greeted \in BOOLEAN /\ ~connected
    BY DEF SerialInv, SerialTypes, ClientTypes
  <2>2. greeted = FALSE
    BY <2>1
  <2>3. /\ Greets(greeted, checkIndex, sentByHost, toKernel)
        /\ receiveBuffer = <<>> /\ parsed = <<>>
    BY <2>1 DEF SerialInv, Receiving
  <2> QED BY ONLY <2>1, <2>2, <2>3
<1>2. PICK l : l = Tail(toKernel)
  OBVIOUS
<1>3. /\ StillClient /\ StillRouter /\ StillSender
      /\ UNCHANGED <<connected, checkIndex, answered, greeted, parsed, sentByHost>>
      /\ UNCHANGED <<packetsReceived, receiveBufferLen>>
      /\ UNCHANGED <<read, reading, takenByTcp, intruded, written, typing, searchAt>>
      /\ UNCHANGED mainPacket /\ mainStep' = "idle"
  BY DEF ReadRaw, StillClient, StillRouter, StillSender, host, client, router
<1>4. toKernel # <<>> /\ toKernel' = l /\ receiveBuffer' = receiveBuffer
  BY <1>1, <1>2 DEF ReadRaw
<1>5. Greets(FALSE, checkIndex, sentByHost, l) /\ l \in Seq(Byte)
  BY ONLY <1>1, <1>2, <1>4, GreetsLess
<1>6. Receiving'
  BY ONLY <1>1, <1>3, <1>4, <1>5 DEF Receiving
<1>7. ReceiverTypes'
  BY <1>3, <1>4, <1>5 DEF SerialInv, SerialTypes, ReceiverTypes, FrameTypes
<1>8. MainTypes'
  BY <1>3 DEF SerialInv, SerialTypes, MainTypes, MainSteps
<1>9. PortsKept'
  BY <1>3 DEF SerialInv, PortsKept
<1> QED BY <1>3, <1>6, <1>7, <1>8, <1>9, StillTypes, StillThere
        DEF SerialInv, SerialTypes, Finding

-----------------------------------------------------------------------------
(* The host.                                                                *)
LEMMA HostKeeps ==
    ASSUME SerialInv, StillRouter, StillSender, StillMain,
           UNCHANGED <<connected, checkIndex, answered, pc, left, parsed, receiver>>,
           greeted' \in BOOLEAN, greeted => greeted',
           ReceiverTypes', Receiving'
    PROVE  SerialInv'
<1>1. ClientTypes'
  BY DEF SerialInv, SerialTypes, ClientTypes
<1>2. UNCHANGED intruded
  BY DEF StillMain, mainLoop
<1> QED BY <1>1, <1>2, StillTypes, StillThere DEF SerialInv, SerialTypes

LEMMA HostGreetsKeeps == SerialInv /\ HostGreets => SerialInv'
<1> SUFFICES ASSUME SerialInv, HostGreets PROVE SerialInv'
  OBVIOUS
<1>1. /\ StillRouter /\ StillSender /\ StillMain
      /\ UNCHANGED <<connected, checkIndex, answered, pc, left, parsed, receiver, sentByHost>>
      /\ ~greeted /\ greeted' = TRUE
      /\ UNCHANGED <<receiveBuffer, receiveBufferLen>>
  BY DEF HostGreets, StillRouter, StillSender, StillMain, client, receiver
<1>2. PICK l : l = Joined(toKernel, Signature)
  OBVIOUS
<1>3. toKernel' = l
  BY <1>2 DEF HostGreets, Joined
<1>4. /\ ~connected /\ Greets(greeted, checkIndex, sentByHost, toKernel)
      /\ receiveBuffer = <<>> /\ parsed = <<>>
      /\ FrameTypes(sentByHost, parsed, receiveBuffer, toKernel)
      /\ receiveBufferLen \in Nat
  BY <1>1 DEF SerialInv, SerialTypes, ClientTypes, Receiving, ReceiverTypes
<1>5. Greets(TRUE, checkIndex, sentByHost, l)
  <2>1. Greets(FALSE, checkIndex, sentByHost, toKernel)
    <3>1. greeted \in BOOLEAN
      BY DEF SerialInv, SerialTypes, ClientTypes
    <3>2. greeted = FALSE
      BY ONLY <1>1, <3>1
    <3> QED BY ONLY <1>4, <3>2
  <2> QED BY ONLY <1>2, <2>1, GreetsGreeted
<1>6. Receiving'
  BY ONLY <1>1, <1>3, <1>4, <1>5 DEF Receiving
<1>7. ReceiverTypes'
  <2>1. l \in Seq(Byte)
    <3>1. toKernel \in Seq(Byte)
      BY ONLY <1>4 DEF FrameTypes
    <3> QED BY ONLY <1>2, <3>1, SignatureIs, JoinedType
  <2> QED BY ONLY <1>1, <1>3, <1>4, <2>1 DEF ReceiverTypes, FrameTypes
<1> QED BY <1>1, <1>6, <1>7, HostKeeps

(* The host sends a packet, whose wire is x, to a kernel it is connected to.*)
LEMMA HostSendsOn ==
    ASSUME SerialInv, StillRouter, StillSender, StillMain,
           UNCHANGED <<connected, checkIndex, answered, pc, left, parsed, receiver, greeted>>,
           greeted, NEW x, NEW q, WireOf(x, q),
           sentByHost' = Append(sentByHost, q), toKernel' = Joined(toKernel, x)
    PROVE  SerialInv'
<1>1. UNCHANGED <<receiveBuffer, receiveBufferLen>>
  BY DEF receiver
<1>2. PICK t, l : t = sentByHost' /\ l = toKernel'
  OBVIOUS
<1>3. Appended(sentByHost, q, t) /\ l = Joined(toKernel, x)
  BY <1>2 DEF Appended
<1>4. /\ FrameTypes(sentByHost, parsed, receiveBuffer, toKernel)
      /\ receiveBufferLen \in Nat /\ connected \in BOOLEAN
  BY DEF SerialInv, SerialTypes, ClientTypes, ReceiverTypes
<1>5. CASE connected
  <2>1. FramesAre(sentByHost, parsed, receiveBuffer, receiveBufferLen, toKernel)
    BY <1>5 DEF SerialInv, Receiving
  <2>2. /\ FrameTypes(t, parsed, receiveBuffer, l)
        /\ FramesAre(t, parsed, receiveBuffer, receiveBufferLen, l)
    BY ONLY <1>3, <1>4, <2>1, WireOf(x, q), FramesSent
  <2>3. Receiving'
    BY <1>1, <1>2, <1>5, <2>2 DEF Receiving
  <2>4. ReceiverTypes'
    BY <1>1, <1>2, <1>4, <2>2 DEF ReceiverTypes
  <2> QED BY <2>3, <2>4, HostKeeps DEF SerialInv, SerialTypes, ClientTypes
<1>6. CASE ~connected
  <2>1. /\ Greets(greeted, checkIndex, sentByHost, toKernel)
        /\ receiveBuffer = <<>> /\ parsed = <<>>
    BY <1>6 DEF SerialInv, Receiving
  <2>2. Greets(greeted, checkIndex, t, l)
    BY ONLY <1>3, <2>1, WireOf(x, q), greeted, GreetsSent
  <2>3. Receiving'
    BY <1>1, <1>2, <1>6, <2>1, <2>2 DEF Receiving
  <2>4. ReceiverTypes'
    <3>1. x \in Seq(Byte) /\ q \in Arrivals
      BY ONLY WireOf(x, q), WireIs
    <3>2. t \in Seq(Arrivals)
      BY ONLY <1>3, <1>4, <3>1, AppendProperties DEF FrameTypes, Appended
    <3>3. l \in Seq(Byte)
      <4>1. toKernel \in Seq(Byte)
        BY ONLY <1>4 DEF FrameTypes
      <4> QED BY ONLY <1>3, <3>1, <4>1, JoinedType
    <3> QED BY <1>1, <1>2, <1>4, <3>2, <3>3 DEF ReceiverTypes, FrameTypes
  <2> QED BY <2>3, <2>4, HostKeeps DEF SerialInv, SerialTypes, ClientTypes
<1> QED BY <1>5, <1>6

LEMMA HostSendsKeeps ==
    ASSUME SerialInv, NEW packet \in HostPackets, HostSends(packet)
    PROVE  SerialInv'
<1>1. /\ StillRouter /\ StillSender /\ StillMain /\ connected
      /\ UNCHANGED <<connected, checkIndex, answered, pc, left, parsed, receiver, greeted>>
      /\ sentByHost' = Append(sentByHost, packet)
  BY DEF HostSends, StillRouter, StillSender, StillMain, client
<1>2. PICK x : x = Encode(packet)
  OBVIOUS
<1>3. WireOf(x, packet)
  BY <1>2 DEF WireOf
<1>4. toKernel' = Joined(toKernel, x)
  BY <1>2 DEF HostSends, Joined
<1>5. greeted
  BY <1>1 DEF SerialInv, SerialTypes, ClientTypes
<1> QED BY <1>1, <1>3, <1>4, <1>5, HostSendsOn

LEMMA HostTypesKeeps ==
    ASSUME SerialInv, NEW byte \in RawBytes, HostTypes(byte)
    PROVE  SerialInv'
<1>1. /\ StillRouter /\ StillSender /\ StillMain
      /\ UNCHANGED <<connected, checkIndex, answered, pc, left, parsed, receiver, greeted>>
      /\ UNCHANGED <<receiveBuffer, receiveBufferLen>>
      /\ toKernel' = Append(toKernel, byte)
      /\ IF greeted THEN sentByHost' = Append(sentByHost, Unframed(<<byte>>))
                    ELSE UNCHANGED sentByHost
  BY DEF HostTypes, StillRouter, StillSender, StillMain, client, receiver
<1>2. /\ FrameTypes(sentByHost, parsed, receiveBuffer, toKernel)
      /\ receiveBufferLen \in Nat /\ connected \in BOOLEAN /\ greeted \in BOOLEAN
      /\ connected => greeted
  BY DEF SerialInv, SerialTypes, ClientTypes, ReceiverTypes
<1>3. PICK l : l = Append(toKernel, byte)
  OBVIOUS
<1>4. byte \in Byte /\ toKernel \in Seq(Byte)
  BY <1>2, SignatureIs DEF FrameTypes
<1>5. Joined(toKernel, <<byte>>) = l /\ l \in Seq(Byte)
  BY ONLY <1>3, <1>4, JoinedOne
<1>6. CASE greeted
  <2>1. PICK x, q : x = <<byte>> /\ q = Unframed(<<byte>>)
    OBVIOUS
  <2>2. WireOf(x, q)
    BY <2>1 DEF WireOf
  <2>3. sentByHost' = Append(sentByHost, q) /\ toKernel' = Joined(toKernel, x)
    BY <1>1, <1>3, <1>5, <1>6, <2>1
  <2> QED BY <1>1, <1>6, <2>2, <2>3, HostSendsOn
<1>7. CASE ~greeted
  <2>1. /\ ~connected /\ Greets(greeted, checkIndex, sentByHost, toKernel)
        /\ receiveBuffer = <<>> /\ parsed = <<>>
    BY <1>2, <1>7 DEF SerialInv, Receiving
  <2>2. Greets(greeted, checkIndex, sentByHost, l)
    BY ONLY <1>3, <1>7, <2>1, byte \in RawBytes, GreetsTyped
  <2>3. toKernel' = l /\ sentByHost' = sentByHost
    BY <1>1, <1>3, <1>7
  <2>4. Receiving'
    BY <1>1, <2>1, <2>2, <2>3 DEF Receiving
  <2>5. ReceiverTypes'
    BY <1>1, <1>2, <1>5, <2>3 DEF ReceiverTypes, FrameTypes
  <2> QED BY <1>1, <1>2, <1>7, <2>4, <2>5, HostKeeps
<1> QED BY <1>6, <1>7

(* The interrupt has not taken a packet off the list.                       *)
LEMMA FindingStays ==
    ASSUME SerialInv, SerialInv', Finding, UNCHANGED mainLoop, ~Overtakes
    PROVE  Finding'
<1>1. UNCHANGED <<mainStep, searchAt>>
  BY DEF mainLoop
<1> SUFFICES ASSUME mainStep = "find"
             PROVE  /\ searchAt <= Len(packetsReceived') + 1
                    /\ \A k \in 1 .. (searchAt - 1) : packetsReceived'[k].to # RawSerial
  BY <1>1 DEF Finding
<1>2. PICK a, b : a = packetsReceived /\ b = packetsReceived'
  OBVIOUS
<1>3. /\ a \in Seq(Packet) /\ b \in Seq(Packet) /\ searchAt \in Nat
      /\ Len(a) \in Nat /\ Len(b) \in Nat
  <2>1. /\ packetsReceived \in Seq(Packet) /\ packetsReceived' \in Seq(Packet)
        /\ searchAt \in Nat
    BY DEF SerialInv, SerialTypes, RouterPart, RouterTypes, MainTypes
  <2> QED BY ONLY <1>2, <2>1, LenProperties
<1>4. Begins(a, b)
  <2>1. IsPrefix(a, b)
    BY <1>2 DEF Overtakes
  <2> QED BY ONLY <1>3, <2>1, PrefixIsBegin
<1>5. searchAt <= Len(a) + 1 /\ \A k \in 1 .. (searchAt - 1) : a[k].to # RawSerial
  BY <1>2 DEF Finding
<1>6. \A k \in 1 .. (searchAt - 1) : k \in 1 .. Len(a)
  BY ONLY <1>3, <1>5
<1> QED BY ONLY <1>2, <1>3, <1>4, <1>5, <1>6 DEF Begins

LEMMA TimerKeeps == SerialInv /\ Finding /\ Timer => SerialKept'
<1> SUFFICES ASSUME SerialInv, Finding, Timer, ~overtaken' PROVE SerialInv' /\ Finding'
  BY DEF SerialKept
<1>1. SerialInv'
  BY CheckForClientKeeps, DoStepKeeps, ReceiveByteKeeps, ReceiveEndKeeps,
     BeginPacketKeeps, SendByteKeeps, SendDoneKeeps, SendEndKeeps DEF Timer
<1>2. UNCHANGED mainLoop
  BY DEF Timer, CheckForClient, DoStep, ReceiveByte, ReceiveEnd, BeginPacket,
     SendByte, SendDone, SendEnd
<1>3. ~Overtakes
  BY DEF Timer
<1> QED BY <1>1, <1>2, <1>3, FindingStays

LEMMA MainLoopKeeps == SerialInv /\ Finding /\ MainLoop => SerialKept'
<1> SUFFICES ASSUME SerialInv, Finding, MainLoop PROVE SerialKept'
  OBVIOUS
<1>1. ASSUME NEW packet \in KernelPackets, WritePacket(packet) \/ WriteString(packet)
      PROVE  SerialKept'
  BY <1>1, WriteKeeps DEF SerialKept
<1>2. ASSUME WriteChar \/ WriteRaw \/ EnqueueBegins \/ WriteQueued PROVE SerialKept'
  BY <1>2, WriteCharKeeps, WriteRawKeeps, EnqueueBeginsKeeps, WriteQueuedKeeps
     DEF SerialKept
<1>3. ASSUME ReadOn \/ ReadBegins \/ GetPacketOn \/ GetPacket \/ Read PROVE SerialKept'
  BY <1>3, ReadKeeps, ReadBeginsKeeps, GetPacketOnKeeps, GetPacketKeeps
     DEF SerialKept
<1>4. ASSUME ReadRaw, overtaken' = greeted PROVE SerialKept'
  BY <1>4, ReadRawKeeps DEF SerialKept
<1> QED BY <1>1, <1>2, <1>3, <1>4 DEF MainLoop

LEMMA HostStepKeeps == SerialInv /\ Finding /\ Host => SerialKept'
<1> SUFFICES ASSUME SerialInv, Finding, Host PROVE SerialInv' /\ Finding'
  BY DEF SerialKept
<1>1. SerialInv'
  BY HostGreetsKeeps, HostSendsKeeps, HostTypesKeeps DEF Host
<1>2. UNCHANGED <<mainStep, searchAt, packetsReceived>>
  BY DEF Host, HostGreets, HostSends, HostTypes, mainLoop, router
<1>3. Finding'
  BY ONLY Finding, <1>2 DEF Finding
<1> QED BY <1>1, <1>3

LEMMA SerialNextKeeps == SerialKept /\ [SerialNext]_serialVars => SerialKept'
<1> SUFFICES ASSUME SerialKept, [SerialNext]_serialVars PROVE SerialKept'
  OBVIOUS
<1>1. ASSUME UNCHANGED serialVars PROVE SerialKept'
  <2>1. overtaken' = overtaken
    BY <1>1 DEF serialVars
  <2> QED BY <1>1, <2>1, SerialStutter DEF SerialKept
<1>2. ASSUME ~overtaken PROVE SerialInv /\ Finding
  BY <1>2 DEF SerialKept
<1>3. ASSUME Timer PROVE SerialKept'
  BY <1>2, <1>3, TimerKeeps DEF Timer
<1>4. ASSUME MainLoop PROVE SerialKept'
  BY <1>2, <1>4, MainLoopKeeps DEF MainLoop
<1>5. ASSUME Host PROVE SerialKept'
  BY <1>2, <1>5, HostStepKeeps DEF Host
<1> QED BY <1>1, <1>3, <1>4, <1>5 DEF SerialNext, Ended

-----------------------------------------------------------------------------
(* What the invariant says of the properties.                               *)

LEMMA SerialInvTypes == SerialInv => SerialTypeOK
<1> SUFFICES ASSUME SerialInv PROVE SerialTypeOK
  OBVIOUS
<1>1. SerialTypes /\ Receiving
  BY DEF SerialInv
<1>2. /\ connected \in BOOLEAN /\ greeted \in BOOLEAN
      /\ checkIndex \in 0 .. (SignatureLen - 1) /\ answered \in Nat
      /\ pc \in {"main", "receive", "send"} /\ left \in 0 .. Burst
  BY <1>1 DEF SerialTypes, ClientTypes
<1>3. /\ working \subseteq ReservedPorts
      /\ packetsToBeSent \in Seq(Packet \ {NoPacket})
      /\ packetsReceived \in Seq(Packet)
  BY <1>1 DEF SerialTypes, RouterPart, RouterTypes
<1>4. /\ currentSendPacket \in Packet /\ sendBuffer \in Seq(Byte)
      /\ sendBufferIndex \in 0 .. Len(currentSendPacket.data)
      /\ begun \in Seq(Packet) /\ toHost \in Seq(Byte)
  BY <1>1 DEF SerialTypes, SenderTypes
<1>5. /\ FrameTypes(sentByHost, parsed, receiveBuffer, toKernel)
      /\ sentByHost \in Seq(Arrivals) /\ parsed \in Seq(Arrivals)
      /\ receiveBuffer \in Seq(Byte) /\ toKernel \in Seq(Byte)
      /\ receiveBufferLen \in Nat
  BY <1>1 DEF SerialTypes, ReceiverTypes, FrameTypes
<1>6. /\ mainPacket \in Packet /\ written \in 0 .. MaxWritten
      /\ read \in Seq(Byte) /\ reading \in Seq(Byte) /\ takenByTcp \in Seq(Packet)
      /\ mainStep \in MainSteps /\ typing \in Seq(Byte) /\ searchAt \in Nat \ {0}
      /\ intruded \in BOOLEAN
  BY <1>1 DEF SerialTypes, MainTypes
<1>7. \A p \in ToSet(packetsToBeSent \o packetsReceived \o sentByHost
                        \o parsed \o begun \o takenByTcp) : p \in Packet
  <2>1. sentByHost \in Seq(Packet) /\ parsed \in Seq(Packet)
    BY ONLY <1>5, SomeArrivals
  <2>2. packetsToBeSent \in Seq(Packet)
    BY ONLY <1>3
  <2>3. packetsToBeSent \o packetsReceived \in Seq(Packet)
    BY ONLY <1>3, <2>2, JoinedMembers
  <2>4. packetsToBeSent \o packetsReceived \o sentByHost \in Seq(Packet)
    BY ONLY <2>1, <2>3, JoinedMembers
  <2>5. packetsToBeSent \o packetsReceived \o sentByHost \o parsed \in Seq(Packet)
    BY ONLY <2>1, <2>4, JoinedMembers
  <2>6. packetsToBeSent \o packetsReceived \o sentByHost \o parsed \o begun
           \in Seq(Packet)
    BY ONLY <1>4, <2>5, JoinedMembers
  <2>7. PICK all : all = packetsToBeSent \o packetsReceived \o sentByHost
                            \o parsed \o begun \o takenByTcp
    OBVIOUS
  <2>8. all \in Seq(Packet)
    BY ONLY <1>6, <2>6, <2>7, JoinedMembers
  <2>9. \A p \in ToSet(all) : p \in Packet
    <3> SUFFICES ASSUME NEW p \in ToSet(all) PROVE p \in Packet
      OBVIOUS
    <3>1. PICK k \in DOMAIN all : p = all[k]
      BY ONLY p \in ToSet(all) DEF ToSet
    <3> QED BY ONLY <2>8, <3>1, ElementOfSeq
  <2> QED BY ONLY <2>7, <2>9
<1>8. Len(receiveBuffer) < HeaderLen + MaxLen
  <2>1. CASE connected
    <3>1. FramesAre(sentByHost, parsed, receiveBuffer, receiveBufferLen, toKernel)
      BY <1>1, <2>1 DEF Receiving
    <3> QED BY ONLY <1>5, <3>1, FramesPrefix
  <2>2. CASE ~connected
    <3>1. receiveBuffer = <<>>
      BY <1>1, <2>2 DEF Receiving
    <3>2. Len(receiveBuffer) = 0
      BY <3>1
    <3> QED BY <3>2, SignatureIs, SerialAssumption
  <2> QED BY <1>2, <2>1, <2>2
<1> QED BY ONLY <1>2, <1>3, <1>4, <1>5, <1>6, <1>7, <1>8
        DEF SerialTypeOK, MainSteps

LEMMA SerialInvArrive == SerialInv => FramesArrive
<1> SUFFICES ASSUME SerialInv PROVE FramesArrive
  OBVIOUS
<1>1. SerialTypeOK
  BY SerialInvTypes
<1>2. /\ FrameTypes(sentByHost, parsed, receiveBuffer, toKernel)
      /\ sentByHost \in Seq(Arrivals)
  BY DEF SerialInv, SerialTypes, ReceiverTypes, FrameTypes
<1>3. CASE connected
  <2>1. FramesAre(sentByHost, parsed, receiveBuffer, receiveBufferLen, toKernel)
    BY <1>3 DEF SerialInv, Receiving
  <2>2. /\ IsPrefix(parsed, sentByHost)
        /\ receiveBuffer = <<>> /\ toKernel = <<>> => parsed = sentByHost
    BY ONLY <1>2, <2>1, FramesPrefix
  <2> QED BY ONLY <1>1, <2>2 DEF FramesArrive
<1>4. CASE ~connected
  <2>1. parsed = <<>>
    BY <1>4 DEF SerialInv, Receiving
  <2>2. <<>> \in Seq(Arrivals) /\ Len(<<>>) = 0 /\ Len(sentByHost) \in Nat
    BY <1>2
  <2>3. Begins(<<>>, sentByHost)
    BY ONLY <2>2 DEF Begins
  <2>4. IsPrefix(parsed, sentByHost)
    BY ONLY <1>2, <2>1, <2>2, <2>3, PrefixIsBegin
  <2> QED BY ONLY <1>1, <1>4, <2>4 DEF FramesArrive
<1> QED BY <1>3, <1>4

LEMMA SerialInvPorts == SerialInv => PortsInOrder
  BY DEF SerialInv, PortsKept, PortsAre, Joined, Kept, PortsInOrder

LEMMA SerialInvWhole == SerialInv => FramesLeaveWhole
<1> SUFFICES ASSUME SerialInv, connected, ~intruded PROVE FramesLeaveWhole
  BY DEF FramesLeaveWhole
<1>4. PICK un : un = Unsent(currentSendPacket, sendBuffer, sendBufferIndex)
  OBVIOUS
<1>5. Leaves(toHost, answered, begun, un) /\ begun \in Seq(Packet)
  BY <1>4 DEF SerialInv, SerialTypes, SenderTypes, Leaving
<1>6. un \in Seq(Byte)
  <2>1. /\ currentSendPacket \in Packet /\ sendBuffer \in Seq(Byte)
        /\ sendBufferIndex \in 0 .. Len(currentSendPacket.data)
    BY DEF SerialInv, SerialTypes, SenderTypes
  <2>2. currentSendPacket.data \in Seq(Byte)
    BY ONLY <2>1, PacketIs
  <2>3. Len(currentSendPacket.data) \in Nat
    BY ONLY <2>2, LenProperties
  <2>4. sendBufferIndex \in Nat /\ sendBufferIndex <= Len(currentSendPacket.data)
    BY ONLY <2>1, <2>3
  <2>5. DataFrom(currentSendPacket, sendBufferIndex) \in Seq(Byte)
    BY ONLY <2>1, <2>4, DataFromIs
  <2>6. Joined(sendBuffer, DataFrom(currentSendPacket, sendBufferIndex)) \in Seq(Byte)
    BY ONLY <2>1, <2>5, JoinedType
  <2> QED BY <1>4, <2>6 DEF Unsent
<1>7. /\ IsPrefix(SeenOf(toHost, answered), ToSee(begun))
      /\ un = <<>> => SeenOf(toHost, answered) = ToSee(begun)
  BY ONLY <1>5, <1>6, LeavesSeen
<1>8. currentSendPacket = NoPacket => un = <<>>
  BY <1>4 DEF Unsent
<1> QED BY <1>7, <1>8 DEF SeenOf, ToSee, FramesOf, FramesLeaveWhole

LEMMA SerialAlways == SerialSpec => []SerialKept
<1>1. SerialInit => SerialKept
  BY SerialInitInv DEF SerialKept
<1> QED BY <1>1, SerialNextKeeps, PTL DEF SerialSpec

LEMMA SerialKeptIs ==
    /\ SerialKept => FramesArrive
    /\ SerialKept => PortsInOrder
    /\ SerialKept => FramesLeaveWhole
<1>1. overtaken => FramesArrive /\ PortsInOrder /\ FramesLeaveWhole
  BY DEF FramesArrive, PortsInOrder, FramesLeaveWhole
<1> QED BY <1>1, SerialInvArrive, SerialInvPorts, SerialInvWhole DEF SerialKept

(* What the kernel makes of the bytes on the line is what the host sent, in *)
(* its order and whole (Manager::DoReceiveStuff), until the main loop reads *)
(* one of them without a client; the state has its types until then.        *)
THEOREM HostFramesArrive == SerialSpec => []FramesArrive
  BY SerialAlways, SerialKeptIs, PTL

(* TCP, in the interrupt, and the serial port, in the main loop, take their *)
(* packets off one list, each in the order in which they came and each once,*)
(* until the one changes the list under the other (Manager::GetPacket).     *)
THEOREM PortsKeepOrder == SerialSpec => []PortsInOrder
  BY SerialAlways, SerialKeptIs, PTL

(* The host sees whole frames, one after the other (Manager::DoSendStuff),  *)
(* unless Serial::Write was writing bytes without a client when it came.    *)
THEOREM KernelFramesLeaveWhole == SerialSpec => []FramesLeaveWhole
  BY SerialAlways, SerialKeptIs, PTL

(* A packet is begun only while its port works, whenever it was put into    *)
(* the queue: CanPacketBeSent is asked again before the first byte.         *)
THEOREM ClosedPortsStayQuiet == SerialSpec => ClosedStaysQuiet
<1>1. ASSUME SerialKept, [SerialNext]_serialVars, begun' # begun
      PROVE  CanPacketBeSent(working, Last(begun'))
  <2>1. Timer
    <3>1. ASSUME MainLoop PROVE begun' = begun
      BY <3>1 DEF MainLoop, WritePacket, WriteString, WriteChar, WriteRaw,
         EnqueueBegins, WriteQueued, ReadOn, ReadBegins, GetPacketOn, GetPacket,
         Read, ReadRaw
    <3>2. ASSUME Host PROVE begun' = begun
      BY <3>2 DEF Host, HostGreets, HostSends, HostTypes
    <3> QED BY <1>1, <3>1, <3>2 DEF SerialNext, Ended, serialVars
  <2>7. BeginPacket /\ SerialInv
    BY <1>1, <2>1 DEF SerialKept, Timer, CheckForClient, DoStep, ReceiveByte,
       ReceiveEnd, SendByte, SendDone, SendEnd
  <2>2. PICK q : q = Head(packetsToBeSent)
    OBVIOUS
  <2>3. MayBegin(q) /\ begun' = Append(begun, q)
    BY <1>1, <2>2, <2>7 DEF BeginPacket, Begin
  <2>4. begun \in Seq(Packet)
    BY <2>7 DEF SerialInv, SerialTypes, SenderTypes
  <2>5. q \in Packet
    BY <2>2, <2>7, HeadTailProperties
       DEF BeginPacket, SerialInv, SerialTypes, RouterPart, RouterTypes
  <2>6. Last(begun') = q
    BY ONLY <2>3, <2>4, <2>5 DEF Last
  <2> QED BY ONLY <2>3, <2>6 DEF MayBegin
<1>2. SerialKept /\ [SerialNext]_serialVars =>
         [begun' # begun => CanPacketBeSent(working, Last(begun'))]_serialVars
  BY <1>1
<1> QED BY <1>2, SerialAlways, PTL DEF SerialSpec, ClosedStaysQuiet
=============================================================================
