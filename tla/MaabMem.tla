------------------------------- MODULE MaabMem -------------------------------
(***************************************************************************)
(* The memory of a MAAB program (tasks/maab/maabMem/maabMemHandler.cpp): a  *)
(* list of segments inside a buffer of fixed size.  The program asks for    *)
(* memory, writes into what it was given, and frees any address, as often   *)
(* as it likes: a wrong one is refused with FALSE, not with a panic.        *)
(*                                                                         *)
(* Lengths are in units of 8 bytes, in which a header has 5 and a block is  *)
(* a multiple of 2 (0x10 bytes).  A header that was merged away stays in    *)
(* the buffer, magic number and all, until it is written over.  The program *)
(* writes any bytes it likes, the flag of such a header alone, its magic    *)
(* number alone, or both, so that it looks like one in use.                 *)
(*                                                                         *)
(* A behaviour is followed until the program writes over the header of a    *)
(* segment, or FreeMem takes such a look-alike for one (spoilt): from then  *)
(* on the links that are followed are whatever the bytes there say.         *)
(***************************************************************************)
EXTENDS Integers, Sequences, FiniteSets, SequencesExt

CONSTANTS
    HeaderLen,      \* sizeof(MbSegHdr)
    Grain,          \* 0x10: least block, and what sizes are rounded up to
    BufSize,        \* bufSize
    Sizes,          \* sizes asked for, rounded up
    MaxForged       \* bound on the look-alikes in the buffer at a time

ASSUME MaabAssumption ==
    /\ HeaderLen \in Nat \ {0} /\ Grain \in Nat \ {0}
    /\ BufSize \in Nat /\ BufSize >= HeaderLen + Grain
    /\ Sizes \subseteq Nat \ {0}
    /\ MaxForged \in Nat

VARIABLES
    seg,            \* what a header read at each address of the buffer says
    lastHdr,
    held,           \* addresses the program was given and has not freed
    forged,         \* where the program wrote what looks like a header in use
    spoilt          \* a header of the list was written over, or a look-alike
                    \* freed

maabVars == <<seg, lastHdr, held, forged, spoilt>>

Null == -1
Addresses == 0 .. (BufSize - 1)
Header(length, next, last, free) ==
    [length |-> length, next |-> next, last |-> last, free |-> free,
     magic |-> TRUE]
NoHeader == [Header(0, Null, Null, FALSE) EXCEPT !.magic = FALSE]

(* What still matters of a header that was merged away.                     *)
Old(free) == Header(0, Null, Null, free)

(* The headers whose flag and magic number, both in the last unit, lie      *)
(* under a header that is written at new: they are destroyed.               *)
Under(new) == {a \in Addresses : a + HeaderLen - 1 \in new .. (new + HeaderLen - 1)}

Overwritten(s, new) == [a \in Addresses |-> IF a \in Under(new) THEN NoHeader ELSE s[a]]

(* The MbMemHandler of a new program.                                       *)
MaabInit ==
    /\ seg = [a \in Addresses |->
                IF a = 0 THEN Header(BufSize - HeaderLen, Null, Null, TRUE)
                ELSE NoHeader]
    /\ lastHdr = 0
    /\ held = {} /\ forged = {} /\ spoilt = FALSE

-----------------------------------------------------------------------------
(* Mutant: lastHdr still points to the header that is gone.                 *)
CombineForwardKeepingLast(s, l, a) ==
    LET n == s[a].next
        m == s[n].next
    IN  IF n = Null \/ ~s[n].free THEN [seg |-> s, last |-> l]
        ELSE [seg  |-> [b \in Addresses |->
                 IF b = a THEN [s[a] EXCEPT !.length = @ + s[n].length + HeaderLen,
                                            !.next = m]
                 ELSE IF b = n THEN Old(s[n].free)
                 ELSE IF b = m THEN [s[m] EXCEPT !.last = a]
                 ELSE s[b]],
              last |-> l]

(* MbSegHdr::CombineForward on the headers s and the last header l.         *)
CombineForward(s, l, a) ==
    LET n == s[a].next
        m == s[n].next
    IN  IF n = Null \/ ~s[n].free THEN [seg |-> s, last |-> l]
        ELSE [seg  |-> [b \in Addresses |->
                 IF b = a THEN [s[a] EXCEPT !.length = @ + s[n].length + HeaderLen,
                                            !.next = m]
                 ELSE IF b = n THEN Old(s[n].free)
                 ELSE IF b = m THEN [s[m] EXCEPT !.last = a]
                 ELSE s[b]],
              last |-> IF n = l THEN a ELSE l]

(* MbSegHdr::CombineBackward.                                               *)
CombineBackward(s, l, a) ==
    LET p == s[a].last
    IN  IF p # Null /\ s[p].free THEN CombineForward(s, l, p)
        ELSE [seg |-> s, last |-> l]

(* MbSegHdr::Split; the header written for the rest may hit an old one.     *)
Split(s, l, a, size) ==
    LET new  == a + size + HeaderLen
        rest == Header(s[a].length - size - HeaderLen, s[a].next, a, s[a].free)
        t    == Overwritten(s, new)
    IN  [seg  |-> [b \in Addresses |->
             IF b = a THEN [t[a] EXCEPT !.length = size, !.next = new]
             ELSE IF b = new THEN rest
             ELSE IF b = s[a].next THEN [t[b] EXCEPT !.last = new]
             ELSE t[b]],
         last |-> IF l = a THEN new ELSE l]

(* Mutant: the header that is needed for the rest is forgotten.             *)
CanSplitTight(s, a, size) == s[a].length - size >= Grain

(* A segment can be split when a header and a least block remain.           *)
CanSplit(s, a, size) == s[a].length - size - HeaderLen >= Grain

(* The headers that a walk from the start of the buffer meets.              *)
Chain ==
    LET step[n \in 0 .. BufSize] ==
            IF n = 0 THEN <<0>>
            ELSE LET walked == step[n - 1]
                     next   == seg[Last(walked)].next
                 IN  IF next = Null THEN walked ELSE Append(walked, next)
    IN  step[BufSize]

(* Where a request is met: the first free segment of that size, or the first *)
(* that can be split, whichever comes first; 0 when there is none.          *)
Fit(size) ==
    SelectInSeq(Chain, LAMBDA a : /\ seg[a].free
                                  /\ seg[a].length = size \/ CanSplit(seg, a, size))

(* Mutant: the segment is marked before it is split.                        *)
MallocMemMarkedFirst(size) ==
    LET a     == Chain[Fit(size)]
        whole == seg[a].length = size
        s     == [seg EXCEPT ![a].free = FALSE]
        got   == IF whole THEN [seg |-> s, last |-> lastHdr]
                 ELSE Split(s, lastHdr, a, size)
    IN  /\ ~spoilt /\ Fit(size) # 0
        /\ seg' = got.seg
        /\ lastHdr' = got.last
        /\ held' = held \cup {a + HeaderLen}
        /\ forged' = IF whole THEN forged ELSE forged \ Under(a + size + HeaderLen)
        /\ UNCHANGED spoilt

(* MallocMem; without a segment that fits it answers NULL, and nothing      *)
(* changes.                                                                 *)
MallocMem(size) ==
    LET a     == Chain[Fit(size)]
        whole == seg[a].length = size
        got   == IF whole THEN [seg |-> seg, last |-> lastHdr]
                 ELSE Split(seg, lastHdr, a, size)
    IN  /\ ~spoilt /\ Fit(size) # 0
        /\ seg' = [got.seg EXCEPT ![a].free = FALSE]
        /\ lastHdr' = got.last
        /\ held' = held \cup {a + HeaderLen}
        /\ forged' = IF whole THEN forged ELSE forged \ Under(a + size + HeaderLen)
        /\ UNCHANGED spoilt

(* The units of the headers of the list, into which the program writes only *)
(* in WriteHeader.                                                          *)
HeaderUnits == UNION {h .. (h + HeaderLen - 1) : h \in ToSet(Chain)}

(* The program writes into another unit, in its blocks or out of them, some *)
(* bytes of it or all.  The header that has its last unit there then says it *)
(* is in use (the magic number was there and the flag alone is cleared, or  *)
(* both are written), or it says what FreeMem refuses: free, or no magic    *)
(* number.  A write of more than a unit is several of these.                *)
WriteBytes(unit, looksInUse) ==
    LET a == unit - HeaderLen + 1
    IN  /\ ~spoilt
        /\ seg' = [seg EXCEPT ![a] = IF looksInUse THEN Old(FALSE) ELSE NoHeader]
        /\ forged' = IF looksInUse THEN forged \cup {a} ELSE forged \ {a}
        /\ Cardinality(forged') <= MaxForged
        /\ UNCHANGED <<lastHdr, held, spoilt>>

(* It writes over the header of a segment, which nothing keeps it from.     *)
WriteHeader ==
    /\ ~spoilt /\ spoilt' = TRUE
    /\ UNCHANGED <<seg, lastHdr, held, forged>>

(* Mutant: the segment is marked after its neighbours were looked at.       *)
FreedLate(a) ==
    LET f == CombineForward(seg, lastHdr, a)
        g == CombineBackward(f.seg, f.last, a)
    IN  [seg |-> [g.seg EXCEPT ![a].free = TRUE], last |-> g.last]

(* The segment is free before its neighbours are looked at.                 *)
Freed(a) ==
    LET f == CombineForward([seg EXCEPT ![a].free = TRUE], lastHdr, a)
    IN  CombineBackward(f.seg, f.last, a)

(* What FreeMem goes by: a header in front of the address says it is in     *)
(* use.  It returns FALSE otherwise and changes nothing.                    *)
Accepted(address) ==
    LET a == address - HeaderLen
    IN  a \in Addresses /\ seg[a].magic /\ ~seg[a].free

FreeMem(address) ==
    LET done == Freed(address - HeaderLen)
    IN  /\ ~spoilt /\ Accepted(address) /\ address \in held
        /\ seg' = done.seg /\ lastHdr' = done.last
        /\ held' = held \ {address}
        /\ UNCHANGED <<forged, spoilt>>

(* FreeMem accepts an address that was not given: the links of what lies in *)
(* front of it are not the list's.                                          *)
FreeLookAlike(address) ==
    /\ ~spoilt /\ Accepted(address) /\ address \notin held
    /\ spoilt' = TRUE
    /\ UNCHANGED <<seg, lastHdr, held, forged>>

(* Nothing is followed further.                                             *)
Spoilt == spoilt /\ UNCHANGED maabVars

MaabNext ==
    \/ \E size \in Sizes : MallocMem(size)
    \/ \E unit \in Addresses \ HeaderUnits, looksInUse \in BOOLEAN :
          WriteBytes(unit, looksInUse)
    \/ WriteHeader
    \/ \E address \in Addresses : FreeMem(address)
    \/ \E address \in Addresses : FreeLookAlike(address)
    \/ Spoilt

MaabSpec == MaabInit /\ [][MaabNext]_maabVars

-----------------------------------------------------------------------------
(* The types of the variables.                                              *)
MaabTypeOK ==
    /\ seg \in [Addresses -> [length : 0 .. BufSize, next : -1 .. BufSize,
                              last : -1 .. BufSize, free : BOOLEAN,
                              magic : BOOLEAN]]
    /\ lastHdr \in Addresses
    /\ held \subseteq Addresses /\ forged \subseteq Addresses
    /\ spoilt \in BOOLEAN

(* The segments lie one behind the other and fill the buffer, linked in     *)
(* both directions, lastHdr is the last, and no two neighbours are both      *)
(* free: nothing is lost, no two blocks overlap, and memory that was freed  *)
(* can be asked for in one piece again.  It holds until the program has     *)
(* spoilt the list: not for what it wrote, but for what FreeMem was given.  *)
SegmentsTile ==
    LET list == Chain IN
    spoilt \/
    /\ MaabTypeOK
    /\ \A i \in DOMAIN list :
          /\ seg[list[i]].magic
          /\ seg[list[i]].last = IF i = 1 THEN Null ELSE list[i - 1]
          /\ list[i] + HeaderLen + seg[list[i]].length =
                IF i = Len(list) THEN BufSize ELSE list[i + 1]
    /\ lastHdr = Last(list)
    /\ \A i \in 1 .. (Len(list) - 1) :
          ~(seg[list[i]].free /\ seg[list[i + 1]].free)

(* The segments in use are those of the blocks the program holds, and       *)
(* FreeMem accepts these and, of the other addresses, only those in front   *)
(* of which the program itself has written the flag or the magic number of  *)
(* a header in use: no header that was merged away is ever accepted as it   *)
(* was left, wherever later segments are cut.                               *)
OnlyHeldIsAccepted ==
    spoilt \/
    /\ {a \in ToSet(Chain) : ~seg[a].free} = {b - HeaderLen : b \in held}
    /\ \A address \in Addresses :
          Accepted(address) <=> address \in held \/ address - HeaderLen \in forged
=============================================================================
