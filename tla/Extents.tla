------------------------------ MODULE Extents ------------------------------
(***************************************************************************)
(* Lists of extents, shared by the partition table (MRAPS) and the file     *)
(* system (MRAFS): both cut an area into consecutive pieces, each a record  *)
(* with a location and a size, and keep them in the order of location.      *)
(***************************************************************************)
EXTENDS Integers, Sequences

(* The extents cover 0 .. size - 1 in order, with no gap and no overlap.    *)
Tiles(list, size) ==
    /\ list # <<>>
    /\ list[1].loc = 0
    /\ \A i \in 1 .. (Len(list) - 1) :
          list[i + 1].loc = list[i].loc + list[i].size
    /\ list[Len(list)].loc + list[Len(list)].size = size
=============================================================================
