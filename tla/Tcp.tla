--------------------------------- MODULE Tcp ---------------------------------
(***************************************************************************)
(* TCP by way of the host (network/tcp/tcp.cpp).  The timer interrupt takes *)
(* the packets that the serial manager received and keeps them in two lists *)
(* side by side: the packets, and how many bytes of each are unread.  The   *)
(* main loop reads bytes, a packet at a time, and sends.                    *)
(***************************************************************************)
EXTENDS Naturals, Sequences, SequencesExt

CONSTANTS
    Ports,
    Payloads,       \* data of the host's packets
    Lens,           \* bytes that ReadData is asked for
    Leftovers,      \* what two bytes of memory from malloc may hold
    MaxPackets,     \* bound: packets of the host
    MaxCalls        \* bound: calls of SendData

TwoBytes == 65536   \* values that two bytes have

ASSUME TcpAssumption ==
    /\ \A data \in Payloads : data \in Seq(0 .. 255)
    /\ Lens \subseteq Nat \ {0}
    /\ Leftovers \subseteq 0 .. (TwoBytes - 1)
    /\ MaxPackets \in Nat /\ MaxCalls \in Nat

VARIABLES
    connectedPorts,
    receivedPackets, receivedPacketsRemainingCount,
    sent,               \* packets given to the serial manager
    readStep, nextStep, \* where ReadData is, and where after a removal
    port, wanted, place, \* its port, the bytes it still wants, its place (i)
    \* history variables:
    arrived, got,       \* bytes received for, and read from, each port
    packets,            \* how many packets the host has sent
    between             \* of them, those added within a List::RemoveAt

lists == <<receivedPackets, receivedPacketsRemainingCount>>
reader == <<readStep, nextStep, port, wanted, place>>
tcpVars == <<connectedPorts, lists, sent, reader, arrived, got, packets, between>>

NoPort == 0
ASSUME NoPort \notin Ports

TcpInit ==
    /\ connectedPorts = <<>>
    /\ receivedPackets = <<>> /\ receivedPacketsRemainingCount = <<>>
    /\ sent = <<>>
    /\ readStep = "idle" /\ nextStep = "idle"
    /\ port = NoPort /\ wanted = 0 /\ place = 1
    /\ arrived = [p \in Ports |-> <<>>] /\ got = [p \in Ports |-> <<>>]
    /\ packets = 0 /\ between = 0

-----------------------------------------------------------------------------
(* The interrupt: DoStep, for one packet.                                   *)

IsPortConnected(p) == Contains(connectedPorts, p)

(* Mutant: a port that is connected is added again.                         *)
ConnectedAgain(p) == Append(connectedPorts, p)

Connected(p) ==
    IF IsPortConnected(p) THEN connectedPorts ELSE Append(connectedPorts, p)

Disconnected(p) ==
    IF IsPortConnected(p)
    THEN RemoveAt(connectedPorts, SelectInSeq(connectedPorts, LAMBDA q : q = p))
    ELSE connectedPorts

HandleCommandPacket(p, connect) ==
    /\ packets < MaxPackets /\ packets' = packets + 1
    /\ connectedPorts' = IF connect THEN Connected(p) ELSE Disconnected(p)
    /\ UNCHANGED <<lists, sent, reader, arrived, got, between>>

(* Where the main loop has moved the elements of a list down and has not    *)
(* yet counted it down.                                                     *)
Dropping == readStep \in {"dropPacket", "dropCount"}

(* A packet whose LEN says len bytes; one that carries nothing is dropped.  *)
AddPacket(p, data, len) ==
    /\ packets < MaxPackets /\ packets' = packets + 1
    /\ data # <<>>
    /\ receivedPackets' = Append(receivedPackets,
                                 [port |-> p, data |-> data, len |-> len])
    /\ receivedPacketsRemainingCount' =
          Append(receivedPacketsRemainingCount, len)
    /\ arrived' = [arrived EXCEPT ![p] = @ \o SubSeq(data, 1, len)]
    /\ between' = IF Dropping THEN between + 1 ELSE between
    /\ UNCHANGED <<connectedPorts, sent, reader, got>>

-----------------------------------------------------------------------------
(* The main loop.  Once a packet was added within a RemoveAt it has not got *)
(* its place in the list, and the two lists no longer match: what reading   *)
(* does with them (it may free a packet twice, and read in front of one's   *)
(* data) is not followed.                                                   *)

ReadData(p, len) ==
    /\ readStep = "idle" /\ between = 0
    /\ readStep' = "scan" /\ port' = p /\ wanted' = len /\ place' = 1
    /\ UNCHANGED <<connectedPorts, lists, sent, nextStep, arrived, got,
                   packets, between>>

(* The loop over the packets is at its end.                                 *)
ReadAll ==
    /\ readStep = "scan" /\ between = 0 /\ place > Len(receivedPackets)
    /\ readStep' = "idle" /\ port' = NoPort /\ wanted' = 0 /\ place' = 1
    /\ UNCHANGED <<connectedPorts, lists, sent, nextStep, arrived, got,
                   packets, between>>

SkipPacket ==
    /\ readStep = "scan" /\ between = 0 /\ place <= Len(receivedPackets)
    /\ receivedPackets[place].port # port
    /\ place' = place + 1
    /\ UNCHANGED <<connectedPorts, lists, sent, readStep, nextStep, port,
                   wanted, arrived, got, packets, between>>

(* Mutant: reading a packet that was begun starts over.                     *)
UnreadFromStart(packet, canRead) == SubSeq(packet.data, 1, canRead)

(* The bytes of a packet that have not been read.                           *)
Unread(packet, canRead) ==
    SubSeq(packet.data, packet.len - canRead + 1, packet.len)

(* Bytes are copied until the packet or the buffer is at its end.  A packet *)
(* that was read to its end is removed, and the reading ends or goes on.    *)
ReadPacket ==
    LET packet  == receivedPackets[place]
        canRead == receivedPacketsRemainingCount[place]
        n       == IF wanted < canRead THEN wanted ELSE canRead
        full    == n = wanted
    IN  /\ readStep = "scan" /\ between = 0 /\ place <= Len(receivedPackets)
        /\ packet.port = port
        /\ got' = [got EXCEPT ![port] =
                       @ \o SubSeq(Unread(packet, canRead), 1, n)]
        /\ receivedPacketsRemainingCount' =
              IF full THEN [receivedPacketsRemainingCount EXCEPT
                               ![place] = canRead - n]
              ELSE receivedPacketsRemainingCount
        /\ wanted' = wanted - n
        /\ nextStep' = IF full THEN "idle" ELSE "scan"
        /\ readStep' = IF full /\ n < canRead THEN "idle" ELSE "remove"
        /\ port' = IF full /\ n < canRead THEN NoPort ELSE port
        /\ place' = IF full /\ n < canRead THEN 1 ELSE place
        /\ UNCHANGED <<connectedPorts, receivedPackets, sent, arrived, packets,
                       between>>

(* List::RemoveAt moves the elements behind the one removed down; the last  *)
(* is then there twice.                                                     *)
MovedDown(list, k) == Append(RemoveAt(list, k), Last(list))

(* It counts one less, of a count that it has read before or after any of   *)
(* the packets that came in since: with none of them, the last one goes.    *)
CountedDown(list) ==
    {SubSeq(list, 1, n) : n \in (Len(list) - between - 1) .. (Len(list) - 1)}

(* RemovePacketAt takes the packet off the one list, then its count off the *)
(* other.                                                                   *)
RemovePacket ==
    /\ readStep = "remove"
    /\ receivedPackets' = MovedDown(receivedPackets, place)
    /\ readStep' = "dropPacket"
    /\ UNCHANGED <<connectedPorts, receivedPacketsRemainingCount, sent,
                   nextStep, port, wanted, place, arrived, got, packets, between>>

DropPacket ==
    /\ readStep = "dropPacket"
    /\ receivedPackets' \in CountedDown(receivedPackets)
    /\ readStep' = "removeCount"
    /\ UNCHANGED <<connectedPorts, receivedPacketsRemainingCount, sent,
                   nextStep, port, wanted, place, arrived, got, packets, between>>

RemoveCount ==
    /\ readStep = "removeCount" /\ between = 0
    /\ receivedPacketsRemainingCount' =
          MovedDown(receivedPacketsRemainingCount, place)
    /\ readStep' = "dropCount"
    /\ UNCHANGED <<connectedPorts, receivedPackets, sent, nextStep, port,
                   wanted, place, arrived, got, packets, between>>

(* Mutant: the loop goes on behind the packet that took the place of the     *)
(* one removed.                                                             *)
DropCountSkips ==
    /\ readStep = "dropCount"
    /\ receivedPacketsRemainingCount' \in
          CountedDown(receivedPacketsRemainingCount)
    /\ readStep' = nextStep
    /\ port' = IF nextStep = "idle" THEN NoPort ELSE port
    /\ place' = IF nextStep = "idle" THEN 1 ELSE place + 1
    /\ UNCHANGED <<connectedPorts, receivedPackets, sent, nextStep, wanted,
                   arrived, got, packets, between>>

DropCount ==
    /\ readStep = "dropCount"
    /\ receivedPacketsRemainingCount' \in
          CountedDown(receivedPacketsRemainingCount)
    /\ readStep' = nextStep
    /\ port' = IF nextStep = "idle" THEN NoPort ELSE port
    /\ place' = IF nextStep = "idle" THEN 1 ELSE place
    /\ UNCHANGED <<connectedPorts, receivedPackets, sent, nextStep, wanted,
                   arrived, got, packets, between>>

(* SendData writes two bytes of the four of LEN; the others stay as malloc  *)
(* gave them.                                                               *)
SendData(p, data) ==
    /\ readStep = "idle" /\ Len(sent) < MaxCalls
    /\ \E leftover \in Leftovers :
          sent' = Append(sent,
             [port |-> p, data |-> data,
              len |-> (Len(data) % TwoBytes) + TwoBytes * leftover])
    /\ UNCHANGED <<connectedPorts, lists, reader, arrived, got, packets, between>>

Interrupt ==
    \E p \in Ports :
       \/ \E connect \in BOOLEAN : HandleCommandPacket(p, connect)
       \/ \E data \in Payloads : \E len \in 0 .. Len(data) :
             AddPacket(p, data, len)

Reading ==
    \/ ReadAll \/ SkipPacket \/ ReadPacket
    \/ RemovePacket \/ DropPacket \/ RemoveCount \/ DropCount

TcpNext ==
    \/ Interrupt
    \/ Reading
    \/ \E p \in Ports :
          \/ \E len \in Lens : ReadData(p, len)
          \/ \E data \in Payloads : SendData(p, data)

TcpSpec == TcpInit /\ [][TcpNext]_tcpVars

-----------------------------------------------------------------------------
(* The types of the variables; no port is connected twice, so that a        *)
(* disconnection is final, and the lists differ only in a removal.          *)
TcpTypeOK ==
    /\ \A p \in ToSet(connectedPorts) : p \in Ports
    /\ IsInjective(connectedPorts)
    /\ \A packet \in ToSet(receivedPackets) :
          packet.port \in Ports /\ packet.len \in 0 .. Len(packet.data)
    /\ \A n \in ToSet(receivedPacketsRemainingCount) : n \in Nat
    /\ Len(receivedPacketsRemainingCount) = Len(receivedPackets) +
          IF readStep \in {"removeCount", "dropCount"} THEN 1 ELSE 0
    /\ readStep \in {"idle", "scan", "remove", "dropPacket", "removeCount",
                     "dropCount"}
    /\ nextStep \in {"idle", "scan"}
    /\ port \in Ports \cup {NoPort} /\ wanted \in Nat /\ place \in Nat \ {0}

(* What is read from a port are the bytes that came for it, in their order, *)
(* none twice and none left out, and the lists hold the rest, as long as no *)
(* packet came in between the two halves of a RemoveAt: packets may come in *)
(* at any other step of the reads and removals of others.                   *)
StreamInOrder ==
    LET rest(p, k) == IF receivedPackets[k].port # p THEN <<>>
                      ELSE Unread(receivedPackets[k],
                                  receivedPacketsRemainingCount[k])
        waiting(p) == FlattenSeq([k \in DOMAIN receivedPackets |-> rest(p, k)])
    IN  between = 0 =>
          /\ TcpTypeOK
          /\ readStep \in {"idle", "scan"} =>
                 \A p \in Ports : arrived[p] = got[p] \o waiting(p)

(* A read that returns fewer bytes than were asked for has left none of its *)
(* port: the loop has passed no packet for it when it comes to the end,     *)
(* although packets came in and places changed meanwhile; of a list without *)
(* that interrupt.                                                          *)
ShortReadLeavesNone ==
    between = 0 /\ readStep = "scan" /\ place > Len(receivedPackets) =>
       \A k \in DOMAIN receivedPackets : receivedPackets[k].port # port
=============================================================================
