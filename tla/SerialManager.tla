---------------------------- MODULE SerialManager ----------------------------
(***************************************************************************)
(* The serial manager (serialManager/serialManager.cpp): packets between    *)
(* ports of the kernel and of a host at the other end of the serial line.   *)
(* The timer interrupt connects, receives and sends, a burst of bytes each; *)
(* the main loop puts packets into the queue and takes some out of the list *)
(* (devices/serial/serial.cpp); TCP takes its own in the interrupt.         *)
(*                                                                         *)
(* Each field of a header is one byte here: type, length, from, to.  The    *)
(* line neither loses nor changes bytes.  A behaviour ends when the main    *)
(* loop and the interrupt change the same list or queue at once, or the     *)
(* main loop takes a byte that was meant for the interrupt: the code leaves *)
(* a list with a packet lost or doubled then, or waits for a frame whose    *)
(* beginning is gone.                                                       *)
(***************************************************************************)
EXTENDS Naturals, Sequences, SequencesExt

CONSTANTS
    Signature,      \* the bytes a frame begins with
    MaxLen,         \* a length above it is taken for 0
    Burst,          \* bytes received, and sent, in one interrupt
    HostPackets,    \* what the host sends in frames
    RawBytes,       \* what the host sends without a frame
    KernelPackets,  \* what the main loop sends
    MaxTyped,       \* bound: bytes of the host before its signature
    MaxSent,        \* bound: its packets and bytes after it
    MaxWritten      \* bound: packets of the main loop

Byte == 0 .. 255
Packet == {packet \in [type : Byte, from : Byte, to : Byte, data : Seq(Byte)] :
              Len(packet.data) \in Byte}

ASSUME SerialAssumption ==
    /\ Signature \in Seq(Byte) /\ Signature # <<>>
    /\ MaxLen \in Nat /\ Burst \in Nat \ {0}
    /\ HostPackets \subseteq Packet /\ KernelPackets \subseteq Packet
    /\ RawBytes \subseteq Byte \ {Signature[1]}
    /\ MaxTyped \in Nat /\ MaxSent \in Nat /\ MaxWritten \in Nat

TypeState == 10
TypeData == 30
TypeInit == 40

(* The ports that are used; those of TCP are 501 and 502 in the code, which  *)
(* do not fit into a byte.                                                  *)
InitHost == 1
RawSerial == 101
VideoHost == 201
TCPHost == 51
ReservedHostPorts == {InitHost, RawSerial, VideoHost, TCPHost}

InitClient == 2
RawSerialClient == 102
VideoClient == 202
TCPClient == 52
ReservedOutClientPorts == {InitClient, RawSerialClient, VideoClient, TCPClient}
ReservedPorts == ReservedHostPorts \cup ReservedOutClientPorts

New(type, from, to, data) == [type |-> type, from |-> from, to |-> to, data |-> data]
NoPacket == New(0, 0, 0, <<>>)

(* What the host keeps to.  Longer packets are cut and empty ones for the   *)
(* serial port read beyond their data; the kernel checks neither, nor who   *)
(* says that a port has closed.                                             *)
ASSUME HostAssumption ==
    \A packet \in HostPackets :
       /\ Len(packet.data) <= MaxLen
       /\ packet.to = RawSerial => packet.data # <<>>
       /\ packet.type = TypeState => packet.from \notin {RawSerial, TCPHost}

VARIABLES
    connected,          \* clientConnected
    checkIndex,         \* clientCheckIndex
    answered,           \* history: bytes sent to the host before the answer
    working,            \* the ports whose Working... entry is true
    packetsToBeSent, packetsReceived,
    currentSendPacket, sendBuffer, sendBufferIndex,
    receiveBuffer, receiveBufferLen,
    pc,                 \* "main", or what the interrupt is doing
    left,               \* bytes left in its burst
    mainStep,           \* what the main loop is doing
    mainPacket,         \* what it is about to put into the queue
    typing,             \* bytes of a string that it is writing without a client
    searchAt,           \* where GetPacket is in the list
    reading,            \* bytes of currentSerialReadPacket not read yet
    toKernel, toHost,   \* bytes on the line, and all bytes sent to the host
    greeted,            \* the host has sent its signature
    \* history variables:
    sentByHost,         \* what the host has sent since
    parsed,             \* what was received, as packets
    begun,              \* packets that went onto the line
    read,               \* bytes the main loop has read
    takenByTcp,         \* packets that TCP has taken
    written,            \* number of packets the main loop has sent
    intruded,           \* a byte without a frame was sent to a host after the answer
    overtaken           \* the interrupt and the main loop were in each other's way

router == <<working, packetsToBeSent, packetsReceived>>
sender == <<currentSendPacket, sendBuffer, sendBufferIndex>>
receiver == <<receiveBuffer, receiveBufferLen>>
client == <<connected, checkIndex, answered>>
mainLoop == <<mainStep, mainPacket, typing, searchAt, reading, read, written,
              intruded>>
host == <<greeted, sentByHost>>
serialVars == <<router, sender, receiver, client, mainLoop, host, pc, left,
                toKernel, toHost, parsed, begun, takenByTcp, overtaken>>

SerialInit ==
    /\ connected = FALSE /\ checkIndex = 0 /\ answered = 0
    /\ working = {InitHost, RawSerial, TCPHost, InitClient}
    /\ packetsToBeSent = <<>> /\ packetsReceived = <<>>
    /\ currentSendPacket = NoPacket /\ sendBuffer = <<>> /\ sendBufferIndex = 0
    /\ receiveBuffer = <<>> /\ receiveBufferLen = 0
    /\ pc = "main" /\ left = 0
    /\ mainStep = "idle" /\ mainPacket = NoPacket /\ typing = <<>>
    /\ searchAt = 1 /\ reading = <<>>
    /\ toKernel = <<>> /\ toHost = <<>> /\ greeted = FALSE
    /\ sentByHost = <<>> /\ parsed = <<>> /\ begun = <<>> /\ read = <<>>
    /\ takenByTcp = <<>> /\ written = 0
    /\ intruded = FALSE /\ overtaken = FALSE

-----------------------------------------------------------------------------
(* Routing.  A router state has the working ports, the queue of packets to  *)
(* be sent and the list of those received.                                  *)

Router == [working |-> working, queue |-> packetsToBeSent,
           list |-> packetsReceived]

RouterIs(r) ==
    /\ working' = r.working
    /\ packetsToBeSent' = r.queue
    /\ packetsReceived' = r.list

CanPacketBeSent(ports, packet) ==
    \/ packet.type \in {TypeInit, TypeState}
    \/ packet.to \in ports
    \/ packet.to \notin ReservedPorts

(* A STATE packet says whether the port it comes from works.                *)
WorkingAfter(ports, packet) ==
    IF packet.type # TypeState THEN ports
    ELSE IF packet.data[1] = 1 THEN ports \cup ({packet.from} \cap ReservedPorts)
    ELSE ports \ {packet.from}

(* SendPacket for everything but an INIT packet for the kernel.             *)
Route(r, packet) ==
    LET ports == WorkingAfter(r.working, packet)
        out   == packet.to \in ReservedOutClientPorts
        known == [r EXCEPT !.working = ports]
    IN  IF packet.type = TypeState /\ ~out THEN known
        ELSE IF ~CanPacketBeSent(ports, packet) THEN known
        ELSE IF out THEN [known EXCEPT !.queue = Append(@, packet)]
        ELSE [known EXCEPT !.list = Append(@, packet)]

InitServerClientStuff(r) ==
    LET on(type, from, to) == New(type, from, to, <<1>>)
        a == Route(r, on(TypeState, RawSerial, RawSerialClient))
        b == Route(a, on(TypeState, VideoHost, VideoClient))
        c == Route(b, on(TypeState, TCPHost, TCPClient))
    IN  Route(c, on(TypeInit, InitHost, InitClient))

(* "Connection to MaslOS established!", when somebody can read it.          *)
ActuallyInitClientStuff(r) ==
    IF RawSerialClient \in r.working
    THEN Route(r, New(TypeData, RawSerial, RawSerialClient, <<0>>))
    ELSE r

SendPacket(r, packet) ==
    IF packet.type = TypeInit /\ packet.to = InitHost
    THEN IF packet.data[1] = 0 THEN InitServerClientStuff(r)
         ELSE ActuallyInitClientStuff(r)
    ELSE Route(r, packet)

-----------------------------------------------------------------------------
(* The timer interrupt: Manager::DoStuff.                                   *)

(* CheckForClient takes one byte while nobody is connected; the byte that   *)
(* completes the signature is answered with the signature, others that do   *)
(* not belong to one are sent back.                                         *)
CheckForClient ==
    /\ pc = "main" /\ ~connected
    /\ toKernel # <<>>
    /\ toKernel' = Tail(toKernel)
    /\ LET fits     == Head(toKernel) = Signature[checkIndex + 1]
           complete == fits /\ checkIndex + 1 = Len(Signature)
       IN  /\ connected' = complete
           /\ checkIndex' = IF fits /\ ~complete THEN checkIndex + 1 ELSE 0
           /\ toHost' = IF complete THEN toHost \o Signature
                        ELSE IF fits THEN toHost
                        ELSE Append(toHost, Head(toKernel))
           /\ answered' = IF complete THEN Len(toHost) ELSE answered
           /\ pc' = IF complete THEN "receive" ELSE "main"
           /\ left' = IF complete THEN Burst ELSE 0
    /\ UNCHANGED <<router, sender, receiver, mainLoop, host, parsed, begun,
                   takenByTcp>>

(* The packets of a list that are in a set, in their order.                 *)
Chosen(packets, S) ==
    FlattenSeq([k \in DOMAIN packets |->
                   IF packets[k] \in S THEN <<packets[k]>> ELSE <<>>])

ToPort(port) == {packet \in Packet : packet.to = port}

(* TcpClient::DoStep takes the packets for TCP off the list.                *)
DoStep ==
    /\ pc = "main" /\ connected
    /\ takenByTcp' = takenByTcp \o Chosen(packetsReceived, ToPort(TCPHost))
    /\ packetsReceived' = Chosen(packetsReceived, Packet \ ToPort(TCPHost))
    /\ pc' = "receive" /\ left' = Burst
    /\ UNCHANGED <<working, packetsToBeSent, sender, receiver, client, mainLoop,
                   host, toKernel, toHost, parsed, begun>>

SignatureLen == Len(Signature)
LenAt == SignatureLen + 2
HeaderLen == SignatureLen + 4

(* Mutant: the header says where a packet goes before it says whence.       *)
DecodeSwapped(bytes) ==
    New(bytes[SignatureLen + 1], bytes[SignatureLen + 4],
        bytes[SignatureLen + 3], SubSeq(bytes, HeaderLen + 1, Len(bytes)))

Decode(bytes) ==
    New(bytes[SignatureLen + 1], bytes[SignatureLen + 3],
        bytes[SignatureLen + 4], SubSeq(bytes, HeaderLen + 1, Len(bytes)))

Header(packet) ==
    Signature \o <<packet.type, Len(packet.data), packet.from, packet.to>>

Encode(packet) == Header(packet) \o packet.data

(* Bytes that begin no frame are a packet for the raw serial port.          *)
Unframed(bytes) == New(TypeData, RawSerialClient, RawSerial, bytes)

Announced(length) == HeaderLen + (IF length > MaxLen THEN 0 ELSE length)

(* A packet is complete: it is routed, and a new one begins.                *)
Received(packet) ==
    /\ RouterIs(SendPacket(Router, packet))
    /\ parsed' = Append(parsed, packet)
    /\ receiveBuffer' = <<>>
    /\ UNCHANGED receiveBufferLen

(* The bytes are those of a packet that is not complete.                    *)
Waiting(bytes) ==
    /\ receiveBuffer' = bytes
    /\ receiveBufferLen' = IF Len(bytes) = LenAt THEN Announced(Last(bytes))
                           ELSE receiveBufferLen
    /\ UNCHANGED <<router, parsed>>

(* Mutant: a packet without data is not complete.                           *)
CompleteWithData(bytes) ==
    Len(bytes) > HeaderLen /\ Len(bytes) = receiveBufferLen

Complete(bytes) == Len(bytes) > LenAt /\ Len(bytes) = receiveBufferLen

(* DoReceiveStuff.                                                          *)
ReceiveByte ==
    LET bytes == Append(receiveBuffer, Head(toKernel))
    IN  /\ pc = "receive" /\ left > 0
        /\ toKernel # <<>>
        /\ toKernel' = Tail(toKernel)
        /\ left' = left - 1
        /\ IF Len(bytes) <= SignatureLen /\ ~IsPrefix(bytes, Signature)
           THEN Received(Unframed(bytes))
           ELSE IF Complete(bytes) THEN Received(Decode(bytes))
           ELSE Waiting(bytes)
        /\ UNCHANGED <<sender, client, mainLoop, host, pc, toHost, begun,
                       takenByTcp>>

ReceiveEnd ==
    /\ pc = "receive"
    /\ left = 0 \/ toKernel = <<>>
    /\ pc' = "send" /\ left' = Burst
    /\ UNCHANGED <<router, sender, receiver, client, mainLoop, host, toKernel,
                   toHost, parsed, begun, takenByTcp>>

(* DoSendStuff when a packet is to be begun: one whose port no longer works *)
(* is dropped; of another the first byte is written.                        *)
MayBegin(packet) == CanPacketBeSent(working, packet)

(* Mutant: the port was looked at when the packet was put into the queue.   *)
BeginUnchecked ==
    LET packet == Head(packetsToBeSent)
    IN  /\ currentSendPacket' = packet
        /\ sendBuffer' = Tail(Header(packet))
        /\ toHost' = Append(toHost, Head(Header(packet)))
        /\ begun' = Append(begun, packet)

Begin ==
    LET packet == Head(packetsToBeSent)
    IN  IF MayBegin(packet)
        THEN /\ currentSendPacket' = packet
             /\ sendBuffer' = Tail(Header(packet))
             /\ toHost' = Append(toHost, Head(Header(packet)))
             /\ begun' = Append(begun, packet)
        ELSE /\ sendBuffer' = <<>>
             /\ UNCHANGED <<currentSendPacket, toHost, begun>>

(* Mutant: the packet that is under way is not waited for.                   *)
BeginPacketAnyway ==
    /\ pc = "send" /\ left > 0
    /\ packetsToBeSent # <<>>
    /\ packetsToBeSent' = Tail(packetsToBeSent)
    /\ Begin
    /\ sendBufferIndex' = 0
    /\ left' = left - 1
    /\ UNCHANGED <<working, packetsReceived, receiver, client, mainLoop, host, pc,
                   toKernel, parsed, takenByTcp>>

BeginPacket ==
    /\ pc = "send" /\ left > 0
    /\ currentSendPacket = NoPacket /\ packetsToBeSent # <<>>
    /\ packetsToBeSent' = Tail(packetsToBeSent)
    /\ Begin
    /\ sendBufferIndex' = 0
    /\ left' = left - 1
    /\ UNCHANGED <<working, packetsReceived, receiver, client, mainLoop, host, pc,
                   toKernel, parsed, takenByTcp>>

(* One more byte of the packet, of its header first.                        *)
SendByte ==
    /\ pc = "send" /\ left > 0
    /\ currentSendPacket # NoPacket
    /\ \/ /\ sendBuffer # <<>>
          /\ toHost' = Append(toHost, Head(sendBuffer))
          /\ sendBuffer' = Tail(sendBuffer)
          /\ UNCHANGED sendBufferIndex
       \/ /\ sendBuffer = <<>>
          /\ sendBufferIndex < Len(currentSendPacket.data)
          /\ toHost' = Append(toHost, currentSendPacket.data[sendBufferIndex + 1])
          /\ sendBufferIndex' = sendBufferIndex + 1
          /\ UNCHANGED sendBuffer
    /\ left' = left - 1
    /\ UNCHANGED <<router, currentSendPacket, receiver, client, mainLoop, host, pc,
                   toKernel, parsed, begun, takenByTcp>>

(* Mutant: the packet stays the current one.                                *)
SendDoneKept ==
    /\ pc = "send" /\ left > 0
    /\ currentSendPacket # NoPacket /\ sendBuffer = <<>>
    /\ sendBufferIndex = Len(currentSendPacket.data)
    /\ left' = left - 1
    /\ UNCHANGED <<router, sender, receiver, client, mainLoop, host, pc,
                   toKernel, toHost, parsed, begun, takenByTcp>>

SendDone ==
    /\ pc = "send" /\ left > 0
    /\ currentSendPacket # NoPacket /\ sendBuffer = <<>>
    /\ sendBufferIndex = Len(currentSendPacket.data)
    /\ currentSendPacket' = NoPacket
    /\ sendBufferIndex' = 0
    /\ left' = left - 1
    /\ UNCHANGED <<router, sendBuffer, receiver, client, mainLoop, host, pc,
                   toKernel, toHost, parsed, begun, takenByTcp>>

SendEnd ==
    /\ pc = "send"
    /\ left = 0 \/ (currentSendPacket = NoPacket /\ packetsToBeSent = <<>>)
    /\ pc' = "main" /\ left' = 0
    /\ UNCHANGED <<router, sender, receiver, client, mainLoop, host, toKernel,
                   toHost, parsed, begun, takenByTcp>>

-----------------------------------------------------------------------------
(* The main loop, between interrupts.                                       *)

(* SendPacket, up to the queue; a packet that cannot be sent is dropped.    *)
Checked(packet) == IF CanPacketBeSent(working, packet) THEN packet ELSE NoPacket

AtRest == pc = "main" /\ mainStep = "idle" /\ mainPacket = NoPacket /\ typing = <<>>

WritePacket(packet) ==
    /\ AtRest
    /\ connected \/ packet.from # RawSerial
    /\ written < MaxWritten
    /\ written' = written + 1
    /\ mainPacket' = Checked(packet)
    /\ UNCHANGED <<router, sender, receiver, client, host, pc, left, mainStep,
                   typing, searchAt, reading, read, intruded, toKernel, toHost,
                   parsed, begun, takenByTcp>>

(* Serial::Write of a string, without a client: byte by byte.               *)
WriteString(packet) ==
    /\ AtRest
    /\ ~connected /\ packet.from = RawSerial
    /\ written < MaxWritten
    /\ written' = written + 1
    /\ typing' = packet.data
    /\ UNCHANGED <<router, sender, receiver, client, host, pc, left, mainStep,
                   mainPacket, searchAt, reading, read, intruded, toKernel, toHost,
                   parsed, begun, takenByTcp>>

(* Serial::Write of a byte asks for a client again: with one, the byte is a *)
(* packet.                                                                  *)
WriteChar ==
    /\ pc = "main" /\ mainStep = "idle" /\ mainPacket = NoPacket
    /\ typing # <<>>
    /\ IF connected
       THEN /\ mainPacket' = Checked(New(TypeData, RawSerial, RawSerialClient,
                                         <<Head(typing)>>))
            /\ typing' = Tail(typing) /\ UNCHANGED mainStep
       ELSE mainStep' = "raw" /\ UNCHANGED <<mainPacket, typing>>
    /\ UNCHANGED <<router, sender, receiver, client, host, pc, left, searchAt,
                   reading, read, written, intruded, toKernel, toHost, parsed,
                   begun, takenByTcp>>

(* Without one it goes onto the line, whether or not there is one by now.   *)
WriteRaw ==
    /\ pc = "main" /\ mainStep = "raw"
    /\ toHost' = Append(toHost, Head(typing))
    /\ typing' = Tail(typing) /\ mainStep' = "idle"
    /\ intruded' = (intruded \/ connected)
    /\ UNCHANGED <<router, sender, receiver, client, host, pc, left, mainPacket,
                   searchAt, reading, read, written, toKernel, parsed, begun,
                   takenByTcp>>

(* Queue::Enqueue writes the packet at the tail, moves the tail, and counts *)
(* one more.                                                                *)
EnqueueBegins ==
    /\ pc = "main" /\ mainStep = "idle" /\ mainPacket # NoPacket
    /\ mainStep' = "enqueue"
    /\ UNCHANGED <<router, sender, receiver, client, host, pc, left, mainPacket,
                   typing, searchAt, reading, read, written, intruded, toKernel,
                   toHost, parsed, begun, takenByTcp>>

WriteQueued ==
    /\ pc = "main" /\ mainStep = "enqueue"
    /\ packetsToBeSent' = Append(packetsToBeSent, mainPacket)
    /\ mainPacket' = NoPacket /\ mainStep' = "idle"
    /\ UNCHANGED <<working, packetsReceived, sender, receiver, client, host, pc,
                   left, typing, searchAt, reading, read, written, intruded,
                   toKernel, toHost, parsed, begun, takenByTcp>>

(* Serial::Read: a byte of the packet that is being read.                   *)
ReadOn ==
    /\ AtRest /\ reading # <<>>
    /\ read' = Append(read, Head(reading)) /\ reading' = Tail(reading)
    /\ UNCHANGED <<router, sender, receiver, client, host, pc, left, mainStep,
                   mainPacket, typing, searchAt, written, intruded, toKernel,
                   toHost, parsed, begun, takenByTcp>>

(* Mutant: the search begins at the second packet.                          *)
ReadBeginsLate ==
    /\ AtRest /\ reading = <<>>
    /\ mainStep' = IF connected THEN "find" ELSE "readRaw"
    /\ searchAt' = IF connected THEN 2 ELSE 1
    /\ UNCHANGED <<router, sender, receiver, client, host, pc, left, mainPacket,
                   typing, reading, read, written, intruded, toKernel, toHost,
                   parsed, begun, takenByTcp>>

(* There is none: a client has GetPacket look for one.                      *)
ReadBegins ==
    /\ AtRest /\ reading = <<>>
    /\ mainStep' = IF connected THEN "find" ELSE "readRaw"
    /\ searchAt' = 1
    /\ UNCHANGED <<router, sender, receiver, client, host, pc, left, mainPacket,
                   typing, reading, read, written, intruded, toKernel, toHost,
                   parsed, begun, takenByTcp>>

Wanted ==
    searchAt <= Len(packetsReceived) /\ packetsReceived[searchAt].to = RawSerial

(* The loop of GetPacket: the next place, or the end of the list.              *)
GetPacketOn ==
    /\ pc = "main" /\ mainStep = "find" /\ ~Wanted
    /\ IF searchAt <= Len(packetsReceived)
       THEN searchAt' = searchAt + 1 /\ UNCHANGED mainStep
       ELSE searchAt' = 1 /\ mainStep' = "idle"
    /\ UNCHANGED <<router, sender, receiver, client, host, pc, left, mainPacket,
                   typing, reading, read, written, intruded, toKernel, toHost,
                   parsed, begun, takenByTcp>>

(* It takes the packet off the list.  The list is here what it will be when *)
(* List::RemoveAt has counted it down: until then no other may change it.   *)
GetPacket ==
    /\ pc = "main" /\ mainStep = "find" /\ Wanted
    /\ reading' = packetsReceived[searchAt].data
    /\ packetsReceived' = RemoveAt(packetsReceived, searchAt)
    /\ mainStep' = "remove" /\ searchAt' = 1
    /\ UNCHANGED <<working, packetsToBeSent, sender, receiver, client, host, pc,
                   left, mainPacket, typing, read, written, intruded, toKernel,
                   toHost, parsed, begun, takenByTcp>>

(* The removal is done, and its first byte read.                            *)
Read ==
    /\ pc = "main" /\ mainStep = "remove"
    /\ read' = Append(read, Head(reading)) /\ reading' = Tail(reading)
    /\ mainStep' = "idle"
    /\ UNCHANGED <<router, sender, receiver, client, host, pc, left, mainPacket,
                   typing, searchAt, written, intruded, toKernel, toHost, parsed,
                   begun, takenByTcp>>

(* Without a client, a byte of the receiver's buffer, or else of the line.  *)
ReadRaw ==
    /\ pc = "main" /\ mainStep = "readRaw"
    /\ mainStep' = "idle"
    /\ \/ /\ receiveBuffer # <<>>
          /\ receiveBuffer' = Tail(receiveBuffer) /\ UNCHANGED toKernel
       \/ /\ toKernel # <<>>
          /\ toKernel' = Tail(toKernel) /\ UNCHANGED receiveBuffer
    /\ UNCHANGED <<router, sender, receiveBufferLen, client, host, pc, left,
                   mainPacket, typing, searchAt, reading, read, written, intruded,
                   toHost, parsed, begun, takenByTcp>>

-----------------------------------------------------------------------------
(* The host: it sends its signature once, frames when it was answered, and  *)
(* single bytes at any time.                                                *)

HostGreets ==
    /\ ~greeted /\ greeted' = TRUE
    /\ toKernel' = toKernel \o Signature
    /\ UNCHANGED <<router, sender, receiver, client, mainLoop, pc, left, toHost,
                   sentByHost, parsed, begun, takenByTcp>>

HostSends(packet) ==
    /\ connected /\ Len(sentByHost) < MaxSent
    /\ sentByHost' = Append(sentByHost, packet)
    /\ toKernel' = toKernel \o Encode(packet)
    /\ UNCHANGED <<router, sender, receiver, client, mainLoop, greeted, pc, left,
                   toHost, parsed, begun, takenByTcp>>

HostTypes(byte) ==
    /\ IF greeted
       THEN /\ Len(sentByHost) < MaxSent
            /\ sentByHost' = Append(sentByHost, Unframed(<<byte>>))
       ELSE Len(toHost) + Len(toKernel) < MaxTyped /\ UNCHANGED sentByHost
    /\ toKernel' = Append(toKernel, byte)
    /\ UNCHANGED <<router, sender, receiver, client, mainLoop, greeted, pc, left,
                   toHost, parsed, begun, takenByTcp>>

(* What the interrupt changes under the main loop: the queue within an      *)
(* Enqueue, the places of the list within GetPacket, and the list at all    *)
(* within its RemoveAt.                                                     *)
Overtakes ==
    \/ mainStep = "enqueue" /\ packetsToBeSent' # packetsToBeSent
    \/ mainStep = "find" /\ ~IsPrefix(packetsReceived, packetsReceived')
    \/ mainStep = "remove" /\ packetsReceived' # packetsReceived

Timer ==
    /\ ~overtaken
    /\ \/ CheckForClient \/ DoStep
       \/ ReceiveByte \/ ReceiveEnd
       \/ BeginPacket \/ SendByte \/ SendDone \/ SendEnd
    /\ overtaken' = Overtakes

(* What the host has sent since its signature is for the interrupt.         *)
MainLoop ==
    /\ ~overtaken
    /\ \/ /\ \/ \E packet \in KernelPackets :
                   WritePacket(packet) \/ WriteString(packet)
             \/ WriteChar \/ WriteRaw \/ EnqueueBegins \/ WriteQueued
             \/ ReadOn \/ ReadBegins \/ GetPacketOn \/ GetPacket \/ Read
          /\ UNCHANGED overtaken
       \/ ReadRaw /\ overtaken' = greeted

Host ==
    /\ ~overtaken
    /\ \/ HostGreets
       \/ \E packet \in HostPackets : HostSends(packet)
       \/ \E byte \in RawBytes : HostTypes(byte)
    /\ UNCHANGED overtaken

Ended == overtaken /\ UNCHANGED serialVars

SerialNext == Timer \/ MainLoop \/ Host \/ Ended

(* The timer goes on interrupting.                                          *)
SerialSpec == SerialInit /\ [][SerialNext]_serialVars /\ WF_serialVars(Timer)

-----------------------------------------------------------------------------
(* The types of the variables; the receiver never holds more than a frame.  *)
SerialTypeOK ==
    /\ connected \in BOOLEAN /\ greeted \in BOOLEAN
    /\ checkIndex \in 0 .. (SignatureLen - 1)
    /\ working \subseteq ReservedPorts
    /\ \A p \in ToSet(packetsToBeSent \o packetsReceived \o sentByHost
                       \o parsed \o begun \o takenByTcp) : p \in Packet
    /\ currentSendPacket \in Packet /\ mainPacket \in Packet
    /\ sendBuffer \in Seq(Byte)
    /\ sendBufferIndex \in 0 .. Len(currentSendPacket.data)
    /\ receiveBuffer \in Seq(Byte) /\ Len(receiveBuffer) < HeaderLen + MaxLen
    /\ receiveBufferLen \in Nat
    /\ pc \in {"main", "receive", "send"} /\ left \in 0 .. Burst
    /\ toKernel \in Seq(Byte) /\ toHost \in Seq(Byte)
    /\ read \in Seq(Byte) /\ reading \in Seq(Byte) /\ written \in 0 .. MaxWritten
    /\ mainStep \in {"idle", "raw", "enqueue", "find", "remove", "readRaw"}
    /\ typing \in Seq(Byte) /\ searchAt \in Nat \ {0} /\ answered \in Nat
    /\ intruded \in BOOLEAN

(* What the kernel makes of the bytes is what the host sent, one after the  *)
(* other and whole, however the interrupts cut the stream: with frames and  *)
(* single bytes mixed, and bytes of the signature inside of data, until the *)
(* main loop reads some of them without a client.                           *)
FramesArrive ==
    ~overtaken =>
       /\ SerialTypeOK
       /\ IsPrefix(parsed, sentByHost)
       /\ connected /\ toKernel = <<>> /\ receiveBuffer = <<>> =>
              parsed = sentByHost

(* The data of the packets of a list that are in a set.                     *)
DataOf(packets, S) ==
    FlattenSeq([k \in DOMAIN packets |->
                   IF packets[k] \in S THEN packets[k].data ELSE <<>>])

(* A port that works gets its packets in the order in which they came, each *)
(* once: those for TCP in the interrupt, those for the serial port by byte, *)
(* until the interrupt takes packets off the list, or adds one, while the   *)
(* main loop counts on its places.  STATE packets are for the router itself.*)
PortsInOrder ==
    LET kept(port) == {packet \in ToPort(port) : packet.type # TypeState}
    IN  ~overtaken =>
          /\ takenByTcp \o Chosen(packetsReceived, ToPort(TCPHost)) =
                Chosen(parsed, kept(TCPHost))
          /\ read \o reading \o DataOf(packetsReceived, ToPort(RawSerial)) =
                DataOf(parsed, kept(RawSerial))

(* What the host has seen since its signature was answered is the answer    *)
(* and the frames of the packets that were begun, none of them broken off,  *)
(* and only the last one unfinished; unless the main loop had found no      *)
(* client just before and sends a byte without a frame after the answer.    *)
FramesLeaveWhole ==
    LET frames == FlattenSeq([i \in DOMAIN begun |-> Encode(begun[i])])
        seen   == SubSeq(toHost, answered + 1, Len(toHost))
    IN  ~overtaken /\ ~intruded /\ connected =>
           /\ IsPrefix(seen, Signature \o frames)
           /\ currentSendPacket = NoPacket => seen = Signature \o frames

(* Once the host has said that a port no longer works, no packet for it is  *)
(* begun, not even one that was put into the queue before.                  *)
ClosedStaysQuiet ==
    [][begun' # begun => CanPacketBeSent(working, Last(begun'))]_serialVars

Quiet == /\ toKernel = <<>> /\ packetsToBeSent = <<>>
         /\ currentSendPacket = NoPacket

(* Whatever waits on either side gets through: a host that has sent its     *)
(* signature is answered, its packets are received and the kernel's sent.   *)
AllGetsThrough == (greeted /\ ~Quiet) ~> ((connected /\ Quiet) \/ overtaken)
=============================================================================
