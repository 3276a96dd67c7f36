--------------------------- MODULE MCSerialManager ---------------------------
(***************************************************************************)
(* Instances of SerialManager: a signature of two bytes, of which data has  *)
(* some too, and packets for each way through the router.                   *)
(***************************************************************************)
EXTENDS SerialManager

MCSignature == <<6, 92>>

InitFrom(data) == New(TypeInit, InitClient, InitHost, <<data>>)
RawWorks(data) == New(TypeState, RawSerialClient, InitHost, <<data>>)
ToRaw(data) == New(TypeData, RawSerialClient, RawSerial, data)
ToTcp(data) == New(TypeData, TCPClient, TCPHost, data)
FromRaw == New(TypeData, RawSerial, RawSerialClient, <<7, 8>>)
FromTcp == New(TypeData, TCPHost, TCPClient, <<6, 92>>)

MCHostPackets ==
    {InitFrom(0), InitFrom(1), RawWorks(1), RawWorks(0), ToRaw(<<6, 92>>),
     ToTcp(<<>>)}
MCKernelPackets == {FromRaw, FromTcp}
=============================================================================
