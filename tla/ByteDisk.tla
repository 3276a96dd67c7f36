------------------------------ MODULE ByteDisk ------------------------------
(***************************************************************************)
(* What reading and writing bytes of a drive promises, one call at a time:  *)
(* a write changes no byte but those it was given, each only to its new     *)
(* value; a call that reports success has stored, or fetched, every byte of *)
(* its range.  A call that fails, or that a loss of power cuts off, may     *)
(* have stored any of its bytes.  A drive that breaks these promises has    *)
(* done so for good.                                                        *)
(***************************************************************************)
EXTENDS Naturals

CONSTANTS
    Size,           \* bytes of the drive
    Values          \* what a byte can hold

VARIABLES
    bytes,          \* the contents of the drive
    call,           \* the call: what it does, from which byte, how many
    data,           \* the caller's buffer
    answer,         \* "none", "running", "ok" or "failed"
    broken          \* nothing is promised any more

vars == <<bytes, call, data, answer, broken>>

Bytes == 0 .. (Size - 1)
Range == {call.from + i : i \in 0 .. (call.count - 1)}

Agree == \A i \in 0 .. (call.count - 1) :
            call.from + i \in Bytes /\ bytes[call.from + i] = data[i]

Init ==
    /\ bytes \in [Bytes -> Values]
    /\ answer = "none" /\ broken = FALSE

Stored ==
    \A b \in Bytes :
        \/ bytes'[b] = bytes[b]
        \/ /\ call.writes /\ b \in Range
           /\ bytes'[b] = data[b - call.from]

Begin ==
    /\ answer # "running"
    /\ answer' \in {"running", "ok", "failed"}
    /\ answer' = "ok" => Agree'
    /\ UNCHANGED bytes

Work ==
    /\ answer = "running"
    /\ Stored
    /\ call.writes => data' = data
    /\ answer' \in {"running", "ok", "failed"}
    /\ answer' = "ok" => Agree'
    /\ UNCHANGED call

PowerLoss ==
    /\ answer' = "none"
    /\ UNCHANGED bytes

Kept == Begin \/ Work \/ PowerLoss

Next == broken' \/ (~broken /\ ~broken' /\ Kept)

Spec == Init /\ [][Next]_vars
=============================================================================
