----------------------------- MODULE FrameCodec -----------------------------
(***************************************************************************)
(* The two FrameCodec classes: the daemon's (serial_comm.cpp) and the      *)
(* driver's (comm_handler.cpp).  A byte is a cell <<b>>; the header is     *)
(* four cells (two sync bytes, an identity, the payload length) and the    *)
(* CRC is one cell, the very sequence it covers: it never collides.        *)
(***************************************************************************)
EXTENDS Integers, Sequences, FiniteSetsExt, SequencesExt

CONSTANT MaxPayload   \* PROTO_MAX_PAYLOAD
ASSUME CodecConstants == MaxPayload \in Nat

Byte == [{1} -> Nat]
Sync0 == <<10>>
Sync1 == <<5>>
HeaderTot == 4
CrcSz == 1
MaxFrame == HeaderTot + MaxPayload + CrcSz
BufCap == 2 * MaxFrame
DropFirst(b, n) == SubSeq(b, n + 1, Len(b))

\* crcFrom: first cell of the CRC; need: cells asked for before the header is
\* read; skip: cells given up when a frame is rejected.
Daemon == [crcFrom |-> 1, need |-> HeaderTot + CrcSz, skip |-> 2]
Driver == [crcFrom |-> 3, need |-> HeaderTot, skip |-> 1]
Codec(side) == IF side = "daemon" THEN Daemon ELSE Driver
Crc(k, cells) == SubSeq(cells, k.crcFrom, Len(cells))

Body(id, payload) == <<Sync0, Sync1, <<id>>, <<Len(payload)>>>> \o payload
Encode(k, id, payload) == Append(Body(id, payload), Crc(k, Body(id, payload)))
-----------------------------------------------------------------------------
\* The length field; a CRC cell read as one is some number.
Claimed(b) == IF Len(b[HeaderTot]) = 1 THEN b[HeaderTot][1] ELSE MaxPayload
Total(b) == HeaderTot + Claimed(b) + CrcSz

\* Erase up to the first pair of sync bytes; without one the last cell stays.
Synced(b) ==
    LET at == {i \in 1..(Len(b) - 1) : b[i] = Sync0 /\ b[i + 1] = Sync1}
    IN  DropFirst(b, IF at # {} THEN Min(at) - 1 ELSE IF b = <<>> THEN 0 ELSE Len(b) - 1)

Scanned(k, b) == IF k = Daemon /\ Len(b) < k.need THEN b ELSE Synced(b)
(* Fault: a claimed length is waited for before it is looked at. *)
ShortOfClaim(k, b) == Len(b) < k.need \/ Len(b) < Total(b)
\* try_parse() returns false and waits for more.
Short(k, b) == \/ Len(b) < k.need
               \/ Claimed(b) <= MaxPayload /\ Len(b) < Total(b)
(* Fault: the CRC is read, not compared. *)
ValidByLength(k, b) == Claimed(b) <= MaxPayload
Valid(k, b) == /\ Claimed(b) <= MaxPayload
               /\ b[Total(b)] = Crc(k, SubSeq(b, 1, Total(b) - 1))

(* Fault: a rejected frame is thrown away with the length it claims. *)
RejectedWhole(k, b) == DropFirst(b, IF Claimed(b) > MaxPayload THEN k.skip ELSE Total(b))
Rejected(k, b) == DropFirst(b, k.skip)

\* One call of try_parse() on the rest b, after the frames got.
TryParse(k, s) ==
    LET b == Scanned(k, s.rest)
    IN  IF Short(k, b) THEN [s EXCEPT !.rest = b]
        ELSE IF Valid(k, b)
        THEN [rest |-> DropFirst(b, Total(b)), got |-> Append(s.got, b[3][1])]
        ELSE [s EXCEPT !.rest = Rejected(k, b)]

\* while (try_parse(cb)) {}: each round but the last takes a cell at least.
Parsed(k, b) ==
    FoldLeft(LAMBDA s, x : TryParse(k, s), [rest |-> b, got |-> <<>>], <<0>> \o b)

Overflows(b, data) == Len(b) + Len(data) > BufCap

DaemonFeed(b, data) ==
    Parsed(Daemon, IF Overflows(b, data) THEN data ELSE b \o data)

DriverFeed(b, data) ==
    LET p == Parsed(Driver, b \o data)
        n == Len(p.rest)
    IN  [p EXCEPT !.rest = DropFirst(@, IF n > BufCap THEN n - BufCap ELSE 0)]

Feed(side, b, data) ==
    IF side = "daemon" THEN DaemonFeed(b, data) ELSE DriverFeed(b, data)
=============================================================================
