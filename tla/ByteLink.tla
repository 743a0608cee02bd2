------------------------------ MODULE ByteLink ------------------------------
(***************************************************************************)
(* Bytes on their way into a codec: the peer writes frames, the line may   *)
(* spoil them, the RX thread reads pieces of any size and feeds them.      *)
(* link is "uart" (UartChannel in the daemon, SerialTransport in the       *)
(* driver) or "tcp" (TcpClientChannel, TcpServerTransport); one codec      *)
(* lives as long as the channel, through every loss of the connection.     *)
(***************************************************************************)
EXTENDS FrameCodec, FiniteSets

CONSTANTS MaxFrames,   \* frames written in a run
          MaxDamage,   \* of which at most so many are damaged
          UartRead,    \* sizeof(raw) of the serial ports
          TcpRead,     \* sizeof(raw) of the sockets
          Payloads     \* payloads the peer sends

ASSUME LinkSizes == /\ MaxFrames \in Nat /\ MaxDamage \in Nat
                    /\ UartRead \in 1..MaxFrame /\ TcpRead \in Nat \ {0}
                    /\ \A p \in Payloads : p \in Seq(Byte) /\ Len(p) <= MaxPayload

VARIABLES side, link,          \* which program reads, over what; fixed
          rx, plugged, tried,  \* RX thread, the device, comm.start() was called
          buf,                 \* buf_ of the codec
          wire,                \* cells written and not read
          delivered,           \* identities handed to the callback
          written, intact,     \* frames written; those the line did not spoil
          cleared              \* the codec threw a rest away

config == <<side, link>>
port == <<rx, plugged, tried>>
linkVars == <<config, port, buf, wire, delivered, written, intact, cleared>>

Sides == {"daemon", "driver"}
ReadMax == IF link = "uart" THEN UartRead ELSE TcpRead
Within(f, s) == \E i \in 0..(Len(s) - Len(f)) : SubSeq(s, i + 1, i + Len(f)) = f
\* What the header of the nth frame says: message ids are no sync bytes.
Identity(n) == Sync0[1] + n
Got(f) == \E i \in DOMAIN delivered : delivered[i] = f.id

Init ==
    /\ side \in Sides /\ link \in {"uart", "tcp"}
    /\ rx = "off" /\ plugged \in BOOLEAN /\ tried = FALSE
    /\ link = "tcp" => plugged
    /\ buf = <<>> /\ wire = <<>> /\ delivered = <<>>
    /\ written = 0 /\ intact = {} /\ cleared = FALSE
-----------------------------------------------------------------------------
(* start() and stop(): main() starts the daemon's channel once and does    *)
(* not try again; the driver starts its transport on every activation.     *)

StartDaemon ==
    /\ side = "daemon" /\ ~tried
    /\ tried' = TRUE
    /\ rx' = IF plugged THEN "run" ELSE "off"
    /\ UNCHANGED <<config, plugged, buf, wire, delivered, written, intact, cleared>>

StartDriver ==
    /\ side = "driver" /\ rx = "off" /\ plugged
    /\ rx' = "run"
    /\ UNCHANGED <<config, plugged, tried, buf, wire, delivered, written, intact, cleared>>

\* stop() closes the descriptor and joins; so does the end of the process.
Stop ==
    /\ rx # "off"
    /\ rx' = "off"
    /\ UNCHANGED <<config, plugged, tried, buf, wire, delivered, written, intact, cleared>>
-----------------------------------------------------------------------------
(* The peer and the line.                                                  *)

\* One cell lost, or read as something else.
Damaged(f) ==
    {SubSeq(f, 1, i - 1) \o DropFirst(f, i) : i \in DOMAIN f}
        \cup ({[f EXCEPT ![i] = c] : i \in DOMAIN f, c \in {Sync0, <<MaxPayload>>}} \ {f})

Write ==
    /\ plugged /\ written < MaxFrames
    /\ written' = written + 1
    /\ \E p \in Payloads, by \in Sides :
         LET id == Identity(written')
             f == Encode(Codec(by), id, p)
         IN  \/ /\ wire' = wire \o f
                /\ intact' = intact \cup {[id |-> id, by |-> by, cells |-> f]}
             \/ /\ written' - Cardinality(intact) <= MaxDamage
                /\ \E d \in Damaged(f) : wire' = wire \o d
                /\ UNCHANGED intact
    /\ UNCHANGED <<config, port, buf, delivered, cleared>>

\* The connection breaks, or the device is pulled out: what is on the way is
\* lost; the codec keeps its rest.
Cut ==
    /\ wire # <<>>
    /\ wire' = <<>>
    /\ intact' = {f \in intact : Got(f) \/ Within(f.cells, buf)}
    /\ UNCHANGED <<config, port, buf, delivered, written, cleared>>

Plug ==
    /\ link = "uart" /\ wire = <<>>
    /\ plugged' = ~plugged
    /\ UNCHANGED <<config, rx, tried, buf, wire, delivered, written, intact, cleared>>
-----------------------------------------------------------------------------
(* rx_loop().                                                              *)

Read ==
    /\ rx = "run"
    /\ \E n \in 1..ReadMax :
         /\ n <= Len(wire)
         /\ LET data == SubSeq(wire, 1, n)
                fed == Feed(side, buf, data)
            IN  /\ buf' = fed.rest /\ delivered' = delivered \o fed.got
                /\ wire' = DropFirst(wire, n)
                /\ cleared' = (cleared \/ (side = "daemon" /\ buf # <<>> /\ Overflows(buf, data)))
    /\ UNCHANGED <<config, port, written, intact>>

\* read() returns 0: nothing came for VTIME, or the device is gone.  Either
\* way the loop takes it for the end of the file.
ReadsNothing ==
    /\ link = "uart" /\ rx = "run" /\ wire = <<>>
    /\ rx' = "ended"
    /\ UNCHANGED <<config, plugged, tried, buf, wire, delivered, written, intact, cleared>>

Next == StartDaemon \/ StartDriver \/ Stop \/ Write \/ Cut \/ Plug \/ Read \/ ReadsNothing
Spec == Init /\ [][Next]_linkVars
-----------------------------------------------------------------------------
\* A frame of the program's own coding that the line did not spoil is
\* delivered, or all of it is still on the way, whatever damaged frames, cut
\* connections and piecewise reads surround it: a rejected frame costs no
\* other.  Only the daemon's clearing of a full buffer may take one.
IntactFramesSurvive ==
    cleared \/ \A f \in intact : f.by = side => Got(f) \/ Within(f.cells, buf \o wire)

\* What the callback is handed are messages that were written, in the order of
\* writing and each once, however many frames are damaged and however the
\* stream is cut: no piece of the line is taken for a message, none is parsed
\* twice.  (Behind the sync bytes of a frame that was cut off, the driver may
\* take the daemon's own sync bytes for a header; the identity it then hands
\* over is a sync byte, which no handler knows.)
DeliveredInOrder ==
    LET messages == {i \in DOMAIN delivered : delivered[i] # Sync0[1]}
    IN  /\ \A i \in messages : delivered[i] \in Identity(1)..Identity(written)
        /\ \A i, j \in messages : i < j => delivered[i] < delivered[j]

\* What stays in the buffer is less than a frame, so that a serial port never
\* overflows it: a rest is thrown away on TCP only, whose reads are larger.
RestFits == Len(buf) < MaxFrame /\ (cleared => link = "tcp")

\* The two programs understand each other: a frame the line did not spoil is
\* delivered or still on the way, whichever of the two encode() wrote it.
FramesOfEitherSurvive ==
    cleared \/ \A f \in intact : Got(f) \/ Within(f.cells, buf \o wire)

\* The RX thread ends by itself only when the device was unplugged.
RxEndsOnlyUnplugged == [][rx' = "ended" /\ rx = "run" => ~plugged]_linkVars
=============================================================================
