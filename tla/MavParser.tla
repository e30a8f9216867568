----------------------------- MODULE MavParser -----------------------------
(***************************************************************************)
(* The streaming MAVLink parser (src/crates/tpt-t-hal/src/mavlink.rs).     *)
(* Bytes come from a serial line one at a time, with noise between and     *)
(* inside the frames; the parser captures from a magic byte until the      *)
(* length in the second byte is reached, and starts over at a magic byte   *)
(* in between.                                                             *)
(*                                                                         *)
(* Bytes are small numbers, the two largest of them the magic bytes.  A    *)
(* header is shortened to the bytes the parser looks at: magic, length,    *)
(* for version 2 the flags, and the message id; checksum and signature are *)
(* a byte each.  The checksum is the parity of header and payload.         *)
(***************************************************************************)
EXTENDS Integers, Sequences, SequencesExt

CONSTANTS
    Dialect,        \* payload length of the known message ids
    BufferLen,      \* capacity of the capture buffer
    MaxStream       \* bound on the bytes received

\* MAVLINK_1_MAGIC and MAVLINK_2_MAGIC, and the bytes below them.
Magic1 == 2
Magic2 == 3
Byte == 0 .. Magic2

ASSUME ParserAssumption ==
    /\ DOMAIN Dialect \subseteq Byte /\ MaxStream \in Nat
    /\ BufferLen \in Nat /\ BufferLen >= 4 + Magic2 + 2     \* the longest frame fits

VARIABLES
    captured,       \* buf[..len]
    stream,         \* history: the bytes received
    emitted         \* the frame the last byte completed, << >> when none

parserVars == <<captured, stream, emitted>>

IsMagic(b) == b \in {Magic1, Magic2}

-----------------------------------------------------------------------------
\* MavParser::new.
ParserInit == captured = << >> /\ stream = << >> /\ emitted = << >>

\* Bytes before the payload.
HeaderLen(buf) == IF buf[1] = Magic1 THEN 3 ELSE 4

\* A version 2 frame whose flags announce a signature.
Signed(buf) == buf[1] = Magic2 /\ buf[3] % 2 = 1

\* frame_len.
FrameLen(buf) == HeaderLen(buf) + buf[2] + 1 + (IF Signed(buf) THEN 1 ELSE 0)

\* mav_crc16 over everything between the magic byte and the checksum.
Crc(buf) == FoldLeft(LAMBDA sum, b : (sum + b) % 2, 0,
                     SubSeq(buf, 2, HeaderLen(buf) + buf[2]))

\* parse_frame: the checksum is compared for known ids of the known length.
ParseFrame(buf) ==
    LET id == buf[HeaderLen(buf)]
    IN  id \in DOMAIN Dialect /\ Dialect[id] = buf[2]
            => buf[HeaderLen(buf) + buf[2] + 1] = Crc(buf)

\* A mutated form: a magic byte inside a frame is captured like any other.
RestartsIdle(b) == IsMagic(b) /\ captured = << >>

\* A magic byte in the middle of a frame starts a new one; the byte after a
\* magic byte is always taken for a length.
Restarts(b) == IsMagic(b) /\ Len(captured) # 1

\* The length of the frame being captured is known and reached.
Complete(buf) ==
    /\ Len(buf) >= 2
    /\ buf[1] = Magic2 => Len(buf) >= 3
    /\ Len(buf) >= FrameLen(buf)

\* feed.  A frame that fails its checksum stays captured until the next magic
\* byte, or until the buffer is full.
Feed(b) ==
    /\ Len(stream) < MaxStream
    /\ stream' = Append(stream, b)
    /\ LET buf == Append(captured, b)
       IN  \/ /\ Restarts(b)
              /\ captured' = <<b>> /\ emitted' = << >>
           \/ /\ ~Restarts(b) /\ (captured = << >> \/ Len(captured) >= BufferLen)
              /\ captured' = << >> /\ emitted' = << >>
           \/ /\ ~Restarts(b) /\ captured # << >> /\ Len(captured) < BufferLen
              /\ IF Complete(buf) /\ ParseFrame(SubSeq(buf, 1, FrameLen(buf)))
                 THEN emitted' = SubSeq(buf, 1, FrameLen(buf)) /\ captured' = << >>
                 ELSE emitted' = << >> /\ captured' = buf

ParserNext == \E b \in Byte : Feed(b)

ParserSpec == ParserInit /\ [][ParserNext]_parserVars

-----------------------------------------------------------------------------
(***************************************************************************)
(* Properties                                                              *)
(***************************************************************************)
\* The last n bytes received.
LastBytes(n) == SubSeq(stream, Len(stream) - n + 1, Len(stream))

\* A whole frame, sound and without a magic byte after its first.
CleanFrame(f) ==
    /\ Len(f) >= 4 /\ IsMagic(f[1])
    /\ \A i \in 2 .. Len(f) : ~IsMagic(f[i])
    /\ Len(f) = FrameLen(f) /\ ParseFrame(f)

\* Whatever noise went before, a frame without inner magic bytes is emitted
\* with its last byte, unless the byte before it was itself a magic byte;
\* and what is emitted is the tail of the stream from a magic byte on, so no
\* frame is put together from the pieces of two.
CleanFramesEmitted ==
    /\ \A n \in 4 .. Len(stream) :
           CleanFrame(LastBytes(n)) /\ (n = Len(stream) \/ ~IsMagic(stream[Len(stream) - n]))
               => emitted = LastBytes(n)
    /\ emitted # << >> =>
           /\ IsMagic(emitted[1])
           /\ Len(emitted) <= Len(stream) /\ emitted = LastBytes(Len(emitted))
=============================================================================
