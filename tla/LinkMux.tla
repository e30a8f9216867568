------------------------------ MODULE LinkMux ------------------------------
(***************************************************************************)
(* The UDP multiplexer (src/crates/tpt-t-link/src/mux.rs): six kinds of    *)
(* traffic framed onto one port, and the demultiplexer that takes them     *)
(* apart again, with the counters the network service keeps of what it     *)
(* refuses (drain_now in src/crates/tpt-t-link/src/service.rs).            *)
(*                                                                         *)
(* A datagram is its header fields, its payload and its trailer.  The      *)
(* checksum of crc.rs stands for what it covers: two contents that differ  *)
(* in one burst have different sums.  The network loses, repeats, reorders *)
(* and truncates datagrams and damages one field of them.                  *)
(***************************************************************************)
EXTENDS Integers, FiniteSets

CONSTANTS
    MaxPayload,     \* MAX_PAYLOAD, in units of a payload's length
    MaxFrames,      \* bound on the frames written
    MaxReceived     \* bound on the datagrams received

ASSUME MuxAssumption == MaxPayload \in Nat \ {0} /\ MaxFrames \in Nat /\ MaxReceived \in Nat

VARIABLES
    air,       \* datagrams on their way
    framed,     \* what was written: channel, flags and payload
    inbound,    \* what demux handed over
    stats,      \* LinkStats, receive side
    received    \* datagrams taken from the socket

muxVars == <<air, framed, inbound, stats, received>>

\* Channel::as_u8, the flag bits and the inner-channel tags.
Control == 1
Telemetry == 2
Ice == 4
Mesh == 5
Secure == 6
ACK == 1
RELIABLE == 2
InnerControl == 1
InnerTelemetry == 2

HasAck(flags) == flags % 2 = 1

-----------------------------------------------------------------------------
\* LinkStats::default, the counters of the receive side.
NoStats == [frames |-> 0, malformed |-> 0, crc |-> 0, rejected |-> 0]

\* UdpMux::bind_on, with nothing under way.
MuxInit ==
    /\ air = {} /\ framed = {} /\ inbound = {} /\ received = 0
    /\ stats = NoStats

\* A mutated form: the sum covers the payload alone.
PayloadSum(d) == [payload |-> d.payload]

\* crc32 over the header and the payload.
Crc32(d) ==
    [magic |-> d.magic, version |-> d.version, len |-> d.len, channel |-> d.channel,
     flags |-> d.flags, payload |-> d.payload]

\* write_header and finish_frame.
Framed(channel, flags, payload) ==
    LET content == [magic |-> "TPT", version |-> 1, len |-> payload.len, channel |-> channel,
                    flags |-> flags, payload |-> payload]
    IN  [magic |-> content.magic, version |-> content.version, len |-> content.len,
         channel |-> channel, flags |-> flags, payload |-> payload,
         size |-> payload.len, trailer |-> Crc32(content)]

\* The writers: write_control_frame, write_telemetry_frame, write_mesh_frame,
\* write_ack_frame, write_ice_frame and write_secure_frame.
Writer ==
    {<<Control, 0, "command">>, <<Control, RELIABLE, "command">>, <<Telemetry, 0, "telemetry">>,
     <<Mesh, 0, "beacon">>, <<Control, ACK, "ack">>, <<Ice, 0, "ice">>,
     <<Secure, InnerControl, "sealed">>, <<Secure, InnerTelemetry, "sealed">>}

\* The Inbound a datagram becomes: its channel, the RELIABLE and ACK bits or the
\* inner tag, and the payload.
Inbound(d) == [channel |-> d.channel, flags |-> d.flags, payload |-> d.payload]

\* What send_telemetry, send_ice, send_secure and their like put on the wire of
\* a framed datagram: nothing when the socket refuses it, or when it is
\* telemetry that the bandwidth estimator does not admit.
Transmitted(d) == {{}, {d}}

\* A writer frames a payload that fits and the service sends it; one that does
\* not fit is an error of the caller.
Write(w, len) ==
    /\ Cardinality(framed) < MaxFrames
    /\ len <= MaxPayload
    /\ LET payload == [kind |-> w[3], len |-> len]
       IN  /\ framed' = framed \cup {Inbound(Framed(w[1], w[2], payload))}
           /\ \E out \in Transmitted(Framed(w[1], w[2], payload)) : air' = air \cup out
    /\ UNCHANGED <<inbound, stats, received>>

\* The network damages one field of a datagram, or cuts it short.
Damaged(d) ==
    {[d EXCEPT !.magic = "other"], [d EXCEPT !.version = 2], [d EXCEPT !.size = @ - 1],
     [d EXCEPT !.payload.kind = "damaged"], [d EXCEPT !.trailer.payload.kind = "damaged"]}
    \cup {[d EXCEPT !.len = l] : l \in {d.len - 1, d.len + 1}}
    \cup {[d EXCEPT !.channel = c] : c \in 0 .. 7 \ {d.channel}}
    \cup {[d EXCEPT !.flags = f] : f \in 0 .. 3 \ {d.flags}}

\* Size, magic, version and declared length agree.
HeaderFits(d) == d.size >= 0 /\ d.magic = "TPT" /\ d.version = 1 /\ d.len = d.size

\* The channel is one demux takes and its payload parses: access_root and
\* command_crc for a command, access_root for telemetry, AckFrame::decode,
\* MeshBeacon::decode; ICE and sealed bytes are taken as they are.
PayloadParses(d) ==
    \/ d.channel = Control /\ d.payload.kind = IF HasAck(d.flags) THEN "ack" ELSE "command"
    \/ d.channel = Telemetry /\ d.payload.kind = "telemetry"
    \/ d.channel = Mesh /\ d.payload.kind = "beacon"
    \/ d.channel \in {Ice, Secure}

\* demux: the verdict on a datagram, checks in the order of the code.
Verdict(d) ==
    IF ~HeaderFits(d) THEN "malformed"
    ELSE IF Crc32(d) # d.trailer THEN "crc"
    ELSE IF PayloadParses(d) THEN "frames" ELSE "rejected"

\* recv_frame and drain_now: one datagram, handed over or counted as refused.
Receive(d) ==
    /\ received < MaxReceived
    /\ received' = received + 1
    /\ stats' = [stats EXCEPT ![Verdict(d)] = @ + 1]
    /\ inbound' = IF Verdict(d) # "frames" THEN inbound
                  ELSE inbound \cup {Inbound(d)}
    /\ UNCHANGED <<air, framed>>

\* A datagram arrives, perhaps damaged and perhaps not for the last time.
Arrive == \E d \in air : \E seen \in {d} \cup Damaged(d) : Receive(seen)

MuxNext ==
    \/ \E w \in Writer, len \in 0 .. MaxPayload + 1 : Write(w, len)
    \/ Arrive

MuxSpec == MuxInit /\ [][MuxNext]_muxVars

-----------------------------------------------------------------------------
(***************************************************************************)
(* Properties                                                              *)
(***************************************************************************)
\* Damage on the way never changes what a frame is: everything handed over
\* was written with that channel, those flags and that payload, so that no
\* command turns into an acknowledgement, no sealed envelope is opened under
\* the other inner tag; and every datagram taken from the socket is counted
\* exactly once.
DemuxedAsWritten ==
    /\ inbound \subseteq framed
    /\ received = stats.frames + stats.malformed + stats.crc + stats.rejected
=============================================================================
