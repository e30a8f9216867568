------------------------------- MODULE Fleet -------------------------------
(***************************************************************************)
(* The cloud side of many units (src/crates/tpt-t-cloud/src/fleet.rs,      *)
(* sfu.rs, recorder.rs): for every unit a session with the cloud's view of *)
(* its mode, a recording on disk and a fan-out of its frames to viewers.   *)
(*                                                                         *)
(* A frame is its sequence number and the length of its payload; a         *)
(* recording is a sequence of cells: the file header, one cell for the     *)
(* header of a frame, one per unit of payload.  The transport and the disk *)
(* may fail, and the process may stop and start again on the same files.   *)
(***************************************************************************)
EXTENDS Modes, Naturals, Sequences, FiniteSets

CONSTANTS
    Unit,           \* unit ids
    FleetOperator,  \* operators that may be assigned
    Nobody,         \* no operator, no session
    MaxViewers,     \* bound on the subscribers of a session
    ViewCap,        \* capacity of a viewer's ring
    FrameSeq,       \* sequence numbers units put on frames
    PayLen,         \* payload lengths
    MaxPayload,     \* MAX_PAYLOAD, MAX_MEDIA
    MaxCells,       \* bound on the length of a recording
    MaxFrames,      \* bound on the frames fanned out in a session
    MaxCommands     \* bound on the commands sent to a unit

ASSUME FleetAssumption ==
    /\ Nobody \notin FleetOperator
    /\ ViewCap \in Nat \ {0} /\ MaxViewers \in Nat /\ MaxPayload \in Nat
    /\ MaxCells \in Nat /\ MaxFrames \in Nat /\ MaxCommands \in Nat
    /\ FrameSeq \subseteq Nat \ {0} /\ PayLen \subseteq Nat

VARIABLES
    units,      \* Fleet.units: a session, or Nobody
    views,      \* the viewers' ends of the rings
    commanded,  \* commands handed to the transport in this session
    published,  \* frames given to SfuFanout::publish in this session
    disk,       \* recording files; they outlive the process
    stored,     \* frames whose record() on a file succeeded, in every session
    torn        \* a write to the recording, of its header or a frame, failed half-way

fleetVars == <<units, views, commanded, published, disk, stored, torn>>

Viewer == 1 .. MaxViewers       \* SubscriberId, as SfuFanout hands them out
RecorderKind == {"null", "file"}    \* with "null" for every recorder that keeps no file
UnitFrame == [seq : FrameSeq, len : PayLen]
\* Cells of a recording that are not the header of a frame, and a reading that fails.
FileHeader == [seq |-> 0, len |-> 1]
Payload == [seq |-> 0, len |-> 0]
ReadError == <<Payload>>
\* A file whose header was not written to its end.
HalfHeader == <<Payload>>
NoView == [held |-> FALSE, ring |-> << >>, got |-> << >>, since |-> 0, missed |-> 0]

\* UnitState as register_unit and provision build it, without what only the
\* dashboard shows (address, last sequence number, times).
NewUnit(rec) ==
    [mode |-> "Assist", operator |-> Nobody, cmdSeq |-> 0,
     rec |-> rec, frames |-> 0, subs |-> {}, next |-> 1]

\* What a session may hold.
Session ==
    [mode : Mode, operator : FleetOperator \cup {Nobody}, cmdSeq : Nat,
     rec : RecorderKind, frames : Nat, subs : SUBSET Viewer, next : Nat \ {0}]

ASSUME SessionAssumption == Nobody \notin Session

Known(u) == units[u] # Nobody

-----------------------------------------------------------------------------
\* Fleet::new
FleetInit ==
    /\ units = [u \in Unit |-> Nobody]
    /\ views = [u \in Unit |-> [v \in Viewer |-> NoView]]
    /\ commanded = [u \in Unit |-> << >>] /\ published = [u \in Unit |-> << >>]
    /\ disk = [u \in Unit |-> << >>] /\ stored = [u \in Unit |-> << >>]
    /\ torn = [u \in Unit |-> FALSE]

\* The server process ends and Fleet::new runs again: sessions, rings and
\* counters are gone, the files are not.
Restart ==
    /\ units' = [u \in Unit |-> Nobody]
    /\ views' = [u \in Unit |-> [v \in Viewer |-> NoView]]
    /\ commanded' = [u \in Unit |-> << >>] /\ published' = [u \in Unit |-> << >>]
    /\ UNCHANGED <<disk, stored, torn>>

\* A mutated form: every session starts with a header.
CreatedAgain(file) == Append(file, FileHeader)

\* FileRecorder::create: an empty file gets its header, another is appended to.
Created(file) == IF file = << >> THEN <<FileHeader>> ELSE file

\* FileRecorder::create for a caller of register_unit, when the disk takes a
\* part of the header: the caller gets the error, and the file is no longer
\* empty, so the next create will not write a header.
CreateFails(u) ==
    /\ ~Known(u) /\ disk[u] = << >> /\ MaxCells > 0
    /\ disk' = [disk EXCEPT ![u] = HalfHeader]
    /\ torn' = [torn EXCEPT ![u] = TRUE]
    /\ UNCHANGED <<units, views, commanded, published, stored>>

\* register_unit with the caller's recorder; a known unit is refused.
RegisterUnit(u, rec) ==
    /\ ~Known(u)
    /\ units' = [units EXCEPT ![u] = NewUnit(rec)]
    /\ disk' = IF rec = "file" THEN [disk EXCEPT ![u] = Created(@)] ELSE disk
    /\ UNCHANGED <<views, commanded, published, stored, torn>>

\* assign
Assign(u, op) ==
    /\ Known(u)
    /\ units' = [units EXCEPT ![u].operator = op]
    /\ UNCHANGED <<views, commanded, published, disk, stored, torn>>

-----------------------------------------------------------------------------
\* path_via: the modes to go through, or no path.
PathExists(f, t) ==
    \/ f = t \/ Allows(f, t)
    \/ f # "Assist" /\ t # "Assist" /\ Allows(f, "Assist") /\ Allows("Assist", t)

PathVia(f, t) ==
    IF f = t THEN << >> ELSE IF Allows(f, t) THEN <<t>> ELSE <<"Assist", t>>

\* make_command for the i-th segment of a path, n commands into the session.
Segment(path, n, i) == [mode |-> path[i], seq |-> n + i - 1]

\* send_command of the transports, per segment until the first that fails: how
\* many of a path's commands go out.
SendOutcome(path) == 0 .. Len(path)

\* A mutated form: the view of the mode is updated before the send, and keeps
\* the mode of the segment that failed.
SetModeEager(u, target) ==
    /\ Known(u) /\ PathExists(units[u].mode, target)
    /\ LET path == PathVia(units[u].mode, target)
           n == units[u].cmdSeq
       IN /\ n + Len(path) <= MaxCommands
          /\ \E k \in SendOutcome(path) :
                /\ commanded' = [commanded EXCEPT ![u] = @ \o [i \in 1 .. k |-> Segment(path, n, i)]]
                /\ units' = [units EXCEPT ![u].cmdSeq = n + k,
                                ![u].mode = IF path = << >> THEN @ ELSE path[IF k < Len(path) THEN k + 1 ELSE k]]
    /\ UNCHANGED <<views, published, disk, stored, torn>>

\* set_mode (and engage_autonomy, take_manual_control): one command per
\* segment; an error leaves the unit where the segments before it took it.
SetMode(u, target) ==
    /\ Known(u) /\ PathExists(units[u].mode, target)
    /\ LET path == PathVia(units[u].mode, target)
           n == units[u].cmdSeq
       IN /\ n + Len(path) <= MaxCommands
          /\ \E k \in SendOutcome(path) :
                /\ commanded' = [commanded EXCEPT ![u] = @ \o [i \in 1 .. k |-> Segment(path, n, i)]]
                /\ units' = [units EXCEPT ![u].cmdSeq = n + k,
                                          ![u].mode = IF k = 0 THEN @ ELSE path[k]]
    /\ UNCHANGED <<views, published, disk, stored, torn>>

-----------------------------------------------------------------------------
\* A mutated form: the loop over the subscribers ends at the first full ring.
PublishedUntilFull(u, subs, f) ==
    [v \in Viewer |->
       IF v \notin subs \/ ~views[u][v].held THEN views[u][v]
       ELSE IF \A w \in 1 .. v : w \in subs => Len(views[u][w].ring) < ViewCap
            THEN [views[u][v] EXCEPT !.ring = Append(@, f)]
       ELSE IF Len(views[u][v].ring) < ViewCap THEN views[u][v]
       ELSE [views[u][v] EXCEPT !.missed = @ + 1]]

\* SfuFanout::publish: a copy into the ring of every subscriber that still
\* holds it; a full ring drops the frame for that subscriber alone.
Published(u, subs, f) ==
    [v \in Viewer |->
       IF v \notin subs \/ ~views[u][v].held THEN views[u][v]
       ELSE IF Len(views[u][v].ring) < ViewCap THEN [views[u][v] EXCEPT !.ring = Append(@, f)]
       ELSE [views[u][v] EXCEPT !.missed = @ + 1]]

\* MediaFrame::new: the payload truncated to MAX_MEDIA.
MediaFrame(f) == [f EXCEPT !.len = IF @ > MaxPayload THEN MaxPayload ELSE @]

\* FileRecorder::record: the header of the frame, and then its payload.
Encoded(f) == <<f>> \o [i \in 1 .. f.len |-> Payload]

\* provision: a known unit keeps its session, an unknown one gets a new one,
\* without a recording when the file cannot be made.
Provisioned(u, rec) == IF Known(u) THEN units[u] ELSE NewUnit(rec)

\* ingest, when record() succeeds: the frame is in the file and fanned out,
\* and subscribers that let go of their ring are forgotten.  `half`: provision
\* could not make the file, and left a part of its header behind.
Ingest(u, f) == \E rec \in RecorderKind, half \in BOOLEAN :
    LET s == Provisioned(u, rec)
        file == IF half THEN HalfHeader
                ELSE IF s.rec = "file" /\ ~Known(u) THEN Created(disk[u]) ELSE disk[u]
        toFile == s.rec = "file"
    IN  /\ half => ~Known(u) /\ rec = "null" /\ disk[u] = << >>
        /\ toFile => f.len <= MaxPayload
        /\ Len(file) + 1 + f.len <= MaxCells /\ Len(published[u]) < MaxFrames
        /\ units' = [units EXCEPT ![u] = [s EXCEPT !.frames = @ + 1,
                                                     !.subs = {v \in @ : views[u][v].held}]]
        /\ views' = [views EXCEPT ![u] = Published(u, s.subs, MediaFrame(f))]
        /\ published' = [published EXCEPT ![u] = Append(@, MediaFrame(f))]
        /\ disk' = [disk EXCEPT ![u] = IF toFile THEN file \o Encoded(f) ELSE file]
        /\ stored' = IF toFile THEN [stored EXCEPT ![u] = Append(@, f)] ELSE stored
        /\ torn' = [torn EXCEPT ![u] = @ \/ half]
        /\ UNCHANGED commanded

\* ingest, when record() refuses a payload that is too long or the disk takes
\* only the first k cells: the error is returned before the frame is fanned out.
IngestFails(u, f) ==
    LET s == Provisioned(u, "file")
        file == IF Known(u) THEN disk[u] ELSE Created(disk[u])
    IN  /\ s.rec = "file" /\ Len(file) + f.len <= MaxCells
        /\ \E k \in 0 .. (IF f.len > MaxPayload THEN 0 ELSE f.len) :
             /\ disk' = [disk EXCEPT ![u] = file \o SubSeq(Encoded(f), 1, k)]
             /\ torn' = [torn EXCEPT ![u] = @ \/ k > 0]
        /\ units' = [units EXCEPT ![u] = s]
        /\ UNCHANGED <<views, commanded, published, stored>>

\* attach_subscriber, SfuFanout::subscribe
AttachSubscriber(u) ==
    /\ Known(u) /\ units[u].next \in Viewer
    /\ units' = [units EXCEPT ![u].subs = @ \cup {units[u].next}, ![u].next = @ + 1]
    /\ views' = [views EXCEPT ![u][units[u].next] =
                    [NoView EXCEPT !.held = TRUE, !.since = Len(published[u])]]
    /\ UNCHANGED <<commanded, published, disk, stored, torn>>

\* SfuFanout::unsubscribe: the viewer keeps what is in its ring.
Unsubscribe(u, v) ==
    /\ Known(u) /\ v \in units[u].subs
    /\ units' = [units EXCEPT ![u].subs = @ \ {v}]
    /\ UNCHANGED <<views, commanded, published, disk, stored, torn>>

\* A viewer drops its end of the ring.
LetGo(u, v) ==
    /\ views[u][v].held
    /\ views' = [views EXCEPT ![u][v].held = FALSE]
    /\ UNCHANGED <<units, commanded, published, disk, stored, torn>>

\* A viewer pops a frame.
View(u, v) ==
    /\ views[u][v].held /\ views[u][v].ring # << >>
    /\ views' = [views EXCEPT ![u][v].got = Append(@, Head(views[u][v].ring)),
                              ![u][v].ring = Tail(@)]
    /\ UNCHANGED <<units, commanded, published, disk, stored, torn>>

FleetNext ==
    \/ Restart
    \/ \E u \in Unit :
          \/ CreateFails(u)
          \/ \E rec \in RecorderKind : RegisterUnit(u, rec)
          \/ \E op \in FleetOperator : Assign(u, op)
          \/ \E m \in Mode : SetMode(u, m)
          \/ \E f \in UnitFrame : Ingest(u, f) \/ IngestFails(u, f)
          \/ AttachSubscriber(u)
          \/ \E v \in Viewer : Unsubscribe(u, v) \/ LetGo(u, v) \/ View(u, v)

FleetSpec == FleetInit /\ [][FleetNext]_fleetVars

-----------------------------------------------------------------------------
(* Properties.                                                             *)

\* "Commands a unit into `target` mode, enforcing the transition table. Staged
\* paths emit one command per segment" (fleet.rs, doc of set_mode): with sends
\* that fail between two segments, and calls that go on from there, the
\* commands a unit was sent are numbered without a gap, each is a legal
\* transition from the one before, and the last is the mode the cloud shows.
CommandsReplayMode ==
    \A u \in Unit : Known(u) =>
       LET modeAfter(i) == IF i = 0 THEN "Assist" ELSE commanded[u][i].mode IN
       /\ \A i \in DOMAIN commanded[u] :
             /\ commanded[u][i].seq = i - 1
             /\ Allows(modeAfter(i - 1), commanded[u][i].mode)
       /\ units[u].mode = modeAfter(Len(commanded[u]))

\* s is p with some elements left out: at[i] is where p has the i-th of s.
IsSubsequence(s, p) ==
    \E at \in [DOMAIN s -> DOMAIN p] :
       /\ \A i, j \in DOMAIN s : i < j => at[i] < at[j]
       /\ \A i \in DOMAIN s : s[i] = p[at[i]]

\* "one slow viewer never stalls the publisher or other viewers" (sfu.rs, doc
\* of subscribe): a viewer that is attached has received, or finds in its
\* ring, the frames published since it attached, in order, all but the ones
\* that met its own ring full.
FanOutExact ==
    \A u \in Unit : Known(u) => \A v \in units[u].subs :
       LET w == views[u][v]
           seen == w.got \o w.ring
           offered == SubSeq(published[u], w.since + 1, Len(published[u]))
       IN  w.held => /\ Len(seen) + w.missed = Len(offered)
                     /\ IsSubsequence(seen, offered)

\* read_frames, from the cell at i on.
ReadFrames(file) ==
    LET from[i \in 1 .. Len(file) + 1] ==
          IF i > Len(file) THEN << >>
          ELSE IF file[i] \notin UnitFrame \/ i + file[i].len > Len(file) THEN ReadError
          ELSE <<file[i]>> \o from[i + 1 + file[i].len]
    IN  IF file = << >> THEN << >> ELSE IF file[1] # FileHeader THEN ReadError ELSE from[2]

\* "so sessions can be replayed or audited offline" (recorder.rs): over
\* restarts that append to the file, payloads that are refused and disks that
\* refuse a whole frame, a recording reads back as the frames that were
\* recorded.  A write that fails half-way is the one exception: the header of a
\* frame it leaves takes the next frame for its payload, and a half header of
\* the file is never completed.
RecordingReadsBack ==
    \A u \in Unit : ~torn[u] => ReadFrames(disk[u]) = stored[u]
=============================================================================
