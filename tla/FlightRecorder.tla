--------------------------- MODULE FlightRecorder ---------------------------
(***************************************************************************)
(* The flight data recorder of tpt-t-analytics                             *)
(* (src/crates/tpt-t-analytics/src/record.rs and direct_io.rs): the        *)
(* control loop offers records to a ring and never waits, a storage thread *)
(* drains the ring into a file that is written in whole sectors, and a     *)
(* stop flag ends the thread with an end marker and a padded last sector.  *)
(*                                                                         *)
(* Bytes are counted in units, small enough for a record to straddle       *)
(* sectors as it does in the program (528 bytes in sectors of 4096).  The  *)
(* ring is the queue of SpscRingProofs (ImplementsFifo).                   *)
(***************************************************************************)
EXTENDS Naturals, Sequences

CONSTANTS
    RecRingCap,     \* capacity of the ring
    EntryLen,       \* units of an FdrEntry
    SectorLen,      \* units of a sector (SECTOR_SIZE)
    MaxRecords      \* bound on the records accepted

ASSUME RecorderAssumption ==
    /\ RecRingCap \in Nat \ {0} /\ EntryLen \in Nat \ {0}
    /\ SectorLen \in Nat \ {0} /\ MaxRecords \in Nat

VARIABLES
    recRing,    \* the ring: records accepted and not drained
    accepted,   \* try_record calls that returned Ok; they carry 1, 2, ...
    stop,       \* the stop flag
    wpc,        \* storage thread: "drain", "check", "end", "flush", "done", "failed"
    busy,       \* the drain_once in progress wrote something (n > 0)
    staging,    \* units in the staging buffer of the DirectFile
    disk        \* units in the file

recVars == <<recRing, accepted, stop, wpc, busy, staging, disk>>

EndMark == 0
\* Units of an entry: its record and the place in it.  Padding is a zero unit,
\* and an entry of zero units has the kind of a control record.
Unit(r, i) == [record |-> r, part |-> i]
Pad == Unit(MaxRecords + 1, 0)
Entry(r) == [i \in 1 .. EntryLen |-> Unit(r, i)]

-----------------------------------------------------------------------------
\* Recorder::open
RecInit ==
    /\ recRing = << >> /\ accepted = 0 /\ stop = FALSE
    /\ wpc = "drain" /\ busy = FALSE
    /\ staging = << >> /\ disk = << >>

\* FdrSink::try_record; a full ring sheds the record, which is no step.
\* stop_and_join and drop take the recorder, and with it the sink.
TryRecord ==
    /\ ~stop /\ accepted < MaxRecords
    /\ Len(recRing) < RecRingCap
    /\ accepted' = accepted + 1
    /\ recRing' = Append(recRing, accepted + 1)
    /\ UNCHANGED <<stop, wpc, busy, staging, disk>>

\* Recorder::stop_and_join, or its drop.
StopAndJoin ==
    /\ ~stop
    /\ stop' = TRUE
    /\ UNCHANGED <<recRing, accepted, wpc, busy, staging, disk>>

\* DirectFile::write(data): stage, and hand every whole sector to the kernel.
Whole(b) == (Len(b) \div SectorLen) * SectorLen

FileWrite(data) ==
    LET b == staging \o data IN
    /\ disk' = disk \o SubSeq(b, 1, Whole(b))
    /\ staging' = SubSeq(b, Whole(b) + 1, Len(b))

\* A write_block that fails ends run() with its error; what the kernel took
\* before stays in the file, what is staged is dropped.
FileFail(b) ==
    /\ \E k \in 0 .. Whole(b) - 1 : disk' = disk \o SubSeq(b, 1, k)
    /\ wpc' = "failed"
    /\ UNCHANGED staging

\* drain_once: one round of its loop.
DrainPop ==
    /\ wpc = "drain" /\ recRing # << >>
    /\ recRing' = Tail(recRing)
    /\ \/ FileWrite(Entry(Head(recRing))) /\ UNCHANGED wpc
       \/ FileFail(staging \o Entry(Head(recRing)))
    /\ busy' = TRUE
    /\ UNCHANGED <<accepted, stop>>

\* A mutated form: the count of drained frames is not reset between drains.
DrainEmptyCounting ==
    /\ wpc = "drain" /\ recRing = << >>
    /\ wpc' = IF busy THEN "drain" ELSE "check"
    /\ UNCHANGED <<recRing, accepted, stop, busy, staging, disk>>

\* drain_once finds the ring empty; run() drains again if it wrote something.
DrainEmpty ==
    /\ wpc = "drain" /\ recRing = << >>
    /\ wpc' = IF busy THEN "drain" ELSE "check"
    /\ busy' = FALSE
    /\ UNCHANGED <<recRing, accepted, stop, staging, disk>>

\* run(): stop.load; otherwise sleep and drain again.
CheckStop ==
    /\ wpc = "check"
    /\ wpc' = IF stop THEN "end" ELSE "drain"
    /\ UNCHANGED <<recRing, accepted, stop, busy, staging, disk>>

\* A mutated form: the stream is closed without an end marker.
NoEndMarker ==
    /\ wpc = "end"
    /\ wpc' = "flush"
    /\ UNCHANGED <<recRing, accepted, stop, busy, staging, disk>>

\* run(): the end marker.
WriteEnd ==
    /\ wpc = "end"
    /\ \/ FileWrite(Entry(EndMark)) /\ wpc' = "flush"
       \/ FileFail(staging \o Entry(EndMark))
    /\ UNCHANGED <<recRing, accepted, stop, busy>>

\* DirectFile::flush: the last sector, zero-padded, and the file is closed.
Flush ==
    /\ wpc = "flush"
    /\ LET b == staging \o [i \in 1 .. SectorLen - Len(staging) |-> Pad] IN
       \/ /\ disk' = IF staging = << >> THEN disk ELSE disk \o b
          /\ staging' = << >>
          /\ wpc' = "done"
       \/ staging # << >> /\ FileFail(b)
    /\ UNCHANGED <<recRing, accepted, stop, busy>>

Storage == DrainPop \/ DrainEmpty \/ CheckStop \/ WriteEnd \/ Flush

RecNext == TryRecord \/ StopAndJoin \/ Storage

\* The storage thread is a thread of its own that the scheduler does run.
RecFair == WF_recVars(Storage)

RecSpec == RecInit /\ [][RecNext]_recVars /\ RecFair

-----------------------------------------------------------------------------
(* Properties.                                                             *)

\* parse_entries: whole entries up to the first that carries the end marker.
\* The kind is in the first unit of an entry.
Slice(i) == SubSeq(disk, (i - 1) * EntryLen + 1, i * EntryLen)

Parsed ==
    LET ended(i) == \E j \in 1 .. i : Slice(j)[1] = Unit(EndMark, 1)
        frames == {i \in 1 .. Len(disk) \div EntryLen : ~ended(i)}
    IN  [i \in frames |-> Slice(i)]

\* "Parses a raw FDR byte stream back into frames, stopping at the end marker
\* or on truncation" (record.rs, doc of parse_entries): whenever the recorder
\* or its machine stops, in the middle of a sector or after the padding of the
\* last one, the file parses to the first records that were accepted, whole
\* and in order, and to nothing else; and a thread that ended without an error
\* put every record it took out of the ring into the file: nothing is left
\* behind in the staging buffer.
FileIsPrefix ==
    /\ Len(Parsed) <= accepted
    /\ \A i \in 1 .. Len(Parsed) : Parsed[i] = Entry(i)
    /\ wpc = "done" => Len(Parsed) + Len(recRing) = accepted

\* "Signals the storage thread to stop and waits for it to flush" (record.rs,
\* doc of stop_and_join): a stopped recorder's thread ends.
StopJoins == stop ~> wpc \in {"done", "failed"}

\* "Stops the thread and flushes the file" (record.rs, doc of Recorder), of
\* the records that were accepted before the stop.  It fails: the thread finds
\* the ring empty, a record is accepted, the flag is set, and the thread reads
\* the flag without looking at the ring again.
AcceptedIsFlushed == wpc = "done" => Len(Parsed) = accepted
=============================================================================
