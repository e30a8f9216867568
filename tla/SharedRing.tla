----------------------------- MODULE SharedRing -----------------------------
(***************************************************************************)
(* A ring in shared memory (src/crates/tpt-t-ring/src/shared.rs, sized by  *)
(* layout.rs; do_push and do_pop of spsc.rs): a producer process and a     *)
(* consumer process that may die at any step and attach again.  The region *)
(* outlives them; what a process had loaded does not.                      *)
(*                                                                         *)
(* SpscRing has the reordering of loads and the wrapping of the cursors;   *)
(* here loads are current and the cursors count on.                        *)
(***************************************************************************)
EXTENDS Naturals, Sequences

CONSTANTS
    RegionLen,      \* lengths of a shared-memory segment, in bytes
    SharedHeaderLen,      \* size_of::<SharedHeader>()
    CacheLine,      \* CACHE_LINE
    ItemLen,        \* size_of::<T>()
    MaxItems,       \* bound on the values offered
    MaxDeaths       \* bound on the processes that die

ASSUME SharedAssumption ==
    /\ RegionLen \subseteq Nat /\ SharedHeaderLen \in Nat /\ ItemLen \in Nat
    /\ CacheLine \in Nat \ {0}
    /\ MaxItems \in Nat /\ MaxDeaths \in Nat

DivCeil(a, b) == (a + b - 1) \div b
Pow2(n) == \E k \in 0 .. n : n = 2 ^ k

\* RingLayout::for_slots: where the slots start and how long one is.
SlotsOff == DivCeil(SharedHeaderLen, CacheLine) * CacheLine
SlotSize == DivCeil(IF ItemLen = 0 THEN 1 ELSE ItemLen, 8) * 8
TotalLen(cap) == SlotsOff + SlotSize * cap

\* floor_pow2, for at least one slot.
FloorPow2(n) == CHOOSE p \in 1 .. n : Pow2(p) /\ \A q \in p + 1 .. n : ~Pow2(q)

\* RingLayout::fit: the slots of a region that has room for one.
Fit(len) == FloorPow2((len - SlotsOff) \div SlotSize)

VARIABLES
    region,     \* the length of the segment
    hcap,       \* SharedSpsc.cap of both processes
    shead,      \* SharedHeader.head
    stail,      \* SharedHeader.tail
    scell,      \* the slots
    producer,   \* what the producer process does next, and with which value
    consumer,   \* what the consumer process does next, and with which value
    offered,    \* values the producer processes have offered
    sent,       \* values published, in order
    acked,      \* values push returned Ok for
    got,        \* values pop returned, in order
    perished,   \* values released by a consumer that died before pop returned
    deaths      \* processes that died

sharedVars == <<region, hcap, shead, stail, scell, producer, consumer, offered, sent, acked, got, perished, deaths>>

Idle == [at |-> "idle", value |-> 0]
Dead == [at |-> "dead", value |-> 0]

-----------------------------------------------------------------------------
\* SharedHeader::new, and both processes attached.
SharedInit ==
    /\ region \in {len \in RegionLen : len >= SlotsOff + SlotSize}
    /\ hcap = Fit(region)
    /\ shead = 0 /\ stail = 0
    /\ scell = [i \in 0 .. hcap - 1 |-> 0]
    /\ producer = Idle /\ consumer = Idle
    /\ offered = 0 /\ sent = << >> /\ acked = {} /\ got = << >> /\ perished = << >>
    /\ deaths = 0

\* RingLayout::validate: the layout of the ring is inside the region.
Validate == Pow2(hcap) /\ region >= TotalLen(hcap)

\* SharedSpsc::push, as do_push: claim, write, publish.
PushBegin ==
    /\ producer.at = "idle" /\ offered < MaxItems
    /\ offered' = offered + 1
    /\ producer' = IF stail - shead = hcap THEN producer ELSE [at |-> "write", value |-> offered + 1]
    /\ UNCHANGED <<region, hcap, shead, stail, scell, consumer, sent, acked, got, perished, deaths>>

PushCell ==
    /\ producer.at = "write"
    /\ scell' = [scell EXCEPT ![stail % hcap] = producer.value]
    /\ producer' = [producer EXCEPT !.at = "publish"]
    /\ UNCHANGED <<region, hcap, shead, stail, consumer, offered, sent, acked, got, perished, deaths>>

PushTail ==
    /\ producer.at = "publish"
    /\ stail' = stail + 1
    /\ sent' = Append(sent, producer.value)
    /\ producer' = [producer EXCEPT !.at = "return"]
    /\ UNCHANGED <<region, hcap, shead, scell, consumer, offered, acked, got, perished, deaths>>

PushReturn ==
    /\ producer.at = "return"
    /\ acked' = acked \cup {producer.value}
    /\ producer' = Idle
    /\ UNCHANGED <<region, hcap, shead, stail, scell, consumer, offered, sent, got, perished, deaths>>

\* SharedSpsc::pop, as do_pop: read, release, return.
PopCell ==
    /\ consumer.at = "idle" /\ shead # stail
    /\ consumer' = [at |-> "release", value |-> scell[shead % hcap]]
    /\ UNCHANGED <<region, hcap, shead, stail, scell, producer, offered, sent, acked, got, perished, deaths>>

PopHead ==
    /\ consumer.at = "release"
    /\ shead' = shead + 1
    /\ consumer' = [consumer EXCEPT !.at = "return"]
    /\ UNCHANGED <<region, hcap, stail, scell, producer, offered, sent, acked, got, perished, deaths>>

PopReturn ==
    /\ consumer.at = "return"
    /\ got' = Append(got, consumer.value)
    /\ consumer' = Idle
    /\ UNCHANGED <<region, hcap, shead, stail, scell, producer, offered, sent, acked, perished, deaths>>

\* The value a consumer has released the cell of and not returned.
InHand == IF consumer.at = "return" THEN <<consumer.value>> ELSE << >>

\* A process dies; what it had in hand is gone.
Die ==
    /\ deaths < MaxDeaths
    /\ deaths' = deaths + 1
    /\ \/ producer' = Dead /\ UNCHANGED <<consumer, perished>>
       \/ consumer' = Dead /\ perished' = perished \o InHand /\ UNCHANGED producer
    /\ UNCHANGED <<region, hcap, shead, stail, scell, offered, sent, acked, got>>

\* A mutated form: attaching constructs the header.
AttachFresh ==
    /\ \/ producer = Dead /\ producer' = Idle /\ UNCHANGED consumer
       \/ consumer = Dead /\ consumer' = Idle /\ UNCHANGED producer
    /\ shead' = 0 /\ stail' = 0
    /\ UNCHANGED <<region, hcap, scell, offered, sent, acked, got, perished, deaths>>

\* SharedSpsc::attach: the region as it is.
Attach ==
    /\ \/ producer = Dead /\ producer' = Idle /\ UNCHANGED consumer
       \/ consumer = Dead /\ consumer' = Idle /\ UNCHANGED producer
    /\ UNCHANGED <<region, hcap, shead, stail, scell, offered, sent, acked, got, perished, deaths>>

SharedNext == PushBegin \/ PushCell \/ PushTail \/ PushReturn \/ PopCell \/ PopHead \/ PopReturn \/ Die \/ Attach

SharedSpec == SharedInit /\ [][SharedNext]_sharedVars

-----------------------------------------------------------------------------
Values(s) == {s[i] : i \in 1 .. Len(s)}

\* The values published whose cell was released, by their number.
Released == Len(got) + Len(perished) + Len(InHand)

\* Whichever process dies at whichever step and attaches again, pop returns
\* values in the order they were published, none twice.  Every value released
\* was returned, is in the hand of the consumer, or was lost with one that
\* died after do_pop had stored the head and before it returned: one for a
\* death, and for no other reason.  The values not released are whole in their
\* cells, and what push confirmed was published.  The ring stays inside the
\* region that RingLayout::fit sized it for.
SharedExactlyOnce ==
    /\ \A i, j \in 1 .. Len(got) : i < j => got[i] < got[j]
    /\ Released <= Len(sent) /\ Len(perished) <= deaths
    /\ {sent[i] : i \in 1 .. Released} = Values(got) \cup Values(perished) \cup Values(InHand)
    /\ \A i \in Released + 1 .. Len(sent) : scell[(i - 1) % hcap] = sent[i]
    /\ acked \subseteq Values(sent)
    /\ Validate
=============================================================================
