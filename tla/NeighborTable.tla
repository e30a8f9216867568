--------------------------- MODULE NeighborTable ---------------------------
(***************************************************************************)
(* The neighbor table of the mesh (src/crates/tpt-t-link/src/mesh.rs) and  *)
(* the two places of the network service that change it                    *)
(* (src/crates/tpt-t-link/src/service.rs): a beacon that arrives, and the  *)
(* heartbeat that sends a round of beacons and drops silent neighbors.     *)
(*                                                                         *)
(* The table is open-addressed with linear probing: a unit belongs in the  *)
(* first free slot from its home slot on, and a lookup stops at the first  *)
(* free slot.  Only differences of times are ever used, so an entry holds  *)
(* its ages, which stop growing once they are past every limit.            *)
(* Beacons of any unit arrive in any order, again and again, from either   *)
(* of its addresses and with any time stamp: the network is not trusted.   *)
(***************************************************************************)
EXTENDS Integers, FiniteSets, FiniteSetsExt

CONSTANTS
    Neighbor,       \* unit ids
    Address,        \* socket addresses
    TableCap,       \* slots of the table
    HomeSlot,       \* probe_start(unit) % cap
    SeqMod,         \* width of the beacon sequence: 2^32 in the program
    Ttl,            \* mesh_ttl_ns
    FlapCooldown,   \* flap_cooldown_ns
    MaxSkew,        \* max_clock_skew_ns
    BeaconPeers,    \* addresses the service is configured to call (beacon_peers)
    Vacant          \* what an empty slot holds

ASSUME TableAssumption ==
    /\ TableCap \in Nat \ {0}
    /\ HomeSlot \in [Neighbor -> 0 .. TableCap - 1]
    /\ SeqMod \in Nat \ {0} /\ SeqMod % 2 = 0
    /\ Ttl \in Nat /\ FlapCooldown \in Nat /\ MaxSkew \in Nat
    /\ BeaconPeers \subseteq Address

VARIABLES
    slots,      \* NeighborTable.slots
    len,        \* NeighborTable.len
    beaconSeq,  \* ServiceCore.beacon_seq
    calls       \* addresses sent a beacon by the last step

tableVars == <<slots, len, beaconSeq, calls>>

Index    == 0 .. TableCap - 1
Age      == 0 .. (IF Ttl > FlapCooldown THEN Ttl ELSE FlapCooldown) + 1
Occupied(t) == {i \in Index : t[i] # Vacant}

NeighborEntry ==
    [unit : Neighbor, addr : Address, seq : 0 .. SeqMod - 1, seen : Age, flap : Age]

ASSUME VacantAssumption == Vacant \notin NeighborEntry

TableTypeOK ==
    /\ slots \in [Index -> NeighborEntry \cup {Vacant}]
    /\ len \in 0 .. TableCap
    /\ beaconSeq \in 0 .. SeqMod - 1
    /\ calls \subseteq Address

-----------------------------------------------------------------------------
\* NeighborTable::with_config.
TableInit ==
    /\ slots = [i \in Index |-> Vacant]
    /\ len = 0 /\ beaconSeq = 0 /\ calls = {}

\* The slot `k` places after the home slot of `u`.
ProbeAt(u, k) == (HomeSlot[u] + k) % TableCap

\* How far a probe for `u` goes: to the entry of `u` or to the first hole.
ProbeStops(u) ==
    {k \in Index : slots[ProbeAt(u, k)] = Vacant \/ slots[ProbeAt(u, k)].unit = u}

\* find: the entry of `u`, or Vacant.
Find(u) ==
    IF ProbeStops(u) = {} THEN Vacant ELSE slots[ProbeAt(u, Min(ProbeStops(u)))]

\* seq.wrapping_sub(last_seq) as i32 > 0.
Advanced(seq, last) == (seq - last) % SeqMod \in 1 .. SeqMod \div 2 - 1

\* A mutated form: the probe goes on past a hole and takes the last match.
LastTarget(u) == ProbeAt(u, Max(ProbeStops(u)))

\* The slot a beacon of `u` refreshes or fills.
Target(u) == ProbeAt(u, Min(ProbeStops(u)))

\* The entry after a beacon for it, and whether the beacon is answered.
Refreshed(e, addr, seq) ==
    LET moved  == addr # e.addr
        steady == moved /\ e.flap < FlapCooldown    \* a flapping address: kept
        newer  == IF Advanced(seq, e.seq) THEN seq ELSE e.seq
    IN  CASE steady -> [entry |-> [e EXCEPT !.seen = 0], answer |-> FALSE]
          [] moved /\ ~steady ->
               [entry |-> [e EXCEPT !.addr = addr, !.flap = 0, !.seen = 0, !.seq = newer],
                answer |-> TRUE]
          [] OTHER -> [entry |-> [e EXCEPT !.seen = 0, !.seq = newer],
                       answer |-> Advanced(seq, e.seq)]

\* observe, and the beacon the service sends back when it returns true.
Observe(u, addr, seq, skew) ==
    /\ skew <= MaxSkew              \* else the beacon is dropped
    /\ ProbeStops(u) # {}           \* else the table is full: ignored
    /\ LET at   == Target(u)
           kept == Refreshed(slots[at], addr, seq)
       IN  IF slots[at] = Vacant
           THEN /\ slots' = [slots EXCEPT ![at] =
                        [unit |-> u, addr |-> addr, seq |-> seq, seen |-> 0, flap |-> 0]]
                /\ len' = len + 1
                /\ calls' = {addr}
           ELSE /\ slots' = [slots EXCEPT ![at] = kept.entry]
                /\ calls' = IF kept.answer THEN {addr} ELSE {}
                /\ UNCHANGED len
    /\ UNCHANGED beaconSeq

\* The entries expire drops.
Silent == {i \in Occupied(slots) : slots[i].seen > Ttl}

\* beacon_fanout: the configured peers and every neighbor get a beacon.
Fanout == BeaconPeers \cup {slots[i].addr : i \in Occupied(slots)}

\* background, when a beacon is due: beacon_fanout, then expire.
Heartbeat ==
    /\ beaconSeq' = (beaconSeq + 1) % SeqMod
    /\ calls' = Fanout
    /\ slots' = [i \in Index |-> IF i \in Silent THEN Vacant ELSE slots[i]]
    /\ len' = len - Cardinality(Silent)

\* Time passes.
Older(age) == IF age = Max(Age) THEN age ELSE age + 1

TimePasses ==
    /\ slots' = [i \in Index |->
           IF slots[i] = Vacant THEN Vacant
           ELSE [slots[i] EXCEPT !.seen = Older(@), !.flap = Older(@)]]
    /\ calls' = {}
    /\ UNCHANGED <<len, beaconSeq>>

TableNext ==
    \/ \E u \in Neighbor, a \in Address, s \in 0 .. SeqMod - 1, skew \in 0 .. MaxSkew + 1 :
           Observe(u, a, s, skew)
    \/ Heartbeat
    \/ TimePasses

TableSpec == TableInit /\ [][TableNext]_tableVars

-----------------------------------------------------------------------------
(***************************************************************************)
(* Properties                                                              *)
(***************************************************************************)
\* Expiry leaves holes in the middle of a probe chain, so a unit can be in
\* the table twice and an entry can be out of find's reach.  Whatever find
\* returns is nevertheless the entry that heard from the unit last, and len
\* counts the occupied slots: a stale address never hides a newer one.
FindFreshest ==
    /\ len = Cardinality(Occupied(slots))
    /\ \A i \in Occupied(slots) :
           LET found == Find(slots[i].unit)
           IN  found # Vacant => found.seen <= slots[i].seen

\* What the comment in find says of a hole ("probe chain would have held it
\* here"): every entry of the table is the one find returns for its unit.
\* It does not hold once expire has emptied a slot inside a probe chain.
ChainHoldsIt == \A i \in Occupied(slots) : Find(slots[i].unit) = slots[i]
=============================================================================
