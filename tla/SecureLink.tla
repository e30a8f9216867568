----------------------------- MODULE SecureLink -----------------------------
(***************************************************************************)
(* The secure sessions of tpt-t-sec between units that follow the          *)
(* protocol (src/crates/tpt-t-sec/src/session.rs, cipher.rs, identity.rs,  *)
(* link.rs): a two-message handshake with signed one-time keys, an AEAD    *)
(* box with a counter for a nonce, and the datagrams sealed with it.       *)
(*                                                                         *)
(* The cryptography is external and ideal: a signature verifies when the   *)
(* named unit made it, two one-time keys give one shared key, and a box    *)
(* opens what was sealed under the same key and suite with the same        *)
(* associated data.  The four random bytes of a box's salt are taken to    *)
(* differ from box to box.  Messages may be delayed, reordered, repeated   *)
(* and lost, and a unit may try again at any time.                         *)
(***************************************************************************)
EXTENDS Naturals, Sequences, FiniteSets

CONSTANTS
    Peer,           \* unit ids
    Suites,         \* CipherSuite::all(), most preferred first
    Offers,         \* what an initiator may offer: sets of suites
    Supported,      \* what a responder may support: lists of suites, best first
    NoSession,
    BlockCap,       \* capacity of the ring the plaintext goes to
    MaxEph,         \* bound on the one-time keys made
    MaxSealed       \* bound on the envelopes sealed

ASSUME LinkAssumption ==
    /\ Suites \in Seq(STRING) /\ NoSession \notin Peer
    /\ \A offer \in Offers : offer \subseteq STRING
    /\ Supported \subseteq Seq(STRING)
    /\ BlockCap \in Nat \ {0} /\ MaxEph \in Nat /\ MaxSealed \in Nat

VARIABLES
    ephs,       \* one-time keys made so far: 1, 2, ...
    pending,    \* PendingHandshake: one-time keys of handshakes begun
    inits,      \* HandshakeInit messages sent
    resps,      \* HandshakeResp messages sent
    session,    \* the SecureSession of each unit
    wire,       \* envelopes sent
    blocks      \* how many SecureBlocks the ring of each unit holds

linkVars == <<ephs, pending, inits, resps, session, wire, blocks>>

Channel == {"control", "telemetry"}

-----------------------------------------------------------------------------
\* CipherSuite::negotiate: the first of ours that they offer.
Negotiate(ours, theirs) ==
    ours[CHOOSE i \in DOMAIN ours :
            /\ ours[i] \in theirs
            /\ \A j \in 1 .. i - 1 : ours[j] \notin theirs]

\* derive_shared and derive_key: a key for the pair of one-time keys.
DeriveKey(e1, e2) == {e1, e2}

\* Attestation::sign: the unit and its one-time key, signed.  Between units that
\* follow the protocol verify() succeeds.
Attest(p, eph) == [unit |-> p, eph |-> eph]

\* CryptoBox::from_kdf, in the session that holds it.
NewSession(peer, key, suite, salt) ==
    [peer |-> peer, key |-> key, suite |-> suite, ctr |-> 0, salt |-> salt]

LinkInit ==
    /\ ephs = 0
    /\ pending = [p \in Peer |-> {}]
    /\ inits = {} /\ resps = {}
    /\ session = [p \in Peer |-> NoSession]
    /\ wire = {}
    /\ blocks = [p \in Peer |-> 0]

\* begin_handshake
BeginHandshake(p, offer) ==
    /\ ephs < MaxEph
    /\ ephs' = ephs + 1
    /\ pending' = [pending EXCEPT ![p] = @ \cup {ephs + 1}]
    /\ inits' = inits \cup {[att |-> Attest(p, ephs + 1), suites |-> offer]}
    /\ UNCHANGED <<resps, session, wire, blocks>>

\* respond_handshake: a session for every init that arrives, the same again and
\* its own too.  Without a common suite it fails and leaves nothing behind.  The
\* box of a session takes its salt when it is made; the one-time key made with
\* it tells it from every other.
RespondHandshake(q, init, ours) ==
    /\ \E i \in DOMAIN ours : ours[i] \in init.suites
    /\ ephs < MaxEph
    /\ ephs' = ephs + 1
    /\ LET suite == Negotiate(ours, init.suites) IN
       /\ resps' = resps \cup {[att |-> Attest(q, ephs + 1), suite |-> suite]}
       /\ session' = [session EXCEPT ![q] =
             NewSession(init.att.unit, DeriveKey(init.att.eph, ephs + 1), suite, <<q, ephs + 1>>)]
    /\ UNCHANGED <<pending, inits, wire, blocks>>

\* A mutated form: the initiator uses the suite it likes best.
FinishHandshakeOwnSuite(p, eph, resp) ==
    /\ pending' = [pending EXCEPT ![p] = @ \ {eph}]
    /\ session' = [session EXCEPT ![p] =
          NewSession(resp.att.unit, DeriveKey(eph, resp.att.eph), Suites[1], <<p, eph>>)]
    /\ UNCHANGED <<ephs, inits, resps, wire, blocks>>

\* finish_handshake: it takes the pending state; nothing in the reply says
\* which of the unit's attempts it answers.
FinishHandshake(p, eph, resp) ==
    /\ pending' = [pending EXCEPT ![p] = @ \ {eph}]
    /\ session' = [session EXCEPT ![p] =
          NewSession(resp.att.unit, DeriveKey(eph, resp.att.eph), resp.suite, <<p, eph>>)]
    /\ UNCHANGED <<ephs, inits, resps, wire, blocks>>

-----------------------------------------------------------------------------
\* A mutated form: the nonce is the counter alone.
CounterNonce(s) == <<s.ctr, 0>>

\* CryptoBox::next_nonce
Nonce(s) == <<s.ctr, s.salt>>

\* CryptoBox::seal_into: the nonce travels with what was sealed.
Seal(s, ch) == [key |-> s.key, suite |-> s.suite, nonce |-> Nonce(s), aad |-> ch]

\* send_secure_control, send_secure_telemetry and send_sealed: the
\* channel picks the associated data and the tag of the frame.
SendSealed(p, ch) ==
    /\ session[p] # NoSession /\ Cardinality(wire) < MaxSealed
    /\ wire' = wire \cup {[from |-> p, id |-> Cardinality(wire) + 1, inner |-> ch,
                           box |-> Seal(session[p], ch)]}
    /\ session' = [session EXCEPT ![p].ctr = @ + 1]
    /\ UNCHANGED <<ephs, pending, inits, resps, blocks>>

\* recv_decrypt, decrypt_event_into_ring: the tag selects the associated data.
AadOf(inner) == inner

\* CryptoBox::open_in_place
Opens(q, env) ==
    /\ session[q] # NoSession
    /\ session[q].key = env.box.key /\ session[q].suite = env.box.suite
    /\ AadOf(env.inner) = env.box.aad

\* decrypt_into_ring: a full ring drops the block.  Nothing tells a unit's own
\* envelopes from those of its peer.
RecvDecrypt(q, env) ==
    /\ Opens(q, env)
    /\ blocks[q] < BlockCap
    /\ blocks' = [blocks EXCEPT ![q] = @ + 1]
    /\ UNCHANGED <<ephs, pending, inits, resps, session, wire>>

PopBlock(q) ==
    /\ blocks[q] > 0
    /\ blocks' = [blocks EXCEPT ![q] = @ - 1]
    /\ UNCHANGED <<ephs, pending, inits, resps, session, wire>>

LinkNext ==
    \E p \in Peer :
       \/ \E offer \in Offers : BeginHandshake(p, offer)
       \/ \E init \in inits, ours \in Supported : RespondHandshake(p, init, ours)
       \/ \E eph \in pending[p], resp \in resps : FinishHandshake(p, eph, resp)
       \/ \E ch \in Channel : SendSealed(p, ch)
       \/ \E env \in wire : RecvDecrypt(p, env)
       \/ PopBlock(p)

LinkSpec == LinkInit /\ [][LinkNext]_linkVars

-----------------------------------------------------------------------------
(* Properties.                                                             *)

\* Both sides "derive a shared secret" (session.rs): whatever replies were
\* delayed or answered again, two units whose sessions have the same key name
\* each other as peers and use the same suite, and each opens every envelope
\* the other has sealed in its session, on either channel.
SessionsAgree ==
    \A p, q \in Peer :
       (p # q /\ session[p] # NoSession /\ session[q] # NoSession /\ session[p].key = session[q].key) =>
          /\ session[p].peer = q /\ session[p].suite = session[q].suite
          /\ \A env \in wire : (env.from = p /\ env.box.key = session[p].key) => Opens(q, env)

\* "the same key never encrypts two messages under the same nonce" (cipher.rs,
\* doc of CryptoBox): the two directions of a session share its key and count
\* from zero each, and a unit may make a session again; no two envelopes have
\* key and nonce in common.
NonceOnce ==
    \A e, f \in wire : (e.box.key = f.box.key /\ e.box.nonce = f.box.nonce) => e = f
=============================================================================
