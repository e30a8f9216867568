---------------------------- MODULE FramesProofs ----------------------------
(***************************************************************************)
(* Proofs about what carries commands and data: sealed sessions, the ring  *)
(* in shared memory, the multiplexer, the event loops, the co-pilot hub,   *)
(* the routing of commands to the safety loop, the MAVLink parser and the  *)
(* operator's controller.                                                  *)
(***************************************************************************)
EXTENDS SecureLink, SharedRing, LinkMux, EventLoop, CoPilot, CommandRoute, MavParser,
        OperatorInput, Integers, SequenceTheorems, FiniteSetTheorems, WellFoundedInduction, TLAPS

-----------------------------------------------------------------------------
(* The secure sessions.                                                    *)

\* A one-time key is attested once, in an init or in a reply, by the unit that
\* made it.
AttestedOnce ==
    /\ ephs \in Nat
    /\ \A i \in inits : i.att.unit \in Peer /\ i.att.eph \in 1 .. ephs
    /\ \A r \in resps : r.att.unit \in Peer /\ r.att.eph \in 1 .. ephs
    /\ \A i, j \in inits : i.att.eph = j.att.eph => i.att.unit = j.att.unit
    /\ \A r, s \in resps : r.att.eph = s.att.eph => r.att.unit = s.att.unit /\ r.suite = s.suite
    /\ \A i \in inits, r \in resps : i.att.eph # r.att.eph

\* A handshake that was begun and not finished has its init on the wire.
PendingSent ==
    /\ pending \in [Peer -> SUBSET Nat]
    /\ \A p \in Peer : \A e \in pending[p] : \E i \in inits : i.att = Attest(p, e)

\* key and suite are those of an init and a reply to it, and unit p, whose
\* one-time key e is in one of the two, has named q in the other.
KeyFrom(i, r, key, suite) == key = {i.att.eph, r.att.eph} /\ suite = r.suite
Agreed(p, e, q, key, suite) ==
    \E i \in inits, r \in resps :
       /\ KeyFrom(i, r, key, suite)
       /\ \/ i.att = Attest(p, e) /\ r.att.unit = q
          \/ r.att = Attest(p, e) /\ i.att.unit = q

\* s comes out of a handshake of p; the one-time key of its salt is used up.
Made(p, s) ==
    /\ s = [peer |-> s.peer, key |-> s.key, suite |-> s.suite, ctr |-> s.ctr, salt |-> s.salt]
    /\ s.ctr \in Nat
    /\ \E e \in 1 .. ephs : /\ s.salt = <<p, e>> /\ e \notin pending[p]
                            /\ Agreed(p, e, s.peer, s.key, s.suite)

\* Every session a unit has came out of a handshake.
SessionsMade ==
    /\ session = [p \in Peer |-> session[p]]
    /\ \A p \in Peer : session[p] # NoSession => Made(p, session[p])

\* Every envelope was sealed in such a session, and the session that has its
\* salt, if it still lives, has counted past it.
Sealed(env) ==
    /\ env.from \in Peer /\ env.box.aad = env.inner
    /\ \E i \in inits, r \in resps : KeyFrom(i, r, env.box.key, env.box.suite)
    /\ \E c \in Nat, e \in 1 .. ephs :
          /\ env.box.nonce = <<c, <<env.from, e>>>>
          /\ e \notin pending[env.from]
          /\ (session[env.from] # NoSession /\ session[env.from].salt = <<env.from, e>>) =>
                c < session[env.from].ctr

\* Every envelope on the wire was sealed in a session.
SealedInSession == \A env \in wire : Sealed(env)

\* The inductive invariant of the sessions.
LinkInv == AttestedOnce /\ PendingSent /\ SessionsMade /\ SealedInSession /\ NonceOnce

\* No handshake has begun.
LEMMA LinkInvInit == LinkInit => LinkInv
  BY DEF LinkInit, LinkInv, AttestedOnce, PendingSent, SessionsMade, SealedInSession, NonceOnce

\* Attesting new keys and finishing handshakes undoes no session.
LEMMA MadeStays ==
  ASSUME AttestedOnce, AttestedOnce', inits \subseteq inits', resps \subseteq resps', ephs <= ephs',
         NEW p \in Peer, pending'[p] \cap (1 .. ephs) \subseteq pending[p],
         NEW s, Made(p, s)
  PROVE  Made(p, s)'
<1>1. PICK e \in 1 .. ephs : /\ s.salt = <<p, e>> /\ e \notin pending[p]
                             /\ Agreed(p, e, s.peer, s.key, s.suite)
  BY DEF Made
<1>2. e \in 1 .. ephs' /\ e \notin pending'[p]
  BY <1>1 DEF AttestedOnce
<1>3. Agreed(p, e, s.peer, s.key, s.suite)'
  BY <1>1 DEF Agreed
<1> QED BY <1>1, <1>2, <1>3 DEF Made

\* An envelope stays accounted for as long as the session of its sender counts
\* on or is replaced by one with another salt.
LEMMA SealedStays ==
  ASSUME AttestedOnce, AttestedOnce', inits \subseteq inits', resps \subseteq resps', ephs <= ephs',
         \A p \in Peer : pending'[p] \cap (1 .. ephs) \subseteq pending[p],
         NEW env, Sealed(env),
         LET p == env.from
         IN  \/ session'[p] = session[p]
             \/ \A e \in 1 .. ephs : session'[p].salt = <<p, e>> => e \in pending[p]
  PROVE  Sealed(env)'
<1>1. PICK c \in Nat, e \in 1 .. ephs :
          /\ env.box.nonce = <<c, <<env.from, e>>>>
          /\ e \notin pending[env.from]
          /\ (session[env.from] # NoSession /\ session[env.from].salt = <<env.from, e>>) =>
                c < session[env.from].ctr
  BY DEF Sealed
<1>2. e \in 1 .. ephs' /\ e \notin pending'[env.from]
  BY <1>1 DEF AttestedOnce, Sealed
<1>3. \E i \in inits', r \in resps' : KeyFrom(i, r, env.box.key, env.box.suite)
  BY DEF Sealed
<1>4. (session'[env.from] # NoSession /\ session'[env.from].salt = <<env.from, e>>) =>
                c < session'[env.from].ctr
  BY <1>1
<1> QED BY <1>1, <1>2, <1>3, <1>4 DEF Sealed

\* begin attests a one-time key nobody has used.
LEMMA BeginKeepsLinkInv ==
  ASSUME LinkInv, NEW p \in Peer, NEW offer, BeginHandshake(p, offer)
  PROVE  LinkInv'
<1> USE DEF LinkInv, BeginHandshake
<1>1. AttestedOnce'
  BY DEF AttestedOnce, Attest
<1>2. PendingSent'
  <2>1. pending' \in [Peer -> SUBSET Nat]
    BY DEF AttestedOnce, PendingSent
  <2>2. ASSUME NEW q \in Peer, NEW e \in pending'[q]
        PROVE  \E i \in inits' : i.att = Attest(q, e)
    <3>1. CASE e \in pending[q]
      BY <3>1 DEF PendingSent
    <3>2. CASE q = p /\ e = ephs + 1
      <4>1. [att |-> Attest(p, ephs + 1), suites |-> offer] \in inits'
        OBVIOUS
      <4> QED BY <3>2, <4>1
    <3> QED BY <2>2, <3>1, <3>2 DEF PendingSent
  <2> QED BY <2>1, <2>2 DEF PendingSent
<1>3. \A q \in Peer : pending'[q] \cap (1 .. ephs) \subseteq pending[q]
  BY DEF AttestedOnce, PendingSent
<1>4. ephs <= ephs' /\ inits \subseteq inits' /\ resps \subseteq resps'
  BY DEF AttestedOnce
<1>5. SessionsMade'
  <2>1. ASSUME NEW q \in Peer, session[q] # NoSession
        PROVE  \A s : s = session[q] => Made(q, s)'
    BY <1>1, <1>3, <1>4, <2>1, MadeStays DEF SessionsMade
  <2> QED BY <2>1 DEF SessionsMade, Made
<1>6. SealedInSession'
  BY <1>1, <1>3, <1>4, SealedStays DEF SealedInSession
<1>7. NonceOnce'
  BY DEF NonceOnce
<1> QED BY <1>1, <1>2, <1>5, <1>6, <1>7

\* respond makes a session and attests its own one-time key.
LEMMA RespondKeepsLinkInv ==
  ASSUME LinkInv, NEW p \in Peer, NEW init \in inits, NEW ours \in Supported, RespondHandshake(p, init, ours)
  PROVE  LinkInv'
<1>a. PICK suite : suite = Negotiate(ours, init.suites)
  OBVIOUS
<1>b. PICK new, resp, n :
         /\ n = ephs + 1
         /\ new = NewSession(init.att.unit, {init.att.eph, n}, suite, <<p, n>>)
         /\ resp = [att |-> Attest(p, n), suite |-> suite]
  OBVIOUS
<1>0. /\ ephs' = n /\ resps' = resps \cup {resp}
      /\ session' = [session EXCEPT ![p] = new]
      /\ UNCHANGED <<pending, inits, wire, blocks>>
  BY <1>a, <1>b DEF RespondHandshake, DeriveKey
<1>1. AttestedOnce'
  BY <1>0, <1>b DEF LinkInv, AttestedOnce, Attest
<1>2. PendingSent'
  BY <1>0 DEF LinkInv, PendingSent
<1>3. \A q \in Peer : pending'[q] \cap (1 .. ephs) \subseteq pending[q]
  BY <1>0
<1>4. ephs <= ephs' /\ inits \subseteq inits' /\ resps \subseteq resps'
  BY <1>0, <1>b DEF AttestedOnce, LinkInv
<1>5. /\ session'[p] = new /\ \A q \in Peer \ {p} : session'[q] = session[q]
      /\ session' = [q \in Peer |-> session'[q]]
  BY <1>0 DEF LinkInv, SessionsMade
<1>6. /\ new = [peer |-> new.peer, key |-> new.key, suite |-> new.suite, ctr |-> new.ctr, salt |-> new.salt]
      /\ new.ctr = 0 /\ new.salt = <<p, n>> /\ new.peer = init.att.unit
      /\ new.key = {init.att.eph, n} /\ new.suite = suite
  BY <1>b DEF NewSession
<1>7. SessionsMade'
  <2>1. ASSUME NEW q \in Peer \ {p}, session[q] # NoSession
        PROVE  \A s : s = session[q] => Made(q, s)'
    BY <1>1, <1>3, <1>4, <2>1, MadeStays DEF SessionsMade, LinkInv
  <2>2. n \notin pending'[p] /\ n \in 1 .. ephs'
    <3>1. ASSUME NEW e \in pending[p]
          PROVE  e \in 1 .. ephs
      <4>1. PICK i \in inits : i.att = Attest(p, e)
        BY DEF LinkInv, PendingSent
      <4>2. i.att.eph = e
        BY <4>1 DEF Attest
      <4> QED BY <4>2 DEF LinkInv, AttestedOnce
    <3> QED BY <1>0, <1>b, <3>1 DEF LinkInv, AttestedOnce
  <2>3. Agreed(p, n, new.peer, new.key, new.suite)'
    <3>1. resp \in resps' /\ resp.att.eph = n /\ resp.suite = suite /\ init \in inits'
          /\ resp.att = Attest(p, n)
      BY <1>0, <1>b DEF Attest
    <3>2. KeyFrom(init, resp, new.key, new.suite)
      BY <3>1, <1>6 DEF KeyFrom
    <3> QED BY <3>1, <3>2, <1>6 DEF Agreed
  <2>4. Made(p, new)'
    <3>1. new.ctr \in Nat
      BY <1>6
    <3> QED BY <1>6, <2>2, <2>3, <3>1 DEF Made
  <2> QED BY <1>5, <2>1, <2>4 DEF SessionsMade, Made
<1>8. SealedInSession'
  <2> SUFFICES ASSUME NEW env \in wire
               PROVE  Sealed(env)'
    BY <1>0 DEF SealedInSession
  <2>0. Sealed(env)
    BY DEF SealedInSession, LinkInv
  <2>1. CASE env.from # p
    <3>1. session'[env.from] = session[env.from]
      BY <1>5, <2>0, <2>1 DEF Sealed
    <3> QED BY <1>1, <1>3, <1>4, <2>0, <3>1, SealedStays DEF LinkInv
  <2>2. CASE env.from = p
    <3>1. \A e \in 1 .. ephs : session'[p].salt # <<p, e>>
      BY <1>5, <1>6, <1>b DEF LinkInv, AttestedOnce
    <3> QED BY <1>1, <1>3, <1>4, <2>0, <2>2, <3>1, SealedStays DEF LinkInv
  <2> QED BY <2>1, <2>2
<1>9. NonceOnce'
  BY <1>0 DEF NonceOnce, LinkInv
<1> QED BY <1>1, <1>2, <1>7, <1>8, <1>9 DEF LinkInv

\* finish makes the session of the side that began, and forgets its key.
LEMMA FinishKeepsLinkInv ==
  ASSUME LinkInv, NEW p \in Peer, NEW e \in pending[p], NEW resp \in resps, FinishHandshake(p, e, resp)
  PROVE  LinkInv'
<1>b. PICK new : new = NewSession(resp.att.unit, {e, resp.att.eph}, resp.suite, <<p, e>>)
  OBVIOUS
<1>0. /\ pending' = [pending EXCEPT ![p] = @ \ {e}]
      /\ session' = [session EXCEPT ![p] = new]
      /\ UNCHANGED <<ephs, inits, resps, wire, blocks>>
  BY <1>b DEF FinishHandshake, DeriveKey
<1>1. AttestedOnce'
  BY <1>0 DEF LinkInv, AttestedOnce
<1>3. \A q \in Peer : pending'[q] \subseteq pending[q] /\ pending'[q] \cap (1 .. ephs) \subseteq pending[q]
  BY <1>0 DEF LinkInv, PendingSent
<1>2. PendingSent'
  BY <1>0, <1>3 DEF LinkInv, PendingSent
<1>4. ephs <= ephs' /\ inits \subseteq inits' /\ resps \subseteq resps'
  BY <1>0 DEF AttestedOnce, LinkInv
<1>5. /\ session'[p] = new /\ \A q \in Peer \ {p} : session'[q] = session[q]
      /\ session' = [q \in Peer |-> session'[q]]
  BY <1>0 DEF LinkInv, SessionsMade
<1>6. /\ new = [peer |-> new.peer, key |-> new.key, suite |-> new.suite, ctr |-> new.ctr, salt |-> new.salt]
      /\ new.ctr = 0 /\ new.salt = <<p, e>> /\ new.peer = resp.att.unit
      /\ new.key = {e, resp.att.eph} /\ new.suite = resp.suite
  BY <1>b DEF NewSession
<1>7. SessionsMade'
  <2>1. ASSUME NEW q \in Peer \ {p}, session[q] # NoSession
        PROVE  \A s : s = session[q] => Made(q, s)'
    BY <1>1, <1>3, <1>4, <2>1, MadeStays DEF SessionsMade, LinkInv
  <2>2. PICK init \in inits : init.att = Attest(p, e)
    BY DEF LinkInv, PendingSent
  <2>3. e \notin pending'[p] /\ e \in 1 .. ephs'
    BY <1>0, <2>2 DEF LinkInv, AttestedOnce, PendingSent, Attest
  <2>4. Agreed(p, e, new.peer, new.key, new.suite)'
    <3>1. KeyFrom(init, resp, new.key, new.suite)
      BY <2>2, <1>6 DEF KeyFrom, Attest
    <3> QED BY <1>0, <2>2, <3>1, <1>6 DEF Agreed
  <2>5. Made(p, new)'
    <3>1. new.ctr \in Nat
      BY <1>6
    <3> QED BY <1>6, <2>3, <2>4, <3>1 DEF Made
  <2> QED BY <1>5, <2>1, <2>5 DEF SessionsMade, Made
<1>8. SealedInSession'
  <2> SUFFICES ASSUME NEW env \in wire
               PROVE  Sealed(env)'
    BY <1>0 DEF SealedInSession
  <2>0. Sealed(env)
    BY DEF SealedInSession, LinkInv
  <2>1. CASE env.from # p
    <3>1. session'[env.from] = session[env.from]
      BY <1>5, <2>0, <2>1 DEF Sealed
    <3> QED BY <1>1, <1>3, <1>4, <2>0, <3>1, SealedStays DEF LinkInv
  <2>2. CASE env.from = p
    <3>1. \A x \in 1 .. ephs : session'[p].salt = <<p, x>> => x \in pending[p]
      BY <1>5, <1>6
    <3> QED BY <1>1, <1>3, <1>4, <2>0, <2>2, <3>1, SealedStays DEF LinkInv
  <2> QED BY <2>1, <2>2
<1>9. NonceOnce'
  BY <1>0 DEF NonceOnce, LinkInv
<1> QED BY <1>1, <1>2, <1>7, <1>8, <1>9 DEF LinkInv

\* seal counts on before it sends.
LEMMA SendKeepsLinkInv ==
  ASSUME LinkInv, NEW p \in Peer, NEW ch \in Channel, SendSealed(p, ch)
  PROVE  LinkInv'
<1>a. PICK s, env :
         /\ s = session[p]
         /\ env = [from |-> p, id |-> Cardinality(wire) + 1, inner |-> ch, box |-> Seal(s, ch)]
  OBVIOUS
<1>b. PICK new : new = [s EXCEPT !.ctr = @ + 1]
  OBVIOUS
<1>0. /\ s # NoSession /\ wire' = wire \cup {env} /\ session' = [session EXCEPT ![p] = new]
      /\ UNCHANGED <<ephs, pending, inits, resps, blocks>>
  BY <1>a, <1>b DEF SendSealed
<1>1. AttestedOnce' /\ PendingSent'
  BY <1>0 DEF LinkInv, AttestedOnce, PendingSent
<1>2. Made(p, s)
  BY <1>a, <1>0 DEF LinkInv, SessionsMade
<1>3. PICK e \in 1 .. ephs : /\ s.salt = <<p, e>> /\ e \notin pending[p]
                             /\ Agreed(p, e, s.peer, s.key, s.suite)
  BY <1>2 DEF Made
<1>4. /\ new = [peer |-> s.peer, key |-> s.key, suite |-> s.suite, ctr |-> s.ctr + 1, salt |-> s.salt]
      /\ s.ctr \in Nat
  BY <1>2, <1>b DEF Made
<1>5. /\ session'[p] = new /\ \A q \in Peer \ {p} : session'[q] = session[q]
      /\ session' = [q \in Peer |-> session'[q]]
  BY <1>0 DEF LinkInv, SessionsMade
<1>6. SessionsMade'
  <2>1. ASSUME NEW q \in Peer \ {p}, session[q] # NoSession
        PROVE  \A t : t = session[q] => Made(q, t)'
    <3>1. Made(q, session[q])
      BY <2>1 DEF LinkInv, SessionsMade
    <3> QED BY <1>0, <3>1 DEF Made, Agreed
  <2>2. Made(p, new)'
    <3>1. Agreed(p, e, new.peer, new.key, new.suite)'
      BY <1>0, <1>3, <1>4 DEF Agreed
    <3> QED BY <1>0, <1>3, <1>4, <3>1 DEF Made
  <2> QED BY <1>5, <2>1, <2>2 DEF SessionsMade, Made
<1>7. /\ env.from = p /\ env.inner = ch /\ env.box.aad = ch /\ env.box.key = s.key
      /\ env.box.suite = s.suite /\ env.box.nonce = <<s.ctr, <<p, e>>>>
  BY <1>a, <1>3 DEF Seal, Nonce
<1>8. \A x \in wire : Sealed(x)'
  <2> SUFFICES ASSUME NEW x \in wire
               PROVE  Sealed(x)'
    OBVIOUS
  <2>0. Sealed(x)
    BY DEF SealedInSession, LinkInv
  <2>1. CASE x.from # p
    <3>1. session'[x.from] = session[x.from]
      BY <1>5, <2>0, <2>1 DEF Sealed
    <3> QED BY <1>0, <2>0, <3>1 DEF Sealed
  <2>2. CASE x.from = p
    <3>1. new.salt = s.salt /\ new.ctr = s.ctr + 1
      BY <1>4
    <3>2. PICK c \in Nat, y \in 1 .. ephs :
          /\ x.box.nonce = <<c, <<p, y>>>> /\ y \notin pending[p]
          /\ s.salt = <<p, y>> => c < s.ctr
      BY <1>0, <1>a, <2>0, <2>2 DEF Sealed
    <3>3. s.salt = <<p, y>> => c < new.ctr
      BY <3>1, <3>2, <1>4
    <3> QED BY <1>0, <1>5, <2>0, <2>2, <3>1, <3>2, <3>3 DEF Sealed
  <2> QED BY <2>1, <2>2
<1>9. Sealed(env)'
  <2>1. \E i \in inits', r \in resps' : KeyFrom(i, r, env.box.key, env.box.suite)
    BY <1>0, <1>3, <1>7 DEF Agreed
  <2>2. s.ctr < new.ctr
    BY <1>4
  <2> QED BY <1>0, <1>3, <1>4, <1>5, <1>7, <2>1, <2>2 DEF Sealed
<1>10. \A x \in wire : x.box.nonce # env.box.nonce
  <2> SUFFICES ASSUME NEW x \in wire, x.box.nonce = env.box.nonce
               PROVE  FALSE
    OBVIOUS
  <2>1. PICK c \in Nat, y \in 1 .. ephs :
          /\ x.box.nonce = <<c, <<x.from, y>>>>
          /\ (session[x.from] # NoSession /\ session[x.from].salt = <<x.from, y>>) =>
                c < session[x.from].ctr
    BY DEF LinkInv, SealedInSession, Sealed
  <2>2. c = s.ctr /\ x.from = p /\ y = e
    BY <1>7, <2>1
  <2> QED BY <1>0, <1>a, <1>3, <1>4, <2>1, <2>2
<1>11. NonceOnce'
  BY <1>0, <1>10 DEF NonceOnce, LinkInv
<1> QED BY <1>0, <1>1, <1>6, <1>8, <1>9, <1>11 DEF LinkInv, SealedInSession

\* A unit that receives or consumes a block changes nothing the sessions rest on.
LEMMA LinkStep ==
  ASSUME LinkInv, [LinkNext]_linkVars
  PROVE  LinkInv'
<1>1. ASSUME UNCHANGED <<ephs, pending, inits, resps, session, wire>>
      PROVE  LinkInv'
  BY <1>1 DEF LinkInv, AttestedOnce, PendingSent, SessionsMade, Made, Agreed, SealedInSession, Sealed,
              NonceOnce
<1>2. CASE UNCHANGED linkVars
  BY <1>1, <1>2 DEF linkVars
<1>3. ASSUME NEW p \in Peer, \/ \E env \in wire : RecvDecrypt(p, env)
                             \/ PopBlock(p)
      PROVE  LinkInv'
  BY <1>1, <1>3 DEF RecvDecrypt, PopBlock
<1> QED BY <1>2, <1>3, BeginKeepsLinkInv, RespondKeepsLinkInv, FinishKeepsLinkInv, SendKeepsLinkInv
        DEF LinkNext

\* The invariant holds throughout.
LEMMA LinkInvariant == LinkSpec => []LinkInv
  BY LinkInvInit, LinkStep, PTL DEF LinkSpec

\* A key names one init and one reply.
LEMMA OneHandshakePerKey ==
  ASSUME LinkInv, NEW i1 \in inits, NEW i2 \in inits, NEW r1 \in resps, NEW r2 \in resps,
         NEW key, NEW s1, NEW s2, KeyFrom(i1, r1, key, s1), KeyFrom(i2, r2, key, s2)
  PROVE  i1.att.unit = i2.att.unit /\ r1.att.unit = r2.att.unit /\ s1 = s2
<1>1. i1.att.eph # r2.att.eph /\ i2.att.eph # r1.att.eph
  BY DEF LinkInv, AttestedOnce
<1>2. i1.att.eph = i2.att.eph /\ r1.att.eph = r2.att.eph
  BY <1>1 DEF KeyFrom
<1> QED BY <1>2 DEF LinkInv, AttestedOnce, KeyFrom

\* Two sessions with one key are the two ends of one handshake, since its pair
\* of one-time keys has one init and one reply.
LEMMA InvGivesSessionsAgree ==
  ASSUME LinkInv
  PROVE  SessionsAgree
<1> SUFFICES ASSUME NEW p \in Peer, NEW q \in Peer, p # q, session[p] # NoSession, session[q] # NoSession,
                    session[p].key = session[q].key
             PROVE  /\ session[p].peer = q /\ session[p].suite = session[q].suite
                    /\ \A env \in wire :
                          (env.from = p /\ env.box.key = session[p].key) => Opens(q, env)
  BY DEF SessionsAgree
<1>0. Made(p, session[p]) /\ Made(q, session[q])
  BY DEF LinkInv, SessionsMade
<1>1. PICK e \in 1 .. ephs : Agreed(p, e, session[p].peer, session[p].key, session[p].suite)
  BY <1>0 DEF Made
<1>2. PICK f \in 1 .. ephs : Agreed(q, f, session[q].peer, session[q].key, session[q].suite)
  BY <1>0 DEF Made
<1>i. PICK i \in inits, r \in resps :
         /\ KeyFrom(i, r, session[p].key, session[p].suite)
         /\ \/ i.att = Attest(p, e) /\ r.att.unit = session[p].peer
            \/ r.att = Attest(p, e) /\ i.att.unit = session[p].peer
  BY <1>1 DEF Agreed
<1>j. PICK j \in inits, t \in resps :
         /\ KeyFrom(j, t, session[q].key, session[q].suite)
         /\ \/ j.att = Attest(q, f) /\ t.att.unit = session[q].peer
            \/ t.att = Attest(q, f) /\ j.att.unit = session[q].peer
  BY <1>2 DEF Agreed
<1>4. i.att.unit = j.att.unit /\ r.att.unit = t.att.unit
      /\ session[p].suite = session[q].suite
  BY <1>i, <1>j, OneHandshakePerKey
<1>5. session[p].peer = q /\ session[p].suite = session[q].suite
  <2>2. j.att.unit = q \/ t.att.unit = q
    BY <1>j DEF Attest
  <2>3. \/ i.att.unit = p /\ r.att.unit = session[p].peer
        \/ r.att.unit = p /\ i.att.unit = session[p].peer
    BY <1>i DEF Attest
  <2> QED BY <2>2, <2>3, <1>4
<1>6. ASSUME NEW env \in wire, env.box.key = session[p].key
      PROVE  Opens(q, env)
  <2>1. PICK k \in inits, u \in resps : KeyFrom(k, u, env.box.key, env.box.suite)
    BY DEF LinkInv, SealedInSession, Sealed
  <2>2. env.box.suite = session[p].suite
    BY <1>i, <1>6, <2>1, OneHandshakePerKey
  <2>3. env.box.aad = env.inner
    BY DEF LinkInv, SealedInSession, Sealed
  <2> QED BY <1>5, <1>6, <2>2, <2>3 DEF Opens, AadOf
<1> QED BY <1>5, <1>6

\* For any units, suites and number of handshakes, repeated, crossed, late or
\* never finished: two units with the same key name each other as the peer and
\* use one cipher suite (handshake.rs, session.rs of tpt-t-sec).
THEOREM SessionsAgreeAlways == LinkSpec => []SessionsAgree
  BY LinkInvariant, InvGivesSessionsAgree, PTL

\* No two envelopes are sealed with the same key and nonce, however often the
\* sessions are replaced (session.rs of tpt-t-sec).
THEOREM NonceOnceAlways == LinkSpec => []NonceOnce
  BY LinkInvariant, PTL DEF LinkInv

-----------------------------------------------------------------------------
(* Facts about numbers.                                                    *)

\* The least-number principle, for a set.
LEMMA LeastOf ==
  ASSUME NEW T, T \subseteq Nat, T # {}
  PROVE  \E x \in T : \A y \in T : x <= y
<1>1. PICK x \in T : \A y \in T : ~(<<y, x>> \in OpToRel(<, Nat))
  BY NatLessThanWellFounded, WFMin
<1>2. ASSUME NEW a \in Nat, NEW b \in Nat, a < b
      PROVE  <<a, b>> \in OpToRel(<, Nat)
  BY <1>2, Zenon DEF OpToRel
<1>3. ASSUME NEW y \in T
      PROVE  x <= y
  <2>1. ~(y < x)
    BY <1>1, <1>2, Zenon
  <2> QED BY <2>1
<1> QED BY <1>3

\* Its mirror image: a set of numbers up to n has a greatest one.
LEMMA GreatestOf ==
  ASSUME NEW n \in Nat, NEW T, T \subseteq 0 .. n, T # {}
  PROVE  \E x \in T : \A y \in T : y <= x
<1> DEFINE U == {n - x : x \in T}
<1>0. PICK t \in T : n - t \in U
  OBVIOUS
<1>1. U \subseteq Nat /\ U # {}
  BY <1>0
<1>2. PICK u \in U : \A v \in U : u <= v
  BY <1>1, LeastOf, Zenon
<1>3. PICK x \in T : u = n - x
  OBVIOUS
<1>4. ASSUME NEW y \in T
      PROVE  y <= x
  <2>1. u <= n - y
    BY <1>2
  <2> QED BY <1>3, <2>1
<1> QED BY <1>4

\* Positions less than n apart have different remainders.
LEMMA ModApart ==
  ASSUME NEW n \in Nat \ {0}, NEW a \in Nat, NEW b \in Nat, a < b, b - a < n
  PROVE  a % n # b % n
<1> SUFFICES ASSUME a % n = b % n
             PROVE  FALSE
  OBVIOUS
<1>1. PICK qa, qb : qa = a \div n /\ qb = b \div n
  OBVIOUS
<1>2. /\ qa \in Int /\ qb \in Int
      /\ a = (n * qa) + (a % n) /\ b = (n * qb) + (b % n)
      /\ a % n \in Int
  BY <1>1
<1>3. b - a = n * (qb - qa)
  BY <1>2
<1>4. CASE qb - qa <= 0
  BY <1>2, <1>3, <1>4
<1>5. CASE qb - qa >= 1
  BY <1>2, <1>3, <1>5
<1> QED BY <1>2, <1>4, <1>5

-----------------------------------------------------------------------------
(* The ring in shared memory.                                              *)

\* RingLayout::fit finds a power of two, and the slots are inside the region.
LEMMA FitFits ==
  ASSUME NEW len \in Nat, len >= SlotsOff + SlotSize
  PROVE  Fit(len) \in Nat \ {0} /\ Pow2(Fit(len)) /\ TotalLen(Fit(len)) <= len
<1>1. SlotsOff \in Nat /\ SlotSize \in Nat /\ SlotSize >= 1
  <2>1. ASSUME NEW a \in Nat, NEW b \in Nat \ {0}
        PROVE  DivCeil(a, b) \in Nat /\ (a >= 1 => DivCeil(a, b) >= 1)
    <3>1. a + b - 1 \in Nat
      OBVIOUS
    <3> QED BY <3>1 DEF DivCeil
  <2>2. DivCeil(SharedHeaderLen, CacheLine) \in Nat
    BY <2>1, SharedAssumption
  <2>3. /\ DivCeil(IF ItemLen = 0 THEN 1 ELSE ItemLen, 8) \in Nat
        /\ DivCeil(IF ItemLen = 0 THEN 1 ELSE ItemLen, 8) >= 1
    <3>1. (IF ItemLen = 0 THEN 1 ELSE ItemLen) \in Nat /\ (IF ItemLen = 0 THEN 1 ELSE ItemLen) >= 1
      BY SharedAssumption
    <3> QED BY <2>1, <3>1
  <2> QED BY <2>2, <2>3, SharedAssumption DEF SlotsOff, SlotSize
<1>2. PICK n, size, off : n = (len - SlotsOff) \div SlotSize /\ size = SlotSize /\ off = SlotsOff
  OBVIOUS
<1>3. n \in Nat /\ n >= 1 /\ size * n <= len - off
  <2>1. PICK m : m = len - off
    OBVIOUS
  <2>2. m \in Nat /\ m >= size /\ size \in Nat /\ size >= 1 /\ n = m \div size
    BY <1>1, <1>2, <2>1
  <2>3. n \in Nat /\ m = size * n + (m % size) /\ m % size \in 0 .. size - 1
    BY <2>2
  <2>4. n # 0
    BY <2>2, <2>3
  <2>5. n >= 1
    BY <2>3, <2>4
  <2>6. size * n <= m
    BY <2>2, <2>3
  <2> QED BY <2>1, <2>3, <2>5, <2>6
<1>4. PICK p \in 1 .. n : Pow2(p) /\ \A q \in p + 1 .. n : ~Pow2(q)
  <2> DEFINE T == {q \in 1 .. n : Pow2(q)}
  <2>1. T \subseteq 0 .. n
    BY <1>3
  <2>2. 1 \in T
    <3>1. 1 = 2 ^ 0 /\ 0 \in 0 .. 1
      OBVIOUS
    <3>2. Pow2(1)
      BY <3>1, Zenon DEF Pow2
    <3> QED BY <1>3, <3>2
  <2>3. PICK p \in T : \A y \in T : y <= p
    <3> HIDE DEF T
    <3> QED BY <1>3, <2>1, <2>2, GreatestOf
  <2>4. ASSUME NEW q \in p + 1 .. n
        PROVE  ~Pow2(q)
    BY <1>3, <2>3
  <2> QED BY <2>3, <2>4
<1>5. Fit(len) = FloorPow2(n)
  BY <1>2 DEF Fit
<1>6. FloorPow2(n) \in 1 .. n /\ Pow2(FloorPow2(n))
  BY <1>4 DEF FloorPow2
<1>7. PICK c : c = Fit(len)
  OBVIOUS
<1>8. c \in Nat /\ c >= 1 /\ c <= n
  BY <1>3, <1>5, <1>6, <1>7
<1>9. size * c <= size * n
  BY <1>1, <1>2, <1>3, <1>8
<1>10. off + size * c <= len
  BY <1>1, <1>2, <1>3, <1>8, <1>9
<1> QED BY <1>2, <1>5, <1>6, <1>7, <1>8, <1>10 DEF TotalLen

-----------------------------------------------------------------------------
(* The ring in shared memory.                                              *)

\* The types of the segment and of the two processes.
SharedTypeOK ==
    /\ hcap \in Nat \ {0} /\ shead \in Nat /\ stail \in Nat
    /\ scell \in [0 .. hcap - 1 -> Nat]
    /\ producer \in [at : {"idle", "dead", "write", "publish", "return"}, value : Nat]
    /\ consumer \in [at : {"idle", "dead", "release", "return"}, value : Nat]
    /\ offered \in Nat /\ sent \in Seq(Nat) /\ got \in Seq(Nat) /\ perished \in Seq(Nat)
    /\ deaths \in Nat

\* The cursors count what was published and what was released, at most a ring
\* apart.
Cursors ==
    /\ shead = Released /\ stail = Len(sent)
    /\ shead <= stail /\ stail - shead <= hcap

\* Values are published in the order they are numbered.
Numbered ==
    /\ \A i, j \in 1 .. Len(sent) : i < j => sent[i] < sent[j]
    /\ \A i \in 1 .. Len(sent) : sent[i] <= offered
    /\ producer.at \in {"write", "publish"} =>
         producer.value <= offered /\ \A i \in 1 .. Len(sent) : sent[i] < producer.value

\* A producer past its check has a free cell, and what it is about to publish
\* is in it; what it has published and not confirmed was sent.
ProducerHolds ==
    /\ producer.at \in {"write", "publish"} => stail - shead < hcap
    /\ producer.at = "publish" => scell[stail % hcap] = producer.value
    /\ producer.at = "return" => \E i \in 1 .. Len(sent) : sent[i] = producer.value

\* A consumer past its read has the oldest value that was not released, and
\* past its store of the head a value younger than all that were returned.
ConsumerHolds ==
    /\ consumer.at = "release" => shead < stail /\ consumer.value = sent[shead + 1]
    /\ consumer.at = "return" => \A i \in 1 .. Len(got) : got[i] < consumer.value

\* The inductive invariant of the ring.
SharedInv ==
    SharedTypeOK /\ Cursors /\ Numbered /\ ProducerHolds /\ ConsumerHolds /\ SharedExactlyOnce

\* A segment that was just laid out.
LEMMA SharedInvInit == SharedInit => SharedInv
<1> SUFFICES ASSUME SharedInit
             PROVE  SharedInv
  OBVIOUS
<1>1. region \in Nat /\ region >= SlotsOff + SlotSize
  BY SharedAssumption DEF SharedInit
<1>2. hcap \in Nat \ {0} /\ Pow2(hcap) /\ TotalLen(hcap) <= region
  BY <1>1, FitFits DEF SharedInit
<1>3. TotalLen(hcap) <= region => Validate
  BY <1>1, <1>2 DEF Validate
<1>4. SharedTypeOK
  BY <1>2 DEF SharedInit, SharedTypeOK, Idle
<1>5. InHand = << >> /\ Released = 0
  BY DEF SharedInit, Idle, InHand, Released
<1>6. SharedExactlyOnce
  <2>1. Values(got) = {} /\ Values(perished) = {} /\ Values(InHand) = {}
    BY <1>5 DEF SharedInit, Values
  <2> QED BY <1>2, <1>3, <1>5, <2>1 DEF SharedInit, SharedExactlyOnce
<1> QED BY <1>2, <1>4, <1>5, <1>6
        DEF SharedInit, SharedInv, Cursors, Numbered, ProducerHolds, ConsumerHolds, Idle

\* What the consumer has in hand, before and after a step that leaves it alone.
LEMMA Hand ==
  ASSUME SharedTypeOK
  PROVE  /\ consumer.at = "return" =>
              InHand = <<consumer.value>> /\ Len(InHand) = 1 /\ Values(InHand) = {consumer.value}
         /\ consumer.at # "return" => InHand = << >> /\ Len(InHand) = 0 /\ Values(InHand) = {}
         /\ Released \in Nat
<1>1. consumer.at = "return" =>
        InHand = <<consumer.value>> /\ Len(InHand) = 1 /\ Values(InHand) = {consumer.value}
  BY DEF InHand, Values
<1>2. consumer.at # "return" => InHand = << >> /\ Len(InHand) = 0 /\ Values(InHand) = {}
  BY DEF InHand, Values
<1>3. Released \in Nat
  BY <1>1, <1>2 DEF Released, SharedTypeOK
<1> QED BY <1>1, <1>2, <1>3

\* A step of either process, its death and its return keep the invariant.
LEMMA SharedStep == SharedInv /\ [SharedNext]_sharedVars => SharedInv'
<1> SUFFICES ASSUME SharedInv, [SharedNext]_sharedVars
             PROVE  SharedInv'
  OBVIOUS
<1> USE DEF SharedInv
<1>0. UNCHANGED <<region, hcap>> => Validate'
  BY DEF Validate, SharedExactlyOnce
<1>i. \A n \in Nat : n % hcap \in 0 .. hcap - 1
  BY DEF SharedTypeOK
<1>l. /\ Len(got) \in Nat /\ Len(sent) \in Nat /\ Len(perished) \in Nat
      /\ Released \in Nat /\ Released = shead /\ Len(sent) = stail
  BY Hand DEF SharedTypeOK, Cursors
<1>r. ASSUME UNCHANGED <<consumer, got, perished>>
      PROVE  Released' = Released /\ InHand' = InHand
  BY <1>r DEF Released, InHand
<1>s. ASSUME UNCHANGED <<region, hcap, scell, sent, consumer, got, perished, acked, deaths>>
      PROVE  SharedExactlyOnce'
  <2>1. Released' = Released /\ InHand' = InHand
    BY <1>r, <1>s
  <2> QED BY <1>0, <1>s, <2>1 DEF SharedExactlyOnce
<1>1. CASE PushBegin
  <2>1. CASE stail - shead = hcap
    <3>1. UNCHANGED producer /\ offered' = offered + 1
      BY <1>1, <2>1 DEF PushBegin
    <3>2. Numbered'
      <4>1. offered \in Nat /\ producer.value \in Nat /\ \A i \in 1 .. Len(sent) : sent[i] \in Nat
        BY DEF SharedTypeOK
      <4>2. \A i \in 1 .. Len(sent) : sent[i] <= offered + 1
        BY <4>1 DEF Numbered
      <4>3. producer.value <= offered => producer.value <= offered + 1
        BY <4>1
      <4> QED BY <1>1, <3>1, <4>2, <4>3 DEF PushBegin, Numbered
    <3>3. SharedTypeOK'
      BY <1>1, <3>1 DEF PushBegin, SharedTypeOK
    <3> QED BY <1>r, <1>s, <1>1, <3>1, <3>2, <3>3 DEF PushBegin, Cursors, ProducerHolds, ConsumerHolds
  <2>2. CASE stail - shead # hcap
    <3>1. producer' = [at |-> "write", value |-> offered + 1] /\ offered' = offered + 1
      BY <1>1, <2>2 DEF PushBegin
    <3>2. stail - shead < hcap
      <4>1. stail \in Nat /\ shead \in Nat /\ hcap \in Nat /\ stail - shead <= hcap
        BY DEF Cursors, SharedTypeOK
      <4> QED BY <2>2, <4>1
    <3>3. SharedTypeOK' /\ Cursors' /\ ConsumerHolds'
      <4>1. offered + 1 \in Nat
        BY DEF SharedTypeOK
      <4>2. SharedTypeOK'
        BY <1>1, <3>1, <4>1 DEF PushBegin, SharedTypeOK
      <4> QED BY <1>r, <1>1, <4>2 DEF PushBegin, Cursors, ConsumerHolds
    <3>4. ProducerHolds'
      BY <1>1, <3>1, <3>2 DEF PushBegin, ProducerHolds
    <3>5. Numbered'
      <4>1. offered \in Nat /\ \A i \in 1 .. Len(sent) : sent[i] \in Nat
        BY DEF SharedTypeOK
      <4>2. \A i \in 1 .. Len(sent) : sent[i] < offered + 1 /\ sent[i] <= offered + 1
        BY <4>1 DEF Numbered
      <4>3. offered + 1 <= offered + 1
        BY <4>1
      <4> QED BY <1>1, <3>1, <4>2, <4>3 DEF PushBegin, Numbered
    <3> QED BY <1>s, <1>1, <3>3, <3>4, <3>5 DEF PushBegin
  <2> QED BY <2>1, <2>2
<1>2. CASE PushCell
  <2>1. SharedTypeOK'
    BY <1>2, <1>i DEF PushCell, SharedTypeOK
  <2>2. Cursors' /\ ConsumerHolds'
    BY <1>r, <1>2 DEF PushCell, Cursors, ConsumerHolds
  <2>3. ProducerHolds' /\ Numbered'
    BY <1>2, <1>i DEF PushCell, ProducerHolds, Numbered, SharedTypeOK
  <2>4. ASSUME NEW i \in Released + 1 .. Len(sent)
        PROVE  scell'[(i - 1) % hcap] = sent[i]
    <3>1. i - 1 \in Nat /\ i - 1 < stail /\ stail - (i - 1) < hcap
      <4>1. stail - shead < hcap
        BY <1>2 DEF ProducerHolds, PushCell
      <4>2. i - 1 \in Nat /\ shead <= i - 1 /\ i - 1 < stail
        BY <1>l
      <4>3. stail \in Nat /\ shead \in Nat /\ hcap \in Nat
        BY DEF SharedTypeOK
      <4>4. PICK n : n = i - 1
        OBVIOUS
      <4> QED BY <4>1, <4>2, <4>3, <4>4
    <3>2. (i - 1) % hcap # stail % hcap
      BY <3>1, ModApart DEF SharedTypeOK
    <3> QED BY <1>2, <1>i, <3>1, <3>2 DEF PushCell, SharedTypeOK, SharedExactlyOnce
  <2>5. SharedExactlyOnce'
    <3>1. Released' = Released /\ InHand' = InHand
      BY <1>r, <1>2 DEF PushCell
    <3> QED BY <1>0, <1>2, <2>4, <3>1 DEF PushCell, SharedExactlyOnce
  <2> QED BY <2>1, <2>2, <2>3, <2>5
<1>3. CASE PushTail
  <2>a. sent' = Append(sent, producer.value) /\ sent \in Seq(Nat) /\ producer.value \in Nat
    BY <1>3 DEF PushTail, SharedTypeOK
  <2>0. /\ Len(sent') = Len(sent) + 1 /\ sent'[Len(sent) + 1] = producer.value
        /\ \A i \in 1 .. Len(sent) : sent'[i] = sent[i]
        /\ sent' \in Seq(Nat) /\ producer.value \in Nat
    BY <2>a
  <2>u. UNCHANGED <<region, hcap, shead, scell, consumer, offered, acked, got, perished, deaths>>
    BY <1>3 DEF PushTail
  <2>r. Released' = Released /\ InHand' = InHand
    BY <1>r, <2>u
  <2>p. producer'.at = "return" /\ producer'.value = producer.value /\ stail' = stail + 1
    BY <1>3 DEF PushTail, SharedTypeOK
  <2>1. SharedTypeOK'
    <3>1. producer' \in [at : {"idle", "dead", "write", "publish", "return"}, value : Nat]
      BY <1>3 DEF PushTail, SharedTypeOK
    <3> QED BY <1>3, <2>0, <3>1 DEF PushTail, SharedTypeOK
  <2>2. Cursors' /\ ConsumerHolds'
    <3>1. stail - shead < hcap
      BY <1>3 DEF ProducerHolds, PushTail
    <3>2. Cursors'
      BY <1>l, <2>0, <2>u, <2>r, <2>p, <3>1 DEF Cursors, SharedTypeOK
    <3>3. ConsumerHolds'
      BY <1>l, <2>0, <2>u, <2>p DEF ConsumerHolds, SharedTypeOK
    <3> QED BY <3>2, <3>3
  <2>3. ProducerHolds'
    <3>2. Len(sent) + 1 \in 1 .. Len(sent')
      BY <1>l, <2>0
    <3> QED BY <2>0, <2>p, <3>2 DEF ProducerHolds
  <2>4. Numbered'
    <3>1. producer.value <= offered /\ \A i \in 1 .. Len(sent) : sent[i] < producer.value
      BY <1>3 DEF PushTail, Numbered
    <3>2. ASSUME NEW i \in 1 .. Len(sent'), NEW j \in 1 .. Len(sent'), i < j
          PROVE  sent'[i] < sent'[j]
      <4>1. i \in 1 .. Len(sent)
        BY <1>l, <2>0, <3>2
      <4>2. CASE j = Len(sent) + 1
        BY <2>0, <3>1, <4>1, <4>2
      <4>3. CASE j # Len(sent) + 1
        <5>1. j \in 1 .. Len(sent)
          BY <1>l, <2>0, <4>3
        <5> QED BY <2>0, <3>2, <4>1, <5>1 DEF Numbered
      <4> QED BY <4>2, <4>3
    <3>3. ASSUME NEW i \in 1 .. Len(sent')
          PROVE  sent'[i] <= offered
      <4>1. CASE i = Len(sent) + 1
        BY <2>0, <3>1, <4>1
      <4>2. CASE i # Len(sent) + 1
        <5>1. i \in 1 .. Len(sent)
          BY <1>l, <2>0, <4>2
        <5> QED BY <2>0, <5>1 DEF Numbered
      <4> QED BY <4>1, <4>2
    <3> QED BY <2>u, <2>p, <3>2, <3>3 DEF Numbered
  <2>5. SharedExactlyOnce'
    <3>2. acked' \subseteq Values(sent')
      <4>1. ASSUME NEW v \in acked
            PROVE  v \in Values(sent')
        <5>1. PICK i \in 1 .. Len(sent) : v = sent[i]
          BY DEF SharedExactlyOnce, Values
        <5>2. i \in 1 .. Len(sent')
          BY <1>l, <2>0
        <5> QED BY <2>0, <5>1, <5>2 DEF Values
      <4> QED BY <2>u, <4>1
    <3>3. ASSUME NEW i \in Released' + 1 .. Len(sent')
          PROVE  scell'[(i - 1) % hcap'] = sent'[i]
      <4>1. CASE i = Len(sent) + 1
        <5>1. i - 1 = stail
          BY <1>l, <4>1
        <5> QED BY <1>3, <2>0, <2>u, <4>1, <5>1 DEF PushTail, ProducerHolds
      <4>2. CASE i # Len(sent) + 1
        <5>1. i \in Released + 1 .. Len(sent) /\ i \in 1 .. Len(sent)
          BY <1>l, <2>r, <2>0, <4>2
        <5> QED BY <2>0, <2>u, <5>1 DEF SharedExactlyOnce
      <4> QED BY <4>1, <4>2
    <3>4. Validate'
      BY <1>0, <2>u
    <3>5. {sent'[i] : i \in 1 .. Released'} = {sent[i] : i \in 1 .. Released}
      <4>1. \A i \in 1 .. Released : i \in 1 .. Len(sent)
        BY <1>l DEF SharedExactlyOnce
      <4> QED BY <2>0, <2>r, <4>1
    <3>6. Released' <= Len(sent')
      BY <1>l, <2>0, <2>r DEF SharedExactlyOnce
    <3> QED BY <2>u, <2>r, <3>2, <3>3, <3>4, <3>5, <3>6 DEF SharedExactlyOnce
  <2> QED BY <2>1, <2>2, <2>3, <2>4, <2>5
<1>4. CASE PushReturn
  <2>1. SharedTypeOK' /\ ProducerHolds' /\ ConsumerHolds'
    BY <1>4 DEF PushReturn, SharedTypeOK, ProducerHolds, ConsumerHolds, Idle
  <2>2. Numbered' /\ Cursors'
    BY <1>r, <1>4 DEF PushReturn, Numbered, Cursors, Idle
  <2>3. acked' \subseteq Values(sent)
    BY <1>4 DEF PushReturn, ProducerHolds, SharedExactlyOnce, Values
  <2> QED BY <1>0, <1>r, <1>4, <2>1, <2>2, <2>3 DEF PushReturn, SharedExactlyOnce
<1>5. CASE PopCell
  <2>1. shead < stail
    BY <1>5 DEF PopCell, Cursors, SharedTypeOK
  <2>2. scell[shead % hcap] = sent[shead + 1] /\ scell[shead % hcap] \in Nat
    <3>1. shead + 1 \in Released + 1 .. Len(sent) /\ (shead + 1) - 1 = shead
      BY <2>1, <1>l
    <3> QED BY <1>i, <3>1 DEF SharedTypeOK, SharedExactlyOnce
  <2>3. consumer' = [at |-> "release", value |-> scell[shead % hcap]]
    BY <1>5 DEF PopCell
  <2>a. UNCHANGED <<region, hcap, shead, stail, scell, producer, offered, sent, acked, got, perished, deaths>>
    BY <1>5 DEF PopCell
  <2>b. InHand' = InHand /\ Released' = Released
    <3>1. InHand = << >> /\ InHand' = << >>
      BY <1>5, <2>3 DEF PopCell, InHand
    <3> QED BY <2>a, <3>1 DEF Released
  <2>4. SharedTypeOK' /\ Cursors' /\ ProducerHolds' /\ Numbered'
    <3>1. Cursors' /\ ProducerHolds' /\ Numbered'
      BY <2>a, <2>b DEF Cursors, ProducerHolds, Numbered
    <3>2. SharedTypeOK'
      <4>1. consumer' \in [at : {"idle", "dead", "release", "return"}, value : Nat]
        BY <2>2, <2>3
      <4> QED BY <1>5, <4>1 DEF PopCell, SharedTypeOK
    <3> QED BY <3>1, <3>2
  <2>5. ConsumerHolds'
    BY <2>a, <2>1, <2>2, <2>3 DEF ConsumerHolds
  <2>6. SharedExactlyOnce'
    BY <1>0, <2>a, <2>b DEF SharedExactlyOnce
  <2> QED BY <2>4, <2>5, <2>6
<1>6. CASE PopHead
  <2>a. UNCHANGED <<region, hcap, stail, scell, producer, offered, sent, acked, got, perished, deaths>>
    BY <1>6 DEF PopHead
  <2>b. /\ consumer.at = "release" /\ consumer.value \in Nat
        /\ consumer'.at = "return" /\ consumer'.value = consumer.value
        /\ shead' = shead + 1
    BY <1>6 DEF PopHead, SharedTypeOK
  <2>1. SharedTypeOK'
    <3>1. consumer' \in [at : {"idle", "dead", "release", "return"}, value : Nat]
      BY <1>6 DEF PopHead, SharedTypeOK
    <3>2. shead + 1 \in Nat
      BY DEF SharedTypeOK
    <3> QED BY <2>a, <2>b, <3>1, <3>2 DEF SharedTypeOK
  <2>2. /\ InHand = << >> /\ Values(InHand) = {}
        /\ InHand' = <<consumer.value>> /\ Values(InHand') = {consumer.value}
        /\ Released' = Released + 1
    <3>1. InHand = << >> /\ InHand' = <<consumer.value>>
      BY <2>b DEF InHand
    <3>2. Released' = Released + 1
      BY <1>l, <2>a, <3>1 DEF Released
    <3> QED BY <3>1, <3>2 DEF Values
  <2>3. shead < stail /\ consumer.value = sent[shead + 1] /\ shead \in Nat /\ stail \in Nat
    BY <2>b DEF ConsumerHolds, SharedTypeOK
  <2>4. Cursors'
    BY <1>l, <2>a, <2>b, <2>2, <2>3 DEF Cursors, SharedTypeOK
  <2>5. Numbered'
    BY <2>a DEF Numbered
  <2>6. ProducerHolds'
    BY <2>a, <2>b, <2>3 DEF ProducerHolds, SharedTypeOK
  <2>7. ConsumerHolds'
    <3>1. ASSUME NEW i \in 1 .. Len(got)
          PROVE  got[i] < consumer.value
      <4>1. PICK k \in 1 .. Released : got[i] = sent[k]
        <5>1. got[i] \in Values(got)
          BY DEF Values
        <5> QED BY <5>1 DEF SharedExactlyOnce
      <4>2. k \in 1 .. Len(sent) /\ shead + 1 \in 1 .. Len(sent) /\ k < shead + 1
        BY <1>l, <2>3
      <4> QED BY <2>3, <4>1, <4>2 DEF Numbered
    <3> QED BY <2>a, <2>b, <3>1 DEF ConsumerHolds
  <2>8. SharedExactlyOnce'
    <3>1. Released + 1 <= Len(sent)
      BY <1>l, <2>3
    <3>2. {sent[i] : i \in 1 .. Released + 1} = {sent[i] : i \in 1 .. Released} \cup {consumer.value}
      <4>1. \A i : i \in 1 .. Released + 1 <=> i \in 1 .. Released \/ i = Released + 1
        BY <1>l
      <4>2. consumer.value = sent[Released + 1]
        BY <1>l, <2>3
      <4> QED BY <4>1, <4>2
    <3>3. {sent[i] : i \in 1 .. Released} \cup {consumer.value} =
            Values(got) \cup Values(perished) \cup {consumer.value}
      BY <2>2 DEF SharedExactlyOnce
    <3>4. \A i \in Released + 2 .. Len(sent) : i \in Released + 1 .. Len(sent)
      BY <1>l
    <3>5. (Released + 1) + 1 = Released + 2
      BY <1>l
    <3>6. \A i \in Released' + 1 .. Len(sent') : scell'[(i - 1) % hcap'] = sent'[i]
      BY <2>a, <2>2, <3>4, <3>5 DEF SharedExactlyOnce
    <3>7. {sent'[i] : i \in 1 .. Released'} = Values(got') \cup Values(perished') \cup Values(InHand')
      BY <2>a, <2>2, <3>2, <3>3
    <3> QED BY <1>0, <2>a, <2>2, <3>1, <3>6, <3>7 DEF SharedExactlyOnce
  <2> QED BY <2>1, <2>4, <2>5, <2>6, <2>7, <2>8
<1>7. CASE PopReturn
  <2>a. UNCHANGED <<region, hcap, shead, stail, scell, producer, offered, sent, acked, perished, deaths>>
    BY <1>7 DEF PopReturn
  <2>b. consumer.at = "return" /\ consumer.value \in Nat /\ consumer' = Idle /\ got' = Append(got, consumer.value)
    BY <1>7 DEF PopReturn, SharedTypeOK
  <2>0. /\ Len(got') = Len(got) + 1 /\ got'[Len(got) + 1] = consumer.value
        /\ \A i \in 1 .. Len(got) : got'[i] = got[i]
        /\ got' \in Seq(Nat)
    BY <2>b DEF SharedTypeOK
  <2>1. SharedTypeOK'
    BY <2>a, <2>b, <2>0 DEF SharedTypeOK, Idle
  <2>2. /\ InHand = <<consumer.value>> /\ Values(InHand) = {consumer.value}
        /\ InHand' = << >> /\ Values(InHand') = {}
        /\ Released' = Released
    <3>1. InHand = <<consumer.value>> /\ InHand' = << >>
      BY <2>b DEF InHand, Idle
    <3>2. Released' = Released
      BY <1>l, <2>a, <2>0, <3>1 DEF Released
    <3> QED BY <3>1, <3>2 DEF Values
  <2>3. Cursors' /\ Numbered' /\ ProducerHolds' /\ ConsumerHolds'
    BY <2>a, <2>b, <2>2 DEF Cursors, Numbered, ProducerHolds, ConsumerHolds, Idle
  <2>4. SharedExactlyOnce'
    <3>1. Values(got') = Values(got) \cup {consumer.value}
      <4>1. \A i : i \in 1 .. Len(got') <=> i \in 1 .. Len(got) \/ i = Len(got) + 1
        BY <1>l, <2>0
      <4> QED BY <2>0, <4>1 DEF Values
    <3>2. ASSUME NEW i \in 1 .. Len(got'), NEW j \in 1 .. Len(got'), i < j
          PROVE  got'[i] < got'[j]
      <4>1. i \in 1 .. Len(got)
        BY <1>l, <2>0, <3>2
      <4>2. CASE j = Len(got) + 1
        BY <2>b, <2>0, <4>1, <4>2 DEF ConsumerHolds
      <4>3. CASE j # Len(got) + 1
        <5>1. j \in 1 .. Len(got)
          BY <1>l, <2>0, <4>3
        <5> QED BY <2>0, <3>2, <4>1, <5>1 DEF SharedExactlyOnce
      <4> QED BY <4>2, <4>3
    <3>3. {sent'[i] : i \in 1 .. Released'} = Values(got') \cup Values(perished') \cup Values(InHand')
      <4>1. {sent[i] : i \in 1 .. Released} = Values(got) \cup Values(perished) \cup {consumer.value}
        BY <2>2 DEF SharedExactlyOnce
      <4> QED BY <2>a, <2>2, <3>1, <4>1
    <3> QED BY <1>0, <2>a, <2>2, <3>2, <3>3 DEF SharedExactlyOnce
  <2> QED BY <2>1, <2>3, <2>4
<1>8. CASE Die
  <2>a. /\ UNCHANGED <<region, hcap, shead, stail, scell, offered, sent, acked, got>>
        /\ deaths' = deaths + 1
    BY <1>8 DEF Die
  <2>1. CASE producer' = Dead /\ UNCHANGED <<consumer, perished>>
    <3>1. SharedTypeOK' /\ Cursors' /\ Numbered' /\ ProducerHolds' /\ ConsumerHolds'
      BY <1>r, <2>a, <2>1 DEF SharedTypeOK, Cursors, Numbered, ProducerHolds, ConsumerHolds, Dead
    <3>2. Len(perished) <= deaths + 1
      BY <1>l DEF SharedExactlyOnce, SharedTypeOK
    <3>3. SharedExactlyOnce'
      <4>1. Released' = Released /\ InHand' = InHand
        BY <1>r, <2>a, <2>1
      <4> QED BY <1>0, <2>a, <2>1, <3>2, <4>1 DEF SharedExactlyOnce
    <3> QED BY <3>1, <3>3
  <2>2. CASE consumer' = Dead /\ perished' = perished \o InHand /\ UNCHANGED producer
    <3>1. InHand \in Seq(Nat) /\ InHand' = << >> /\ Len(InHand) \in {0, 1}
      BY <2>2, Hand DEF InHand, Dead, SharedTypeOK
    <3>2. /\ perished' \in Seq(Nat) /\ Len(perished') = Len(perished) + Len(InHand)
          /\ Values(perished') = Values(perished) \cup Values(InHand)
      <4>1. CASE consumer.at # "return"
        <5>1. InHand = << >> /\ Values(InHand) = {}
          BY <4>1, Hand
        <5>2. perished' = perished
          BY <2>2, <5>1 DEF SharedTypeOK
        <5> QED BY <5>1, <5>2 DEF SharedTypeOK
      <4>2. CASE consumer.at = "return"
        <5>1. InHand = <<consumer.value>> /\ Values(InHand) = {consumer.value} /\ consumer.value \in Nat
          BY <4>2, Hand DEF SharedTypeOK
        <5>2. /\ perished' \in Seq(Nat) /\ Len(perished') = Len(perished) + 1
              /\ perished'[Len(perished) + 1] = consumer.value
              /\ \A i \in 1 .. Len(perished) : perished'[i] = perished[i]
          BY <2>2, <5>1 DEF SharedTypeOK
        <5>3. \A i : i \in 1 .. Len(perished') <=> i \in 1 .. Len(perished) \/ i = Len(perished) + 1
          BY <1>l, <5>2
        <5>4. Values(perished') = Values(perished) \cup {consumer.value}
          BY <5>2, <5>3 DEF Values
        <5>5. Len(InHand) = 1
          BY <5>1
        <5> QED BY <5>1, <5>2, <5>4, <5>5
      <4> QED BY <4>1, <4>2
    <3>3. Released' = Released
      BY <1>l, <2>a, <3>1, <3>2 DEF Released
    <3>4. SharedTypeOK' /\ Cursors' /\ Numbered' /\ ProducerHolds' /\ ConsumerHolds'
      <4>1. SharedTypeOK'
        BY <2>a, <2>2, <3>2 DEF SharedTypeOK, Dead
      <4> QED BY <2>a, <2>2, <3>3, <4>1 DEF Cursors, Numbered, ProducerHolds, ConsumerHolds, Dead
    <3>5. Len(perished') <= deaths'
      <4>1. Len(perished) <= deaths /\ deaths \in Nat
        BY DEF SharedExactlyOnce, SharedTypeOK
      <4>2. CASE Len(InHand) = 0
        BY <1>l, <2>a, <3>2, <4>1, <4>2
      <4>3. CASE Len(InHand) = 1
        BY <1>l, <2>a, <3>2, <4>1, <4>3
      <4> QED BY <3>1, <4>2, <4>3
    <3>6. {sent'[i] : i \in 1 .. Released'} = Values(got') \cup Values(perished') \cup Values(InHand')
      <4>1. Values(InHand') = {}
        BY <3>1 DEF Values
      <4>2. {sent[i] : i \in 1 .. Released} = Values(got) \cup Values(perished) \cup Values(InHand)
        BY DEF SharedExactlyOnce
      <4> QED BY <2>a, <3>2, <3>3, <4>1, <4>2
    <3>7. SharedExactlyOnce'
      BY <1>0, <2>a, <3>3, <3>5, <3>6 DEF SharedExactlyOnce
    <3> QED BY <3>4, <3>7
  <2> QED BY <1>8, <2>1, <2>2 DEF Die
<1>9. CASE Attach
  <2>1. UNCHANGED <<region, hcap, shead, stail, scell, offered, sent, acked, got, perished, deaths>>
    BY <1>9 DEF Attach
  <2>2. /\ producer' \in {producer, Idle}
        /\ consumer' = consumer \/ (consumer = Dead /\ consumer' = Idle)
    BY <1>9 DEF Attach
  <2>3. InHand' = InHand /\ Released' = Released
    <3>1. InHand' = InHand
      BY <2>2 DEF InHand, Idle, Dead
    <3> QED BY <2>1, <3>1 DEF Released
  <2>4. SharedTypeOK'
    BY <2>1, <2>2 DEF SharedTypeOK, Idle
  <2>5. Cursors' /\ Numbered' /\ ProducerHolds' /\ ConsumerHolds'
    BY <2>1, <2>2, <2>3 DEF Cursors, Numbered, ProducerHolds, ConsumerHolds, Idle
  <2>6. SharedExactlyOnce'
    BY <1>0, <2>1, <2>3 DEF SharedExactlyOnce
  <2> QED BY <2>4, <2>5, <2>6
<1>10. CASE UNCHANGED sharedVars
  BY <1>r, <1>s, <1>10 DEF sharedVars, SharedTypeOK, Cursors, Numbered, ProducerHolds, ConsumerHolds
<1> QED BY <1>1, <1>2, <1>3, <1>4, <1>5, <1>6, <1>7, <1>8, <1>9, <1>10 DEF SharedNext

\* For every length of the region and size of a slot, and although either
\* process may die at any step and another attach in its place: the slots are
\* inside the region, pop returns values in the order of their publication and
\* none twice, what is not released is whole in its cell, and a published
\* value is lost only in the hand of a consumer that dies between the store of
\* the head and the return of do_pop (shared.rs, layout.rs of tpt-t-ring).
THEOREM SharedExactlyOnceAlways == SharedSpec => []SharedExactlyOnce
<1>1. SharedSpec => []SharedInv
  BY SharedInvInit, SharedStep, PTL DEF SharedSpec
<1> QED BY <1>1, PTL DEF SharedInv

-----------------------------------------------------------------------------
(* The multiplexer.                                                             *)

\* What a writer is given.
Payload == [kind : {"command", "telemetry", "beacon", "ack", "ice", "sealed"}, len : Nat]

\* A datagram as a writer made it.
Intact(d) ==
    \E channel \in Nat, flags \in Nat, payload \in Payload : d = Framed(channel, flags, payload)

\* Every datagram on its way was written, whole.
MuxInv ==
    /\ \A d \in air : Intact(d) /\ Inbound(d) \in framed
    /\ stats \in [frames : Nat, malformed : Nat, crc : Nat, rejected : Nat]
    /\ DemuxedAsWritten

\* The header, the payload and the trailer of a datagram as it was written.
LEMMA FramedFields ==
  ASSUME NEW channel \in Nat, NEW flags \in Nat, NEW payload \in Payload
  PROVE  LET d == Framed(channel, flags, payload)
         IN  d = [magic |-> "TPT", version |-> 1, len |-> payload.len, channel |-> channel,
                  flags |-> flags, payload |-> payload, size |-> payload.len,
                  trailer |-> [magic |-> "TPT", version |-> 1, len |-> payload.len,
                               channel |-> channel, flags |-> flags, payload |-> payload]]
  BY DEF Framed, Crc32

\* A datagram whose sum is right and whose header fits is what was written:
\* damage to any one field shows.
LEMMA DamageShows ==
  ASSUME NEW d, Intact(d), NEW seen \in Damaged(d)
  PROVE  Verdict(seen) \in {"malformed", "crc"}
<1>1. PICK channel \in Nat, flags \in Nat, payload \in Payload : d = Framed(channel, flags, payload)
  BY DEF Intact
<1>2. d = [magic |-> "TPT", version |-> 1, len |-> payload.len, channel |-> channel,
           flags |-> flags, payload |-> payload, size |-> payload.len,
           trailer |-> [magic |-> "TPT", version |-> 1, len |-> payload.len,
                        channel |-> channel, flags |-> flags, payload |-> payload]]
  BY <1>1, FramedFields
<1>3. payload.len \in Nat /\ payload.kind # "damaged"
  BY DEF Payload
<1>4. /\ d.len = payload.len /\ d.size = payload.len /\ d.channel = channel /\ d.flags = flags
      /\ d.payload = payload
  BY <1>2
<1>5. CASE seen \in {[d EXCEPT !.magic = "other"], [d EXCEPT !.version = 2], [d EXCEPT !.size = @ - 1]}
  BY <1>2, <1>3, <1>5 DEF Verdict, HeaderFits
<1>6. CASE \E l \in {d.len - 1, d.len + 1} : seen = [d EXCEPT !.len = l]
  BY <1>2, <1>3, <1>6 DEF Verdict, HeaderFits
<1>7. CASE seen = [d EXCEPT !.payload.kind = "damaged"]
  <2>1. seen.payload.kind = "damaged" /\ seen.trailer = d.trailer
    BY <1>2, <1>7 DEF Payload
  <2>2. Crc32(seen).payload.kind = "damaged" /\ seen.trailer.payload.kind # "damaged"
    BY <1>2, <1>3, <2>1 DEF Crc32
  <2>3. Crc32(seen) # seen.trailer
    BY <2>2
  <2> QED BY <2>3 DEF Verdict
<1>8. CASE seen = [d EXCEPT !.trailer.payload.kind = "damaged"]
  <2>1. seen.payload = payload /\ seen.trailer.payload.kind = "damaged"
    BY <1>2, <1>8 DEF Payload
  <2>2. Crc32(seen).payload.kind # "damaged"
    BY <1>3, <2>1 DEF Crc32
  <2>3. Crc32(seen) # seen.trailer
    BY <2>1, <2>2
  <2> QED BY <2>3 DEF Verdict
<1>9. CASE \E c \in 0 .. 7 \ {d.channel} : seen = [d EXCEPT !.channel = c]
  <2>1. PICK c : c # channel /\ seen = [d EXCEPT !.channel = c]
    BY <1>4, <1>9
  <2>2. Crc32(seen).channel = c /\ seen.trailer.channel = channel
    BY <1>2, <2>1 DEF Crc32
  <2>3. Crc32(seen) # seen.trailer
    BY <2>1, <2>2
  <2> QED BY <2>3 DEF Verdict
<1>10. CASE \E f \in 0 .. 3 \ {d.flags} : seen = [d EXCEPT !.flags = f]
  <2>1. PICK f : f # flags /\ seen = [d EXCEPT !.flags = f]
    BY <1>4, <1>10
  <2>2. Crc32(seen).flags = f /\ seen.trailer.flags = flags
    BY <1>2, <2>1 DEF Crc32
  <2>3. Crc32(seen) # seen.trailer
    BY <2>1, <2>2
  <2> QED BY <2>3 DEF Verdict
<1> QED BY <1>5, <1>6, <1>7, <1>8, <1>9, <1>10 DEF Damaged

\* Writers, the network and recv_frame keep it.
LEMMA MuxInvStep == MuxInv /\ [MuxNext]_muxVars => MuxInv'
<1> SUFFICES ASSUME MuxInv, [MuxNext]_muxVars PROVE MuxInv'
  OBVIOUS
<1>1. CASE UNCHANGED muxVars
  BY <1>1 DEF MuxInv, muxVars, DemuxedAsWritten
<1>2. CASE \E w \in Writer, len \in 0 .. MaxPayload + 1 : Write(w, len)
  <2>1. PICK w \in Writer, len \in 0 .. MaxPayload + 1 : Write(w, len)
    BY <1>2
  <2>2. PICK p : p = [kind |-> w[3], len |-> len]
    OBVIOUS
  <2>3. w[1] \in Nat /\ w[2] \in Nat /\ p \in Payload
    <3>1. /\ w[1] \in Nat /\ w[2] \in Nat
          /\ w[3] \in {"command", "telemetry", "beacon", "ack", "ice", "sealed"}
      BY DEF Writer, Control, Telemetry, Ice, Mesh, Secure, ACK, RELIABLE, InnerControl, InnerTelemetry
    <3>2. len \in Nat
      BY MuxAssumption
    <3> QED BY <2>2, <3>1, <3>2 DEF Payload
  <2>4. Intact(Framed(w[1], w[2], p))
    BY <2>3 DEF Intact
  <2>5. /\ framed' = framed \cup {Inbound(Framed(w[1], w[2], p))}
        /\ air' = air \/ air' = air \cup {Framed(w[1], w[2], p)}
        /\ UNCHANGED <<inbound, stats, received>>
    BY <2>1, <2>2 DEF Write, Transmitted
  <2>6. \A d \in air' : Intact(d) /\ Inbound(d) \in framed'
    BY <2>4, <2>5 DEF MuxInv
  <2> QED BY <2>5, <2>6 DEF MuxInv, DemuxedAsWritten
<1>3. CASE Arrive
  <2>1. PICK d \in air : \E seen \in {d} \cup Damaged(d) : Receive(seen)
    BY <1>3 DEF Arrive
  <2>2. PICK seen \in {d} \cup Damaged(d) : Receive(seen)
    BY <2>1
  <2>3. PICK v : v = Verdict(seen)
    OBVIOUS
  <2>4. v \in {"malformed", "crc", "frames", "rejected"} /\ (v = "frames" => seen = d)
    BY <2>2, <2>3, DamageShows DEF MuxInv, Verdict
  <2>5. /\ received' = received + 1 /\ stats' = [stats EXCEPT ![v] = @ + 1]
        /\ UNCHANGED <<air, framed>>
        /\ inbound' = IF v # "frames" THEN inbound ELSE inbound \cup {Inbound(seen)}
    BY <2>2, <2>3 DEF Receive
  <2>6. inbound' \subseteq framed'
    BY <2>4, <2>5 DEF MuxInv, DemuxedAsWritten
  <2>7. /\ stats' \in [frames : Nat, malformed : Nat, crc : Nat, rejected : Nat]
        /\ received' = stats'.frames + stats'.malformed + stats'.crc + stats'.rejected
    <3>1. /\ stats \in [frames : Nat, malformed : Nat, crc : Nat, rejected : Nat]
          /\ received = stats.frames + stats.malformed + stats.crc + stats.rejected
      BY DEF MuxInv, DemuxedAsWritten
    <3>2. CASE v = "malformed"
      BY <2>5, <3>1, <3>2
    <3>3. CASE v = "crc"
      BY <2>5, <3>1, <3>3
    <3>4. CASE v = "frames"
      BY <2>5, <3>1, <3>4
    <3>5. CASE v = "rejected"
      BY <2>5, <3>1, <3>5
    <3> QED BY <2>4, <3>2, <3>3, <3>4, <3>5
  <2> QED BY <2>5, <2>6, <2>7 DEF MuxInv, DemuxedAsWritten
<1> QED BY <1>1, <1>2, <1>3 DEF MuxNext

\* Whatever the network does to the datagrams, what demux hands over was
\* written with that channel, those flags and that payload, and each datagram
\* taken from the socket is counted once (demux and recv_frame of mux.rs).
THEOREM DemuxedAlways == MuxSpec => []DemuxedAsWritten
<1>1. MuxInit => MuxInv
  BY DEF MuxInit, NoStats, MuxInv, DemuxedAsWritten
<1>2. MuxInv /\ [MuxNext]_muxVars => MuxInv'
  BY MuxInvStep
<1>3. MuxInv => DemuxedAsWritten
  BY DEF MuxInv
<1> QED BY <1>1, <1>2, <1>3, PTL DEF MuxSpec

-----------------------------------------------------------------------------
(* The event loops.                                                              *)

\* The types of the registrations and of the kernel's lists.
LoopTypes ==
    /\ armed \subseteq [fd : Fd, filter : Flag, token : Nat]
    /\ edge \subseteq Fd \X Flag
    /\ activity \in [Fd -> [Flag -> Nat]]
    /\ watched \in [Fd -> [token : Nat, interest : SUBSET Flag]]
    /\ nextToken \in Nat

\* The kernel keeps one token per filter of a descriptor, and its ready list
\* has armed filters only.
ArmedOnce ==
    /\ \A d, e \in armed : d.fd = e.fd /\ d.filter = e.filter => d = e
    /\ \A x \in edge : \E e \in armed : x = <<e.fd, e.filter>>

\* The filters of a registration are armed under its token.
WatchedArmed ==
    \A fd \in Fd : watched[fd] # NoReg =>
       \A f \in Mask(watched[fd].interest) :
          [fd |-> fd, filter |-> f, token |-> watched[fd].token] \in armed

\* A filter of a registration is ready while its handler has something to see.
EdgePending ==
    \A fd \in Fd : watched[fd] # NoReg =>
       \A f \in Mask(watched[fd].interest), flag \in Flag :
          Wakes(f, flag) /\ activity[fd][flag] > 0 => <<fd, f>> \in edge

\* With epoll nothing is armed that is not registered.
EpollCurrent ==
    backend = "epoll" => /\ late = {}
                         /\ \A e \in armed : watched[e.fd].token = e.token

\* Who registers asks for input.
Asked == \A fd \in Fd : watched[fd] # NoReg => "READ" \in watched[fd].interest

\* The inductive invariant of the loops.
LoopInv ==
    /\ backend \in {"epoll", "kqueue", "iocp"}
    /\ Unix => LoopTypes /\ ArmedOnce /\ WatchedArmed /\ EdgePending /\ EpollCurrent /\ Asked

\* The invariant says what EventsExact asks.
LEMMA LoopInvExact == ASSUME LoopInv PROVE EventsExact
<1>1. NoLateEvent
  BY DEF LoopInv, Unix, EpollCurrent, NoLateEvent
<1>2. NoEdgeLost
  <2> SUFFICES ASSUME Unix, NEW fd \in Fd, watched[fd] # NoReg,
                      NEW flag \in watched[fd].interest \cup {"ERROR"}, activity[fd][flag] > 0
               PROVE  \E e \in armed : /\ e.fd = fd /\ e.token = watched[fd].token
                                       /\ Wakes(e.filter, flag) /\ <<fd, e.filter>> \in edge
    BY DEF NoEdgeLost
  <2>1. LoopTypes /\ WatchedArmed /\ EdgePending /\ Asked /\ backend \in {"epoll", "kqueue"}
    BY DEF LoopInv, Unix
  <2>2. \E f \in Mask(watched[fd].interest) : Wakes(f, flag)
    <3>1. CASE flag \in watched[fd].interest
      BY <3>1 DEF Mask, Wakes
    <3>2. CASE flag = "ERROR" /\ backend = "epoll"
      BY <3>2 DEF Mask, Wakes
    <3>3. CASE flag = "ERROR" /\ backend = "kqueue"
      BY <2>1, <3>3 DEF Mask, Wakes, Asked
    <3> QED BY <2>1, <3>1, <3>2, <3>3
  <2>3. PICK f \in Mask(watched[fd].interest) : Wakes(f, flag)
    BY <2>2
  <2>4. flag \in Flag
    BY <2>1 DEF LoopTypes, Flag
  <2>5. PICK e : e = [fd |-> fd, filter |-> f, token |-> watched[fd].token]
    OBVIOUS
  <2>6. e \in armed /\ e.fd = fd /\ e.filter = f /\ e.token = watched[fd].token
    BY <2>1, <2>3, <2>5 DEF WatchedArmed
  <2>7. <<fd, f>> \in edge
    BY <2>1, <2>3, <2>4 DEF EdgePending
  <2> QED BY <2>3, <2>6, <2>7
<1> QED BY <1>1, <1>2 DEF EventsExact

\* Nothing is registered at first.
LEMMA LoopInvInit == LoopInit => LoopInv
<1> SUFFICES ASSUME LoopInit PROVE LoopInv
  OBVIOUS
<1>1. LoopTypes
  BY DEF LoopInit, UnixLoop, LoopTypes, Quiet, NoReg
<1>2. ArmedOnce /\ WatchedArmed /\ EdgePending /\ EpollCurrent /\ Asked
  BY DEF LoopInit, UnixLoop, ArmedOnce, WatchedArmed, EdgePending, EpollCurrent, Asked
<1> QED BY <1>1, <1>2 DEF LoopInit, LoopInv

\* Arming filters of a descriptor, in what the invariant says of the kernel.
LEMMA Arms ==
  ASSUME LoopTypes, ArmedOnce, NEW fd \in Fd, NEW token \in Nat, NEW filters \in SUBSET Flag,
         Arm(fd, token, filters)
  PROVE  /\ armed' \subseteq [fd : Fd, filter : Flag, token : Nat] /\ edge' \subseteq Fd \X Flag
         /\ \A d, e \in armed' : d.fd = e.fd /\ d.filter = e.filter => d = e
         /\ \A x \in edge' : \E e \in armed' : x = <<e.fd, e.filter>>
         /\ \A f \in filters : [fd |-> fd, filter |-> f, token |-> token] \in armed'
         /\ \A e \in armed : e.fd # fd => e \in armed'
         /\ \A e \in armed' : e \in armed \/ (e.fd = fd /\ e.token = token)
         /\ edge \subseteq edge'
         /\ \A f \in filters, flag \in Flag :
               Wakes(f, flag) /\ activity[fd][flag] > 0 => <<fd, f>> \in edge'
<1> DEFINE New == Entries(fd, token, filters)
<1>1. /\ armed' = {e \in armed : ~(e.fd = fd /\ e.filter \in filters)} \cup New
      /\ edge' = edge \cup ReadyNow(fd, filters)
  BY DEF Arm
<1>2. \A e : e \in New <=> \E f \in filters : e = [fd |-> fd, filter |-> f, token |-> token]
  BY DEF Entries
<1>3. \A e \in New : e.fd = fd /\ e.filter \in filters /\ e.token = token
  BY <1>2
<1>4. armed' \subseteq [fd : Fd, filter : Flag, token : Nat]
  <2>1. New \subseteq [fd : Fd, filter : Flag, token : Nat]
    BY <1>2
  <2> QED BY <1>1, <2>1 DEF LoopTypes
<1>5. \A d, e \in New : d.filter = e.filter => d = e
  BY <1>2
<1>6. \A d, e \in armed' : d.fd = e.fd /\ d.filter = e.filter => d = e
  <2> HIDE DEF New
  <2> SUFFICES ASSUME NEW d \in armed', NEW e \in armed', d.fd = e.fd, d.filter = e.filter
               PROVE  d = e
    OBVIOUS
  <2>1. CASE d \in New
    BY <1>1, <1>3, <1>5, <2>1
  <2>2. CASE d \notin New
    BY <1>1, <1>3, <2>2 DEF ArmedOnce
  <2> QED BY <2>1, <2>2
<1>7. \A x \in ReadyNow(fd, filters) : \E f \in filters : x = <<fd, f>>
  BY DEF ReadyNow
<1>8. edge' \subseteq Fd \X Flag
  BY <1>1, <1>7 DEF LoopTypes
<1>9. \A f \in filters : [fd |-> fd, filter |-> f, token |-> token] \in armed'
  BY <1>1, <1>2
<1>10. \A x \in edge' : \E e \in armed' : x = <<e.fd, e.filter>>
  <2> SUFFICES ASSUME NEW x \in edge' PROVE \E e \in armed' : x = <<e.fd, e.filter>>
    OBVIOUS
  <2>1. ASSUME NEW f \in filters, x = <<fd, f>> PROVE \E e \in armed' : x = <<e.fd, e.filter>>
    <3>1. PICK e : e = [fd |-> fd, filter |-> f, token |-> token]
      OBVIOUS
    <3> QED BY <1>9, <2>1, <3>1
  <2>2. CASE x \in edge
    <3>1. PICK e \in armed : x = <<e.fd, e.filter>>
      BY <2>2 DEF ArmedOnce
    <3>2. CASE e.fd = fd /\ e.filter \in filters
      BY <2>1, <3>1, <3>2
    <3>3. CASE ~(e.fd = fd /\ e.filter \in filters)
      BY <1>1, <3>1, <3>3
    <3> QED BY <3>2, <3>3
  <2> QED BY <1>1, <1>7, <2>1, <2>2
<1>11. \A f \in filters, flag \in Flag :
         Wakes(f, flag) /\ activity[fd][flag] > 0 => <<fd, f>> \in edge'
  BY <1>1 DEF ReadyNow
<1> QED BY <1>1, <1>3, <1>4, <1>6, <1>8, <1>9, <1>10, <1>11

\* The operators read the platform the program was built for, which stays.
LEMMA SamePlatform ==
  ASSUME backend' = backend
  PROVE  /\ Unix' <=> Unix
         /\ \A i : Mask(i)' = Mask(i)
         /\ \A f, g : Wakes(f, g)' <=> Wakes(f, g)
<1>1. Unix' <=> Unix
  BY DEF Unix
<1>2. ASSUME NEW i PROVE Mask(i)' = Mask(i)
  BY DEF Mask
<1>3. ASSUME NEW g, NEW h PROVE Wakes(g, h)' <=> Wakes(g, h)
  BY DEF Wakes
<1> QED BY <1>1, <1>2, <1>3

\* What the invariant says in the next state, with the operators of this one.
LEMMA LoopInvNext ==
  ASSUME backend' = backend, backend \in {"epoll", "kqueue"}, LoopTypes', ArmedOnce',
         \A fd \in Fd : watched'[fd] # NoReg =>
            /\ "READ" \in watched'[fd].interest
            /\ \A f \in Mask(watched'[fd].interest) :
                  [fd |-> fd, filter |-> f, token |-> watched'[fd].token] \in armed'
            /\ \A f \in Mask(watched'[fd].interest), flag \in Flag :
                  Wakes(f, flag) /\ activity'[fd][flag] > 0 => <<fd, f>> \in edge',
         backend = "epoll" => late' = {} /\ \A e \in armed' : watched'[e.fd].token = e.token
  PROVE  LoopInv'
<1>1. WatchedArmed'
  BY DEF WatchedArmed, Mask
<1>2. EdgePending'
  BY DEF EdgePending, Mask, Wakes
<1>3. EpollCurrent' /\ Asked'
  BY DEF EpollCurrent, Asked
<1> QED BY <1>1, <1>2, <1>3 DEF LoopInv

\* Every call, every edge and every batch keeps it.
LEMMA LoopInvStep == LoopInv /\ [LoopNext]_loopVars => LoopInv'
<1> SUFFICES ASSUME LoopInv, [LoopNext]_loopVars PROVE LoopInv'
  OBVIOUS
<1>1. backend' = backend
  BY DEF LoopNext, loopVars, Register, ArmFails, Unregister, CloseFd, Activity, RegisterHandle,
     UnregisterHandle, PostWakeup, Dispatch, DispatchOne
<1>2. CASE ~ Unix
  BY <1>1, <1>2 DEF LoopInv, Unix
<1> SUFFICES ASSUME Unix PROVE LoopInv'
  BY <1>2
<1>0. /\ LoopTypes /\ ArmedOnce /\ WatchedArmed /\ EdgePending /\ EpollCurrent /\ Asked
      /\ backend \in {"epoll", "kqueue"}
  BY DEF LoopInv, Unix
<1>3. CASE UNCHANGED loopVars
  <2>1. LoopTypes' /\ ArmedOnce'
    BY <1>0, <1>3 DEF loopVars, LoopTypes, ArmedOnce
  <2>2. UNCHANGED <<armed, edge, watched, activity, late>>
    BY <1>3 DEF loopVars
  <2> QED BY <1>0, <1>1, <2>1, <2>2, LoopInvNext DEF WatchedArmed, EdgePending, EpollCurrent, Asked
<1>4. ASSUME NEW fd \in Fd, NEW interest \in Interest, Register(fd, interest) PROVE LoopInv'
  <2>1. /\ Arm(fd, nextToken, Mask(interest)) /\ UNCHANGED <<activity, late>>
        /\ watched' = [watched EXCEPT ![fd] = [token |-> nextToken, interest |-> interest]]
        /\ nextToken' = nextToken + 1
        /\ backend = "epoll" => \A e \in armed : e.fd # fd
    BY <1>4 DEF Register, Registered
  <2>2. Mask(interest) \in SUBSET Flag /\ nextToken \in Nat /\ interest \in SUBSET Flag
        /\ "READ" \in interest
    BY <1>0 DEF Mask, Interest, Flag, LoopTypes
  <2>3. /\ armed' \subseteq [fd : Fd, filter : Flag, token : Nat] /\ edge' \subseteq Fd \X Flag
        /\ \A d, e \in armed' : d.fd = e.fd /\ d.filter = e.filter => d = e
        /\ \A x \in edge' : \E e \in armed' : x = <<e.fd, e.filter>>
        /\ \A f \in Mask(interest) : [fd |-> fd, filter |-> f, token |-> nextToken] \in armed'
        /\ \A e \in armed : e.fd # fd => e \in armed'
        /\ \A e \in armed' : e \in armed \/ (e.fd = fd /\ e.token = nextToken)
        /\ edge \subseteq edge'
        /\ \A f \in Mask(interest), flag \in Flag :
              Wakes(f, flag) /\ activity[fd][flag] > 0 => <<fd, f>> \in edge'
    BY <1>0, <2>1, <2>2, Arms
  <2>4. /\ watched'[fd].token = nextToken /\ watched'[fd].interest = interest
        /\ \A g \in Fd \ {fd} : watched'[g] = watched[g]
    BY <1>0, <2>1 DEF LoopTypes
  <2>5. LoopTypes'
    <3>1. watched' \in [Fd -> [token : Nat, interest : SUBSET Flag]]
      BY <1>0, <2>1, <2>2 DEF LoopTypes
    <3> QED BY <1>0, <2>1, <2>2, <2>3, <3>1 DEF LoopTypes
  <2>6. ArmedOnce'
    BY <2>3 DEF ArmedOnce
  <2>7. ASSUME NEW g \in Fd, watched'[g] # NoReg
        PROVE  /\ "READ" \in watched'[g].interest
               /\ \A f \in Mask(watched'[g].interest) :
                     [fd |-> g, filter |-> f, token |-> watched'[g].token] \in armed'
               /\ \A f \in Mask(watched'[g].interest), flag \in Flag :
                     Wakes(f, flag) /\ activity'[g][flag] > 0 => <<g, f>> \in edge'
    <3>1. CASE g = fd
      BY <2>1, <2>2, <2>3, <2>4, <3>1
    <3>2. CASE g # fd
      <4>1. watched'[g] = watched[g] /\ watched[g] # NoReg
        BY <2>4, <2>7, <3>2
      <4>2. ASSUME NEW f \in Mask(watched[g].interest)
            PROVE  [fd |-> g, filter |-> f, token |-> watched[g].token] \in armed'
        <5>1. PICK e : e = [fd |-> g, filter |-> f, token |-> watched[g].token]
          OBVIOUS
        <5>2. e \in armed /\ e.fd # fd
          BY <1>0, <3>2, <4>1, <4>2, <5>1 DEF WatchedArmed
        <5> QED BY <2>3, <5>1, <5>2
      <4> QED BY <1>0, <2>1, <2>3, <4>1, <4>2 DEF EdgePending, Asked
    <3> QED BY <3>1, <3>2
  <2>8. backend = "epoll" => late' = {} /\ \A e \in armed' : watched'[e.fd].token = e.token
    <3> SUFFICES ASSUME backend = "epoll"
                 PROVE  late' = {} /\ \A e \in armed' : watched'[e.fd].token = e.token
      OBVIOUS
    <3>1. \A e \in armed : watched'[e.fd].token = e.token
      BY <1>0, <2>1, <2>4 DEF EpollCurrent, LoopTypes
    <3> QED BY <1>0, <2>1, <2>3, <2>4, <3>1 DEF EpollCurrent
  <2> QED BY <1>0, <1>1, <2>5, <2>6, <2>7, <2>8, LoopInvNext
<1>5. ASSUME NEW fd \in Fd, ArmFails(fd) PROVE LoopInv'
  <2>1. /\ Arm(fd, nextToken, {"READ"}) /\ UNCHANGED <<activity, late, watched>>
        /\ nextToken' = nextToken + 1 /\ backend = "kqueue" /\ watched[fd] = NoReg
    BY <1>5 DEF ArmFails
  <2>2. {"READ"} \in SUBSET Flag /\ nextToken \in Nat
    BY <1>0 DEF Flag, LoopTypes
  <2>3. /\ armed' \subseteq [fd : Fd, filter : Flag, token : Nat] /\ edge' \subseteq Fd \X Flag
        /\ \A d, e \in armed' : d.fd = e.fd /\ d.filter = e.filter => d = e
        /\ \A x \in edge' : \E e \in armed' : x = <<e.fd, e.filter>>
        /\ \A e \in armed : e.fd # fd => e \in armed'
        /\ edge \subseteq edge'
    BY <1>0, <2>1, <2>2, Arms
  <2>4. LoopTypes' /\ ArmedOnce'
    BY <1>0, <2>1, <2>2, <2>3 DEF LoopTypes, ArmedOnce
  <2>5. ASSUME NEW g \in Fd, watched[g] # NoReg, NEW f \in Mask(watched[g].interest)
        PROVE  [fd |-> g, filter |-> f, token |-> watched[g].token] \in armed'
    <3>1. PICK e : e = [fd |-> g, filter |-> f, token |-> watched[g].token]
      OBVIOUS
    <3>2. e \in armed /\ e.fd # fd
      BY <1>0, <2>1, <2>5, <3>1 DEF WatchedArmed
    <3> QED BY <2>3, <3>1, <3>2
  <2>6. ASSUME NEW g \in Fd, watched'[g] # NoReg
        PROVE  /\ "READ" \in watched'[g].interest
               /\ \A f \in Mask(watched'[g].interest) :
                     [fd |-> g, filter |-> f, token |-> watched'[g].token] \in armed'
               /\ \A f \in Mask(watched'[g].interest), flag \in Flag :
                     Wakes(f, flag) /\ activity'[g][flag] > 0 => <<g, f>> \in edge'
    BY <1>0, <2>1, <2>3, <2>5, <2>6 DEF EdgePending, Asked
  <2>7. backend # "epoll"
    BY <2>1
  <2> QED BY <1>0, <1>1, <2>4, <2>6, <2>7, LoopInvNext
<1>6. ASSUME NEW fd \in Fd, Unregister(fd) PROVE LoopInv'
  <2>1. PICK r \in regs : r.fd = fd /\ armed' = {e \in armed : ~Disarms(r, e)}
    BY <1>6 DEF Unregister
  <2>2. /\ edge' = {x \in edge : \E e \in armed' : x = <<e.fd, e.filter>>}
        /\ watched' = [watched EXCEPT ![fd] = NoReg]
        /\ UNCHANGED <<activity, nextToken, late>>
    BY <1>6 DEF Unregister
  <2>3. /\ \A e \in armed : e.fd # fd => e \in armed'
        /\ backend = "epoll" => \A e \in armed' : e.fd # fd
    BY <2>1 DEF Disarms
  <2>4. watched'[fd] = NoReg /\ \A g \in Fd \ {fd} : watched'[g] = watched[g]
    BY <1>0, <2>2 DEF LoopTypes
  <2>5. LoopTypes' /\ ArmedOnce'
    <3>1. watched' \in [Fd -> [token : Nat, interest : SUBSET Flag]]
      BY <1>0, <2>2 DEF LoopTypes, NoReg
    <3> QED BY <1>0, <2>1, <2>2, <3>1 DEF LoopTypes, ArmedOnce
  <2>6. ASSUME NEW g \in Fd, watched'[g] # NoReg
        PROVE  /\ "READ" \in watched'[g].interest
               /\ \A f \in Mask(watched'[g].interest) :
                     [fd |-> g, filter |-> f, token |-> watched'[g].token] \in armed'
               /\ \A f \in Mask(watched'[g].interest), flag \in Flag :
                     Wakes(f, flag) /\ activity'[g][flag] > 0 => <<g, f>> \in edge'
    <3>1. g # fd /\ watched'[g] = watched[g] /\ watched[g] # NoReg
      BY <2>4, <2>6
    <3>2. ASSUME NEW f \in Mask(watched[g].interest)
          PROVE  /\ [fd |-> g, filter |-> f, token |-> watched[g].token] \in armed'
                 /\ <<g, f>> \in edge => <<g, f>> \in edge'
      <4>1. PICK e : e = [fd |-> g, filter |-> f, token |-> watched[g].token]
        OBVIOUS
      <4>2. e \in armed /\ e.fd = g /\ e.filter = f
        BY <1>0, <3>1, <3>2, <4>1 DEF WatchedArmed
      <4>3. e \in armed'
        BY <2>3, <3>1, <4>2
      <4> QED BY <2>2, <4>1, <4>2, <4>3
    <3> QED BY <1>0, <2>2, <3>1, <3>2 DEF EdgePending, Asked
  <2>7. backend = "epoll" => late' = {} /\ \A e \in armed' : watched'[e.fd].token = e.token
    BY <1>0, <2>1, <2>2, <2>3, <2>4 DEF EpollCurrent, LoopTypes
  <2> QED BY <1>0, <1>1, <2>5, <2>6, <2>7, LoopInvNext
<1>7. ASSUME NEW fd \in Fd, CloseFd(fd) PROVE LoopInv'
  <2>1. /\ armed' = {e \in armed : e.fd # fd} /\ edge' = {x \in edge : x[1] # fd}
        /\ activity' = [activity EXCEPT ![fd] = Quiet] /\ watched' = [watched EXCEPT ![fd] = NoReg]
        /\ UNCHANGED <<nextToken, late>>
    BY <1>7 DEF CloseFd
  <2>2. /\ watched'[fd] = NoReg
        /\ \A g \in Fd \ {fd} : watched'[g] = watched[g] /\ activity'[g] = activity[g]
    BY <1>0, <2>1 DEF LoopTypes
  <2>3. LoopTypes'
    <3>1. watched' \in [Fd -> [token : Nat, interest : SUBSET Flag]]
      BY <1>0, <2>1 DEF LoopTypes, NoReg
    <3>2. activity' \in [Fd -> [Flag -> Nat]]
      BY <1>0, <2>1 DEF LoopTypes, Quiet
    <3> QED BY <1>0, <2>1, <3>1, <3>2 DEF LoopTypes
  <2>4. ArmedOnce'
    BY <1>0, <2>1 DEF ArmedOnce
  <2>5. ASSUME NEW g \in Fd, watched'[g] # NoReg
        PROVE  /\ "READ" \in watched'[g].interest
               /\ \A f \in Mask(watched'[g].interest) :
                     [fd |-> g, filter |-> f, token |-> watched'[g].token] \in armed'
               /\ \A f \in Mask(watched'[g].interest), flag \in Flag :
                     Wakes(f, flag) /\ activity'[g][flag] > 0 => <<g, f>> \in edge'
    <3>1. g # fd /\ watched'[g] = watched[g] /\ watched[g] # NoReg /\ activity'[g] = activity[g]
      BY <2>2, <2>5
    <3>2. ASSUME NEW f \in Mask(watched[g].interest)
          PROVE  /\ [fd |-> g, filter |-> f, token |-> watched[g].token] \in armed'
                 /\ <<g, f>> \in edge => <<g, f>> \in edge'
      BY <1>0, <2>1, <3>1, <3>2 DEF WatchedArmed
    <3> QED BY <1>0, <3>1, <3>2 DEF EdgePending, Asked
  <2>6. backend = "epoll" => late' = {} /\ \A e \in armed' : watched'[e.fd].token = e.token
    BY <1>0, <2>1, <2>2 DEF EpollCurrent, LoopTypes
  <2> QED BY <1>0, <1>1, <2>3, <2>4, <2>5, <2>6, LoopInvNext
<1>8. ASSUME NEW fd \in Fd, NEW flag \in Flag, Activity(fd, flag) PROVE LoopInv'
  <2>1. /\ activity' = [activity EXCEPT ![fd][flag] = @ + 1]
        /\ edge' = edge \cup {<<e.fd, e.filter>> : e \in {e \in armed : e.fd = fd /\ Wakes(e.filter, flag)}}
        /\ UNCHANGED <<armed, watched, nextToken, late>>
    BY <1>8 DEF Activity
  <2>2. LoopTypes'
    <3>1. activity' \in [Fd -> [Flag -> Nat]]
      BY <1>0, <2>1 DEF LoopTypes
    <3> QED BY <1>0, <2>1, <3>1 DEF LoopTypes
  <2>3. ArmedOnce'
    BY <1>0, <2>1 DEF ArmedOnce
  <2>4. \A g \in Fd, h \in Flag : activity'[g][h] = IF g = fd /\ h = flag THEN activity[g][h] + 1 ELSE activity[g][h]
    BY <1>0, <2>1 DEF LoopTypes
  <2>5. ASSUME NEW g \in Fd, watched[g] # NoReg, NEW f \in Mask(watched[g].interest), NEW h \in Flag,
               Wakes(f, h), activity'[g][h] > 0
        PROVE  <<g, f>> \in edge'
    <3>1. CASE g = fd /\ h = flag
      <4>1. PICK e : e = [fd |-> g, filter |-> f, token |-> watched[g].token]
        OBVIOUS
      <4>2. e \in armed /\ e.fd = g /\ e.filter = f
        BY <1>0, <2>5, <4>1 DEF WatchedArmed
      <4> QED BY <2>1, <2>5, <3>1, <4>2
    <3>2. CASE ~ (g = fd /\ h = flag)
      BY <1>0, <2>1, <2>4, <2>5, <3>2 DEF EdgePending
    <3> QED BY <3>1, <3>2
  <2> QED BY <1>0, <1>1, <2>1, <2>2, <2>3, <2>5, LoopInvNext DEF WatchedArmed, EpollCurrent, Asked
<1>9. CASE Dispatch
  <2>1. PICK batch \in Batches :
         LET reported == {Event(x[1], x[2]) : x \in batch}
             seen(fd) == UNION {e.ready : e \in {e \in reported : e.fd = fd /\ watched[fd].token = e.token}}
         IN  /\ edge' = edge \ batch
             /\ activity' = [fd \in Fd |-> [f \in Flag |-> IF f \in seen(fd) THEN 0 ELSE activity[fd][f]]]
             /\ late' = late \cup {e.token : e \in {e \in reported : watched[e.fd].token # e.token}}
    BY <1>9 DEF Dispatch
  <2> DEFINE reported == {Event(x[1], x[2]) : x \in batch}
             seen(fd) == UNION {e.ready : e \in {e \in reported : e.fd = fd /\ watched[fd].token = e.token}}
  <2>2. /\ edge' = edge \ batch /\ UNCHANGED <<armed, watched, nextToken>>
        /\ activity' = [fd \in Fd |-> [f \in Flag |-> IF f \in seen(fd) THEN 0 ELSE activity[fd][f]]]
        /\ late' = late \cup {e.token : e \in {e \in reported : watched[e.fd].token # e.token}}
    BY <1>9, <2>1 DEF Dispatch
  <2>3. batch \subseteq edge
    BY DEF Batches
  <2>4. ASSUME NEW x \in batch
        PROVE  \E e \in armed : /\ e.fd = x[1] /\ e.filter = x[2] /\ x = <<e.fd, e.filter>>
                                /\ Event(x[1], x[2]).token = e.token
                                /\ Event(x[1], x[2]).fd = x[1]
    <3>1. PICK e \in armed : x = <<e.fd, e.filter>>
      BY <1>0, <2>3, <2>4 DEF ArmedOnce
    <3>2. e.fd = x[1] /\ e.filter = x[2]
      BY <3>1
    <3>3. (CHOOSE d \in armed : d.fd = x[1] /\ d.filter = x[2]) = e
      BY <1>0, <3>1, <3>2 DEF ArmedOnce
    <3>4. Event(x[1], x[2]).token = e.token /\ Event(x[1], x[2]).fd = x[1]
      BY <3>3 DEF Event
    <3> QED BY <3>1, <3>2, <3>4
  <2>5. LoopTypes' /\ ArmedOnce'
    <3>1. activity' \in [Fd -> [Flag -> Nat]]
      <4> HIDE DEF seen
      <4> QED BY <1>0, <2>2 DEF LoopTypes
    <3> QED BY <1>0, <2>2, <3>1 DEF LoopTypes, ArmedOnce
  <2>6. ASSUME NEW g \in Fd, watched[g] # NoReg, NEW f \in Mask(watched[g].interest), NEW h \in Flag,
               Wakes(f, h), activity'[g][h] > 0
        PROVE  <<g, f>> \in edge'
    <3>1. h \notin seen(g) /\ activity[g][h] > 0
      <4> HIDE DEF seen
      <4> QED BY <2>2, <2>6
    <3>2. <<g, f>> \in edge
      BY <1>0, <2>6, <3>1 DEF EdgePending
    <3>3. ASSUME <<g, f>> \in batch PROVE FALSE
      <4>1. PICK x : x = <<g, f>>
        OBVIOUS
      <4>2. PICK e \in armed : /\ e.fd = x[1] /\ e.filter = x[2]
                               /\ Event(x[1], x[2]).token = e.token /\ Event(x[1], x[2]).fd = x[1]
        BY <2>4, <3>3, <4>1
      <4>3. e = [fd |-> g, filter |-> f, token |-> watched[g].token]
        BY <1>0, <2>6, <4>1, <4>2 DEF ArmedOnce, WatchedArmed
      <4>4. Event(g, f).token = watched[g].token /\ Event(g, f).fd = g /\ Event(g, f) \in reported
        BY <3>3, <4>1, <4>2, <4>3
      <4>5. h \in Event(g, f).ready
        <5>1. CASE backend = "epoll"
          <6>1. h = f
            BY <2>6, <5>1 DEF Wakes
          <6> QED BY <2>6, <3>2, <5>1, <6>1 DEF Event, EpollReady, Flag
        <5>2. CASE backend = "kqueue"
          BY <2>6, <3>1, <5>2 DEF Event, KqueueReady, Wakes
        <5> QED BY <1>0, <5>1, <5>2
      <4>6. h \in seen(g)
        BY <4>4, <4>5
      <4> QED BY <3>1, <4>6
    <3> QED BY <2>2, <3>2, <3>3
  <2>7. backend = "epoll" => late' = {} /\ \A e \in armed' : watched'[e.fd].token = e.token
    <3> SUFFICES ASSUME backend = "epoll" PROVE late' = {} /\ \A e \in armed : watched[e.fd].token = e.token
      BY <2>2
    <3>1. late = {} /\ \A e \in armed : watched[e.fd].token = e.token
      BY <1>0 DEF EpollCurrent
    <3>2. ASSUME NEW v \in reported PROVE watched[v.fd].token = v.token
      <4>1. PICK x \in batch : v = Event(x[1], x[2])
        BY <3>2
      <4> QED BY <2>4, <3>1, <4>1
    <3> HIDE DEF reported
    <3> QED BY <2>2, <3>1, <3>2
  <2> QED BY <1>0, <1>1, <2>2, <2>5, <2>6, <2>7, LoopInvNext DEF WatchedArmed, Asked
<1> QED BY <1>3, <1>4, <1>5, <1>6, <1>7, <1>8, <1>9
    DEF LoopNext, RegisterHandle, UnregisterHandle, PostWakeup, DispatchOne

\* On the Unix backends whatever happened on a registered descriptor and its
\* handler has not been told of is on the ready list under the token of the
\* registration, and with epoll no event arrives under a token whose
\* registration has ended, for any number of descriptors and registrations and
\* any length of a batch (eventloop/linux.rs, macos.rs).
THEOREM EventsExactAlways == LoopSpec => []EventsExact
<1>1. LoopInit => LoopInv
  BY LoopInvInit
<1>2. LoopInv /\ [LoopNext]_loopVars => LoopInv'
  BY LoopInvStep
<1>3. LoopInv => EventsExact
  BY LoopInvExact
<1> QED BY <1>1, <1>2, <1>3, PTL DEF LoopSpec

-----------------------------------------------------------------------------
(* The co-pilot hub.                                                       *)

Step == {"idle", "released", "age", "answered"}

HubTypeOK ==
    /\ hubClock \in Nat
    /\ lastSeen \in [OpId -> Nat]
    /\ released \in [OpId -> BOOLEAN]
    /\ beating \subseteq OpId
    /\ query \in [step : Step, id : 0 .. MaxOperators, now : Nat]
    /\ query.step \in {"released", "age"} => query.id \in OpId
    /\ lively \subseteq OpId /\ mute \subseteq OpId

\* An operator heard of ever since the query began is so now, and the
\* query has not gone past it.
Passed ==
    query.step # "idle" => \A id \in lively : id \in Younger /\ query.id <= id

\* The query is about to look at the age of an operator that was not released:
\* if it is one that must not own, its age is what rules it out.
RuledOut ==
    /\ query.step = "age" /\ query.id \in mute => ~Young(query.id, query.now)
    /\ query.step = "answered" => query.id \notin mute

HubInv == HubTypeOK /\ Passed /\ RuledOut

\* No operator has been heard of yet.
LEMMA HubInvInit == HubInit => HubInv
  BY HubAssumption DEF HubInit, HubInv, HubTypeOK, Passed, RuledOut, Step, OpId

\* Being heard of, and being silent, decide what both loads of live find.
LEMMA LiveIsYoung ==
  ASSUME HubTypeOK, NEW id \in OpId
  PROVE  /\ id \in Younger => ~released[id] /\ Young(id, query.now)
         /\ id \in Silent /\ ~released[id] => ~Young(id, query.now)
  BY HubAssumption DEF HubTypeOK, Younger, Silent, Young, Age, OpId

\* The query moves on to the next operator, or finds that there is none.
LEMMA NextOne ==
  ASSUME HubTypeOK, query.id \in OpId
  PROVE  LET q == NextId(query)
         IN  /\ q \in [step : Step, id : 0 .. MaxOperators, now : Nat]
             /\ q.id = query.id + 1 /\ q.now = query.now
             /\ q.step = IF query.id + 1 = MaxOperators THEN "answered" ELSE "released"
             /\ q.step = "released" => q.id \in OpId
<1>1. query.id + 1 \in 0 .. MaxOperators
      /\ (query.id + 1 # MaxOperators => query.id + 1 \in OpId)
  BY HubAssumption DEF OpId
<1> QED BY <1>1 DEF NextId, NoOwner, HubTypeOK, Step

\* Steps of the callers leave the query where it is.
LEMMA CallerStep ==
  ASSUME HubInv, UNCHANGED query, Witness, HubTypeOK',
         \A id \in OpId : lastSeen'[id] = lastSeen[id] \/ id \in beating'
  PROVE  Passed' /\ RuledOut'
<1>1. Passed'
  BY DEF HubInv, Passed, Witness, HubTypeOK
<1>2. RuledOut'
  <2>1. query.step # "idle" => mute' \subseteq mute \ beating'
    BY DEF Witness
  <2>2. ASSUME query.step = "age", query.id \in mute' PROVE ~Young(query.id, query.now)'
    <3>1. query.id \in mute /\ query.id \notin beating' /\ query.id \in OpId
      BY <2>1, <2>2 DEF HubInv, HubTypeOK
    <3>2. lastSeen'[query.id] = lastSeen[query.id]
      BY <3>1
    <3>3. ~Young(query.id, query.now)
      BY <2>2, <3>1 DEF HubInv, RuledOut
    <3> QED BY <3>2, <3>3 DEF Young, Age
  <2> QED BY <2>1, <2>2 DEF HubInv, RuledOut
<1> QED BY <1>1, <1>2

\* Heartbeats, releases, time and the steps of the query keep the invariant.
LEMMA HubInvNext == HubInv /\ [HubNext]_hubVars => HubInv'
<1> SUFFICES ASSUME HubInv, [HubNext]_hubVars PROVE HubInv'
  OBVIOUS
<1> USE HubAssumption
<1>1. ASSUME NEW id \in OpId, HeartbeatSeen(id) PROVE HubInv'
  <2>1. HubTypeOK' BY <1>1 DEF HeartbeatSeen, Witness, HubInv, HubTypeOK, Step
  <2>2. \A i \in OpId : lastSeen'[i] = lastSeen[i] \/ i \in beating'
    BY <1>1 DEF HeartbeatSeen, HubInv, HubTypeOK
  <2> QED BY <1>1, <2>1, <2>2, CallerStep DEF HeartbeatSeen, HubInv
<1>2. ASSUME NEW id \in OpId, HeartbeatHeld(id) PROVE HubInv'
  <2>1. HubTypeOK' BY <1>2 DEF HeartbeatHeld, Witness, HubInv, HubTypeOK, Step
  <2> QED BY <1>2, <2>1, CallerStep DEF HeartbeatHeld, HubInv
<1>3. ASSUME NEW id \in OpId, Release(id) PROVE HubInv'
  <2>1. HubTypeOK' BY <1>3 DEF Release, Witness, HubInv, HubTypeOK, Step
  <2> QED BY <1>3, <2>1, CallerStep DEF Release, HubInv
<1>4. CASE HubTime
  <2>1. HubTypeOK' BY <1>4 DEF HubTime, Witness, HubInv, HubTypeOK, Step
  <2> QED BY <1>4, <2>1, CallerStep DEF HubTime, HubInv
<1>5. CASE BeginQuery
  BY <1>5 DEF BeginQuery, HubInv, HubTypeOK, Passed, RuledOut, Step, OpId, Younger, Silent
<1>6. CASE EndQuery
  BY <1>6 DEF EndQuery, Witness, HubInv, HubTypeOK, Passed, RuledOut, Step, OpId
<1>7. CASE LoadReleased
  <2>1. HubTypeOK' /\ query'.step # "idle" /\ query'.now = query.now
    <3>1. query.id \in OpId /\ query \in [step : Step, id : 0 .. MaxOperators, now : Nat]
      BY <1>7 DEF LoadReleased, HubInv, HubTypeOK
    <3>2. /\ query' \in [step : Step, id : 0 .. MaxOperators, now : Nat]
          /\ query'.step \in {"released", "age"} => query'.id \in OpId
          /\ query'.step # "idle" /\ query'.now = query.now
      <4>1. CASE released[query.id]
        BY <1>7, <3>1, <4>1, NextOne DEF LoadReleased, HubInv
      <4>2. CASE ~(released[query.id])
        BY <1>7, <3>1, <4>2 DEF LoadReleased, Step
      <4> QED BY <4>1, <4>2
    <3> QED BY <1>7, <3>2 DEF LoadReleased, Witness, HubInv, HubTypeOK
  <2>2. \A i \in lively' : i \in lively /\ i \in Younger' /\ query.id <= i
    BY <1>7, <2>1 DEF Witness, LoadReleased, HubInv, Passed
  <2>3. query.id \in OpId
    BY <1>7 DEF LoadReleased, HubInv, HubTypeOK
  <2>4. CASE released[query.id]
    <3>1. query.id \notin lively'
      BY <1>7, <2>2, <2>4 DEF LoadReleased, Younger
    <3>2. query'.id = query.id + 1
          /\ query'.step = IF query.id + 1 = MaxOperators THEN "answered" ELSE "released"
      BY <1>7, <2>3, <2>4 DEF LoadReleased, NextId, NoOwner, HubInv, HubTypeOK, OpId
    <3>3. Passed'
      BY <2>1, <2>2, <2>3, <3>1, <3>2 DEF Passed, HubTypeOK, OpId
    <3>4. RuledOut'
      BY <2>1, <3>2 DEF RuledOut, HubTypeOK, OpId
    <3> QED BY <2>1, <3>3, <3>4 DEF HubInv
  <2>5. CASE ~released[query.id]
    <3>1. query'.id = query.id /\ query'.step = "age"
      BY <1>7, <2>5 DEF LoadReleased, HubInv, HubTypeOK
    <3>2. Passed'
      BY <2>2, <3>1 DEF Passed
    <3>3. query.id \in mute' => ~Young(query.id, query.now)
      <4>1. query.id \in mute' => query.id \in Silent
        BY <1>7, <2>1 DEF LoadReleased, Witness, Silent
      <4> QED BY <4>1, <2>3, <2>5, LiveIsYoung DEF HubInv
    <3>4. RuledOut'
      BY <1>7, <2>1, <3>1, <3>3 DEF RuledOut, LoadReleased, Young, Age
    <3> QED BY <2>1, <3>2, <3>4 DEF HubInv
  <2> QED BY <2>4, <2>5
<1>8. CASE LoadLastSeen
  <2>1. HubTypeOK' /\ query'.step # "idle" /\ query'.now = query.now
    <3>1. query.id \in OpId /\ query \in [step : Step, id : 0 .. MaxOperators, now : Nat]
      BY <1>8 DEF LoadLastSeen, HubInv, HubTypeOK
    <3>2. /\ query' \in [step : Step, id : 0 .. MaxOperators, now : Nat]
          /\ query'.step \in {"released", "age"} => query'.id \in OpId
          /\ query'.step # "idle" /\ query'.now = query.now
      <4>1. CASE ~Young(query.id, query.now)
        BY <1>8, <3>1, <4>1, NextOne DEF LoadLastSeen, HubInv
      <4>2. CASE ~(~Young(query.id, query.now))
        BY <1>8, <3>1, <4>2 DEF LoadLastSeen, Step
      <4> QED BY <4>1, <4>2
    <3> QED BY <1>8, <3>2 DEF LoadLastSeen, Witness, HubInv, HubTypeOK
  <2>2. \A i \in lively' : i \in lively /\ i \in Younger' /\ i \in Younger /\ query.id <= i
    BY <1>8, <2>1 DEF Witness, LoadLastSeen, HubInv, Passed
  <2>3. query.id \in OpId
    BY <1>8 DEF LoadLastSeen, HubInv, HubTypeOK
  <2>4. CASE Young(query.id, query.now)
    <3>1. query'.id = query.id /\ query'.step = "answered"
      BY <1>8, <2>4 DEF LoadLastSeen, HubInv, HubTypeOK
    <3>2. query.id \notin mute'
      BY <1>8, <2>1, <2>4 DEF LoadLastSeen, Witness, HubInv, RuledOut
    <3> QED BY <2>1, <2>2, <3>1, <3>2 DEF HubInv, Passed, RuledOut
  <2>5. CASE ~Young(query.id, query.now)
    <3>1. query.id \notin lively'
      BY <2>2, <2>3, <2>5, LiveIsYoung DEF HubInv
    <3>2. query'.id = query.id + 1
          /\ query'.step = IF query.id + 1 = MaxOperators THEN "answered" ELSE "released"
      BY <1>8, <2>3, <2>5 DEF LoadLastSeen, NextId, NoOwner, HubInv, HubTypeOK, OpId
    <3>3. Passed'
      BY <2>1, <2>2, <2>3, <3>1, <3>2 DEF Passed, HubTypeOK, OpId
    <3>4. RuledOut'
      BY <2>1, <3>2 DEF RuledOut, HubTypeOK, OpId
    <3> QED BY <2>1, <3>3, <3>4 DEF HubInv
  <2> QED BY <2>4, <2>5
<1>9. CASE UNCHANGED hubVars
  BY <1>9 DEF hubVars, HubInv, HubTypeOK, Passed, RuledOut, Younger, Silent, Young, Age
<1> QED BY <1>1, <1>2, <1>3, <1>4, <1>5, <1>6, <1>7, <1>8, <1>9 DEF HubNext

\* For any number of operators whose heartbeats and releases run during the
\* query: effective_operator (copilot.rs) never passes over an operator that
\* was heard of within the timeout throughout, nor names one that was silent
\* for longer, or had released, at every time of the query.
THEOREM HubOwner == HubSpec => []LowestLiveOwns
<1>1. HubSpec => []HubInv
  BY HubInvInit, HubInvNext, PTL DEF HubSpec
<1>2. HubInv => LowestLiveOwns
  BY DEF HubInv, Passed, RuledOut, LowestLiveOwns
<1> QED BY <1>1, <1>2, PTL

-----------------------------------------------------------------------------
(* The way of a command.                                                   *)

\* The alarms a subscriber has accepted.
Reached(s) == IF s \in waiting THEN alarms - 1 ELSE alarms

\* Commands and alarms are in their order, each among its kind.
Sorted(w) ==
    \A i, j \in DOMAIN w :
       i < j /\ (w[i] <= MaxCommands <=> w[j] <= MaxCommands) => w[i] < w[j]

\* The messages R in order.
Way(w, R) == w \in Seq(Nat) /\ Sorted(w) /\ Elements(w) = R

\* What the way of a subscriber has to hold.
Due(s) ==
    (((1 .. polled) \ Elements(input)) \cup ((MaxCommands + 1) .. AlarmNo(Reached(s)))) \ Gone(s)

Rings == {"input", "safetyIn"} \cup Subscriber

RouteTypes ==
    /\ polled \in 0 .. MaxCommands /\ alarms \in Nat
    /\ input \in Seq(Nat) /\ moving \in Seq(Nat) /\ safetyIn \in Seq(Nat)
    /\ taken \in Seq(Nat) /\ logged \in Seq(Nat)
    /\ bus \in [Subscriber -> Seq(Nat)]
    /\ waiting \in SUBSET Subscriber /\ (waiting # {} => alarms >= 1)
    /\ lost \in [Rings -> SUBSET Nat]

\* The commands in front of the router are later than all that went past it.
InputIs ==
    /\ Elements(input) \subseteq 1 .. polled
    /\ Way(input, Elements(input))
    /\ \A r \in Rings : lost[r] \cap Elements(input) = {}
    /\ \A s \in Subscriber : \A x \in Due(s), y \in Elements(input) : x <= MaxCommands => x < y

\* What was lost had been sent.
LostIs ==
    \A r \in Rings :
       lost[r] \subseteq (1 .. polled) \cup
          (IF r = "safetyIn" THEN (MaxCommands + 1) .. AlarmNo(Reached("safety")) ELSE {})

RouteInv ==
    /\ RouteTypes /\ InputIs /\ LostIs
    /\ \A s \in Subscriber : Way(Course(s), Due(s))

\* A later message joins a way.
LEMMA WayAppend ==
  ASSUME NEW w, NEW R, Way(w, R), NEW x \in Nat,
         \A y \in R : (y <= MaxCommands <=> x <= MaxCommands) => y < x
  PROVE  Way(Append(w, x), R \cup {x})
<1>1. PICK n, v : n = Len(w) /\ v = Append(w, x)
  OBVIOUS
<1>2. n \in Nat /\ w \in Seq(Nat) /\ DOMAIN w = 1 .. n /\ Elements(w) = R /\ Sorted(w)
  BY <1>1 DEF Way
<1>3. v \in Seq(Nat) /\ DOMAIN v = 1 .. n + 1 /\ v[n + 1] = x /\ \A i \in 1 .. n : v[i] = w[i]
  BY <1>1, <1>2
<1>4. \A i \in 1 .. n + 1 : i \in 1 .. n \/ i = n + 1
  BY <1>2
<1>5. \A i \in 1 .. n : w[i] \in R
  BY <1>2 DEF Elements
<1>6. Sorted(v)
  <2> SUFFICES ASSUME NEW i \in 1 .. n + 1, NEW j \in 1 .. n + 1, i < j,
                      v[i] <= MaxCommands <=> v[j] <= MaxCommands
               PROVE  v[i] < v[j]
    BY <1>3 DEF Sorted
  <2>1. i \in 1 .. n
    BY <1>2
  <2>2. CASE j \in 1 .. n
    BY <1>2, <1>3, <2>1, <2>2 DEF Sorted
  <2>3. CASE j = n + 1
    BY <1>3, <1>5, <2>1, <2>3
  <2> QED BY <1>4, <2>2, <2>3
<1>7. Elements(v) = R \cup {x}
  <2>1. ASSUME NEW y \in Elements(v) PROVE y \in R \cup {x}
    <3>1. PICK i \in 1 .. n + 1 : y = v[i]
      BY <1>3, <2>1 DEF Elements
    <3> QED BY <1>3, <1>4, <1>5, <3>1
  <2>2. ASSUME NEW y \in R PROVE y \in Elements(v)
    <3>1. PICK i \in 1 .. n : y = w[i]
      BY <1>2, <2>2 DEF Elements
    <3>2. i \in 1 .. n + 1
      BY <1>2
    <3> QED BY <1>3, <3>1, <3>2 DEF Elements
  <2>3. x \in Elements(v)
    <3>1. n + 1 \in 1 .. n + 1
      BY <1>2
    <3> QED BY <1>3, <3>1 DEF Elements
  <2> QED BY <2>1, <2>2, <2>3
<1> QED BY <1>1, <1>3, <1>6, <1>7 DEF Way

\* On a way nothing is twice.
LEMMA WayOnce ==
  ASSUME NEW w, NEW R, Way(w, R), NEW i \in DOMAIN w, NEW j \in DOMAIN w, w[i] = w[j]
  PROVE  i = j
<1>1. w \in Seq(Nat) /\ Sorted(w)
  BY DEF Way
<1>2. i \in Nat /\ j \in Nat /\ w[i] \in Nat
  BY <1>1
<1>3. ~(i < j) /\ ~(j < i)
  BY <1>1, <1>2 DEF Sorted
<1> QED BY <1>2, <1>3

\* Two sequences as one, and a sequence without its head.
LEMMA Joined ==
  ASSUME NEW a \in Seq(Nat), NEW b \in Seq(Nat)
  PROVE  /\ a \o b \in Seq(Nat) /\ Len(a \o b) = Len(a) + Len(b)
         /\ DOMAIN (a \o b) = 1 .. Len(a) + Len(b)
         /\ \A i \in 1 .. Len(a) : (a \o b)[i] = a[i]
         /\ \A i \in 1 .. Len(b) : (a \o b)[Len(a) + i] = b[i]
<1>1. PICK l, n, c : l = Len(a) /\ n = Len(b) /\ c = a \o b
  OBVIOUS
<1>2. l \in Nat /\ n \in Nat
  BY <1>1
<1>3. c \in Seq(Nat) /\ Len(c) = l + n
  BY <1>1
<1>4. DOMAIN c = 1 .. l + n
  BY <1>3
<1>5. \A i \in 1 .. l : c[i] = a[i]
  BY <1>1, <1>2
<1>6. \A i \in 1 .. n : c[l + i] = b[i]
  BY <1>1, <1>2
<1> QED BY <1>1, <1>3, <1>4, <1>5, <1>6, Zenon

LEMMA Beheaded ==
  ASSUME NEW b \in Seq(Nat), b # << >>
  PROVE  /\ Len(b) \in Nat /\ Len(b) >= 1 /\ 1 \in 1 .. Len(b) /\ Head(b) = b[1] /\ Head(b) \in Nat
         /\ Tail(b) \in Seq(Nat) /\ Len(Tail(b)) = Len(b) - 1
         /\ \A i \in 1 .. Len(b) - 1 : Tail(b)[i] = b[i + 1]
<1>1. Len(b) \in Nat /\ Len(b) >= 1
  OBVIOUS
<1>2. Head(b) = b[1] /\ 1 \in 1 .. Len(b) /\ b[1] \in Nat
  BY <1>1
<1>3. Tail(b) \in Seq(Nat) /\ Len(Tail(b)) = Len(b) - 1
  BY <1>1
<1>4. \A i \in 1 .. Len(b) - 1 : Tail(b)[i] = b[i + 1]
  BY <1>1
<1> QED BY <1>1, <1>2, <1>3, <1>4

\* A message leaves the middle of a way.
LEMMA WayDrop ==
  ASSUME NEW a \in Seq(Nat), NEW b \in Seq(Nat), b # << >>, NEW R, Way(a \o b, R)
  PROVE  Head(b) \in R /\ Way(a \o Tail(b), R \ {Head(b)})
<1>1. PICK l, n, c, d, x : l = Len(a) /\ n = Len(b) /\ c = a \o b /\ d = a \o Tail(b) /\ x = Head(b)
  OBVIOUS
<1>2. l \in Nat /\ n \in Nat /\ n >= 1 /\ Sorted(c) /\ Elements(c) = R /\ Way(c, R)
  BY <1>1 DEF Way
<1>3. /\ c \in Seq(Nat) /\ DOMAIN c = 1 .. l + n /\ c[l + 1] = x
      /\ \A i \in 1 .. l : c[i] = a[i]
      /\ \A i \in 1 .. n : c[l + i] = b[i]
  <2>1. /\ c \in Seq(Nat) /\ DOMAIN c = 1 .. l + n
        /\ \A i \in 1 .. l : c[i] = a[i]
        /\ \A i \in 1 .. n : c[l + i] = b[i]
    BY <1>1, Joined, Zenon
  <2>2. 1 \in 1 .. n /\ b[1] = x
    BY <1>1, Beheaded, Zenon
  <2> QED BY <2>1, <2>2, Zenon
<1>4. PICK t : t = Tail(b)
  OBVIOUS
<1>5. t \in Seq(Nat) /\ Len(t) = n - 1 /\ \A i \in 1 .. n - 1 : t[i] = b[i + 1]
  BY <1>1, <1>4, Beheaded, Zenon
<1>6. /\ d \in Seq(Nat) /\ Len(d) = l + (n - 1)
      /\ \A i \in 1 .. l : d[i] = a[i]
      /\ \A i \in 1 .. n - 1 : d[l + i] = t[i]
  <2>1. d = a \o t
    BY <1>1, <1>4
  <2>2. /\ a \o t \in Seq(Nat) /\ Len(a \o t) = Len(a) + Len(t)
        /\ \A i \in 1 .. Len(a) : (a \o t)[i] = a[i]
        /\ \A i \in 1 .. Len(t) : (a \o t)[Len(a) + i] = t[i]
    BY <1>5, Joined, Zenon
  <2> QED BY <1>1, <1>5, <2>1, <2>2, Zenon
<1>7. DOMAIN d = 1 .. l + (n - 1)
  BY <1>6
\* Where a message of d was.
<1>8. PICK at : at = [i \in 1 .. l + (n - 1) |-> IF i <= l THEN i ELSE i + 1]
  OBVIOUS
<1>9. \A i \in 1 .. l + (n - 1) :
         /\ at[i] \in 1 .. l + n /\ at[i] # l + 1
         /\ \A j \in 1 .. l + (n - 1) : i < j => at[i] < at[j]
  BY <1>2, <1>8
<1>10. ASSUME NEW i \in 1 .. l + (n - 1)
       PROVE  d[i] = c[at[i]]
  <2>1. CASE i <= l
    <3>1. i \in 1 .. l /\ at[i] = i
      BY <1>2, <1>8, <2>1
    <3> QED BY <1>3, <1>6, <3>1
  <2>2. CASE ~(i <= l)
    <3>1. PICK k : k = i - l
      OBVIOUS
    <3>2. k \in 1 .. n - 1 /\ l + k = i /\ k + 1 \in 1 .. n /\ l + (k + 1) = i + 1
      BY <1>2, <2>2, <3>1
    <3>3. at[i] = i + 1
      BY <1>8, <2>2
    <3>4. d[l + k] = t[k] /\ t[k] = b[k + 1] /\ c[l + (k + 1)] = b[k + 1]
      BY <1>3, <1>5, <1>6, <3>2
    <3> QED BY <3>2, <3>3, <3>4
  <2> QED BY <2>1, <2>2
<1>11. \A k \in 1 .. l + n : k # l + 1 => \E i \in 1 .. l + (n - 1) : at[i] = k
  <2> SUFFICES ASSUME NEW k \in 1 .. l + n, k # l + 1
               PROVE  \E i \in 1 .. l + (n - 1) : at[i] = k
    OBVIOUS
  <2>1. CASE k <= l
    <3>1. k \in 1 .. l + (n - 1)
      BY <1>2, <2>1
    <3> QED BY <1>8, <2>1, <3>1
  <2>2. CASE ~(k <= l)
    <3>1. PICK i : i = k - 1
      OBVIOUS
    <3>2. i \in 1 .. l + (n - 1) /\ ~(i <= l) /\ i + 1 = k
      BY <1>2, <2>2, <3>1
    <3> QED BY <1>8, <3>2
  <2> QED BY <2>1, <2>2
<1>12. Sorted(d)
  <2> SUFFICES ASSUME NEW i \in 1 .. l + (n - 1), NEW j \in 1 .. l + (n - 1), i < j,
                      d[i] <= MaxCommands <=> d[j] <= MaxCommands
               PROVE  d[i] < d[j]
    BY <1>7 DEF Sorted
  <2>1. d[i] = c[at[i]] /\ d[j] = c[at[j]] /\ at[i] \in DOMAIN c /\ at[j] \in DOMAIN c /\ at[i] < at[j]
    BY <1>3, <1>9, <1>10
  <2> QED BY <1>2, <2>1 DEF Sorted
<1>13. x \in R
  <2>1. l + 1 \in 1 .. l + n
    BY <1>2
  <2> QED BY <1>2, <1>3, <2>1 DEF Elements
<1>14. Elements(d) = R \ {x}
  <2>1. ASSUME NEW y \in Elements(d) PROVE y \in R /\ y # x
    <3>1. PICK i \in 1 .. l + (n - 1) : y = d[i]
      BY <1>7, <2>1 DEF Elements
    <3>2. y = c[at[i]] /\ at[i] \in DOMAIN c /\ at[i] # l + 1
      BY <1>3, <1>9, <1>10, <3>1
    <3>3. y \in R
      BY <1>2, <3>2 DEF Elements
    <3>4. l + 1 \in DOMAIN c
      BY <1>2, <1>3
    <3>5. y # x
      BY <1>2, <1>3, <3>2, <3>4, WayOnce
    <3> QED BY <3>3, <3>5
  <2>2. ASSUME NEW y \in R, y # x PROVE y \in Elements(d)
    <3>1. PICK k \in 1 .. l + n : y = c[k]
      BY <1>2, <1>3, <2>2 DEF Elements
    <3>2. k # l + 1
      BY <1>3, <2>2, <3>1
    <3>3. PICK i \in 1 .. l + (n - 1) : at[i] = k
      BY <1>11, <3>2
    <3>4. d[i] = y
      BY <1>10, <3>1, <3>3
    <3> QED BY <1>7, <3>4 DEF Elements
  <2> QED BY <2>1, <2>2
<1> QED BY <1>1, <1>6, <1>12, <1>13, <1>14 DEF Way

\* A message moves from one ring to the next.
LEMMA HeadMoves ==
  ASSUME NEW a \in Seq(Nat), NEW b \in Seq(Nat), b # << >>
  PROVE  /\ Append(a, Head(b)) \o Tail(b) = a \o b
         /\ Append(a, Head(b)) \in Seq(Nat) /\ Tail(b) \in Seq(Nat) /\ Head(b) \in Nat
<1>1. PICK f, t, h, l, n : f = Append(a, h) /\ t = Tail(b) /\ h = Head(b) /\ l = Len(a) /\ n = Len(b)
  OBVIOUS
<1>2. /\ n \in Nat /\ n >= 1 /\ 1 \in 1 .. n /\ h = b[1] /\ h \in Nat
      /\ t \in Seq(Nat) /\ Len(t) = n - 1
      /\ \A i \in 1 .. n - 1 : t[i] = b[i + 1]
  BY <1>1, Beheaded, Zenon
<1>3. /\ l \in Nat /\ f \in Seq(Nat) /\ Len(f) = l + 1 /\ f[l + 1] = h
      /\ \A i \in 1 .. l : f[i] = a[i]
  BY <1>1, <1>2
<1>4. PICK c, d : c = f \o t /\ d = a \o b
  OBVIOUS
<1>5. /\ c \in Seq(Nat) /\ Len(c) = (l + 1) + (n - 1)
      /\ \A i \in 1 .. l + 1 : c[i] = f[i]
      /\ \A i \in 1 .. n - 1 : c[(l + 1) + i] = t[i]
  <2>1. /\ f \o t \in Seq(Nat) /\ Len(f \o t) = Len(f) + Len(t)
        /\ \A i \in 1 .. Len(f) : (f \o t)[i] = f[i]
        /\ \A i \in 1 .. Len(t) : (f \o t)[Len(f) + i] = t[i]
    BY <1>2, <1>3, Joined, Zenon
  <2> QED BY <1>2, <1>3, <1>4, <2>1, Zenon
<1>6. /\ d \in Seq(Nat) /\ Len(d) = l + n
      /\ \A i \in 1 .. l : d[i] = a[i]
      /\ \A i \in 1 .. n : d[l + i] = b[i]
  BY <1>1, <1>4, Joined, Zenon
<1>7. (l + 1) + (n - 1) = l + n
  BY <1>2, <1>3
<1>8. ASSUME NEW i \in 1 .. l + n PROVE c[i] = d[i]
  <2>1. CASE i <= l
    <3>1. i \in 1 .. l /\ i \in 1 .. l + 1
      BY <1>3, <2>1
    <3> QED BY <1>3, <1>5, <1>6, <3>1, Zenon
  <2>2. CASE i = l + 1
    <3>1. l + 1 \in 1 .. l + 1
      BY <1>3
    <3> QED BY <1>2, <1>3, <1>5, <1>6, <2>2, <3>1, Zenon
  <2>3. CASE i > l + 1
    <3>1. PICK k : k = i - (l + 1)
      OBVIOUS
    <3>2. k \in 1 .. n - 1 /\ (l + 1) + k = i /\ k + 1 \in 1 .. n /\ l + (k + 1) = i
      BY <1>2, <1>3, <2>3, <3>1
    <3>3. c[(l + 1) + k] = t[k] /\ t[k] = b[k + 1] /\ d[l + (k + 1)] = b[k + 1]
      BY <1>2, <1>5, <1>6, <3>2, Zenon
    <3> QED BY <3>2, <3>3, Zenon
  <2>4. i <= l \/ i = l + 1 \/ i > l + 1
    BY <1>2, <1>3
  <2> QED BY <2>1, <2>2, <2>3, <2>4, Zenon
<1>9. c = d
  <2>1. Len(c) = Len(d) /\ \A i \in 1 .. Len(c) : c[i] = d[i]
    BY <1>5, <1>6, <1>7, <1>8, Zenon
  <2> QED BY <1>5, <1>6, <2>1, SeqEqual, Zenon
<1> QED BY <1>1, <1>2, <1>3, <1>4, <1>9, Zenon

LEMMA AppendMoves ==
  ASSUME NEW a \in Seq(Nat), NEW b \in Seq(Nat), NEW x \in Nat
  PROVE  a \o Append(b, x) = Append(a \o b, x)
<1>1. PICK l, n, f, c, d : /\ l = Len(a) /\ n = Len(b) /\ f = Append(b, x)
                           /\ c = a \o Append(b, x) /\ d = Append(a \o b, x)
  OBVIOUS
<1>2. l \in Nat /\ n \in Nat
  BY <1>1
<1>3. f \in Seq(Nat) /\ Len(f) = n + 1 /\ f[n + 1] = x /\ \A i \in 1 .. n : f[i] = b[i]
  BY <1>1, <1>2
<1>4. /\ c \in Seq(Nat) /\ Len(c) = l + (n + 1)
      /\ \A i \in 1 .. l : c[i] = a[i]
      /\ \A i \in 1 .. n + 1 : c[l + i] = f[i]
  <2>1. c = a \o f
    BY <1>1
  <2>2. /\ a \o f \in Seq(Nat) /\ Len(a \o f) = Len(a) + Len(f)
        /\ \A i \in 1 .. Len(a) : (a \o f)[i] = a[i]
        /\ \A i \in 1 .. Len(f) : (a \o f)[Len(a) + i] = f[i]
    BY <1>3, Joined, Zenon
  <2> QED BY <1>1, <1>3, <2>1, <2>2, Zenon
<1>5. PICK g : g = a \o b
  OBVIOUS
<1>6. /\ g \in Seq(Nat) /\ Len(g) = l + n
      /\ \A i \in 1 .. l : g[i] = a[i]
      /\ \A i \in 1 .. n : g[l + i] = b[i]
  BY <1>1, <1>5, Joined, Zenon
<1>7. /\ d \in Seq(Nat) /\ Len(d) = (l + n) + 1 /\ d[(l + n) + 1] = x
      /\ \A i \in 1 .. l + n : d[i] = g[i]
  <2>1. d = Append(g, x)
    BY <1>1, <1>5
  <2> QED BY <1>2, <1>6, <2>1
<1>8. l + (n + 1) = (l + n) + 1
  BY <1>2
<1>9. ASSUME NEW i \in 1 .. l + (n + 1) PROVE c[i] = d[i]
  <2>1. CASE i <= l
    <3>1. i \in 1 .. l /\ i \in 1 .. l + n
      BY <1>2, <2>1
    <3> QED BY <1>4, <1>6, <1>7, <3>1, Zenon
  <2>2. CASE i = (l + n) + 1
    <3>1. n + 1 \in 1 .. n + 1
      BY <1>2
    <3> QED BY <1>3, <1>4, <1>7, <1>8, <2>2, <3>1, Zenon
  <2>3. CASE i > l /\ i <= l + n
    <3>1. PICK k : k = i - l
      OBVIOUS
    <3>2. k \in 1 .. n /\ k \in 1 .. n + 1 /\ l + k = i /\ i \in 1 .. l + n
      BY <1>2, <2>3, <3>1
    <3>3. c[l + k] = f[k] /\ f[k] = b[k] /\ g[l + k] = b[k] /\ d[i] = g[i]
      BY <1>3, <1>4, <1>6, <1>7, <3>2, Zenon
    <3> QED BY <3>2, <3>3, Zenon
  <2>4. i <= l \/ i = (l + n) + 1 \/ (i > l /\ i <= l + n)
    BY <1>2
  <2> QED BY <2>1, <2>2, <2>3, <2>4, Zenon
<1>10. c = d
  <2>1. Len(c) = Len(d) /\ \A i \in 1 .. Len(c) : c[i] = d[i]
    BY <1>4, <1>7, <1>8, <1>9, Zenon
  <2> QED BY <1>4, <1>7, <2>1, SeqEqual, Zenon
<1> QED BY <1>1, <1>10

\* The head of a way leaves it.
LEMMA WayTail ==
  ASSUME NEW b \in Seq(Nat), b # << >>, NEW R, Way(b, R)
  PROVE  /\ Head(b) \in R /\ Way(Tail(b), R \ {Head(b)})
         /\ \A y \in R \ {Head(b)} : (Head(b) <= MaxCommands <=> y <= MaxCommands) => Head(b) < y
<1>1. /\ << >> \in Seq(Nat) /\ << >> \o b = b
  BY ConcatEmptySeq
<1>2. Tail(b) \in Seq(Nat)
  BY Beheaded
<1>3. << >> \o Tail(b) = Tail(b)
  BY <1>2, ConcatEmptySeq
<1>4. Way(<< >> \o b, R)
  BY <1>1
<1>5. Head(b) \in R /\ Way(<< >> \o Tail(b), R \ {Head(b)})
  BY <1>1, <1>4, WayDrop, Zenon
<1>6. ASSUME NEW y \in R \ {Head(b)}, Head(b) <= MaxCommands <=> y <= MaxCommands
      PROVE  Head(b) < y
  <2>1. PICK j \in DOMAIN b : y = b[j]
    BY DEF Way, Elements
  <2>2. 1 \in 1 .. Len(b) /\ Head(b) = b[1] /\ DOMAIN b = 1 .. Len(b) /\ Len(b) \in Nat
    BY Beheaded
  <2>3. 1 < j
    BY <1>6, <2>1, <2>2
  <2> QED BY <1>6, <2>1, <2>2, <2>3 DEF Way, Sorted
<1> QED BY <1>3, <1>5, <1>6

LEMMA Regroup ==
  ASSUME NEW a \in Seq(Nat), NEW b \in Seq(Nat), NEW c \in Seq(Nat)
  PROVE  (a \o b) \o c = a \o (b \o c)
BY ConcatAssociative

\* The same in front of a further part.
LEMMA WayMiddle ==
  ASSUME NEW a \in Seq(Nat), NEW b \in Seq(Nat), NEW c \in Seq(Nat), b # << >>, NEW R,
         Way((a \o b) \o c, R)
  PROVE  Head(b) \in R /\ Way((a \o Tail(b)) \o c, R \ {Head(b)})
<1>1. PICK h, t, e : h = Head(b) /\ t = Tail(b) /\ e = <<h>>
  OBVIOUS
<1>2. h \in Nat /\ t \in Seq(Nat) /\ e \in Seq(Nat)
  BY <1>1, Beheaded
<1>3. b = e \o t
  <2>1. << >> \in Seq(Nat) /\ Append(<< >>, h) = e
    BY <1>1, <1>2
  <2>2. Append(<< >>, h) \o t = << >> \o b
    BY <1>1, <2>1, HeadMoves
  <2> QED BY <2>1, <2>2, ConcatEmptySeq
<1>4. PICK f : f = t \o c
  OBVIOUS
<1>5. f \in Seq(Nat) /\ e \o f \in Seq(Nat) /\ e \o t \in Seq(Nat)
  BY <1>2, <1>4, Joined
<1>6. (a \o b) \o c = a \o (e \o f)
  <2>1. (a \o (e \o t)) \o c = a \o ((e \o t) \o c)
    BY <1>5, Regroup, Zenon
  <2>2. (e \o t) \o c = e \o (t \o c)
    BY <1>2, Regroup, Zenon
  <2> QED BY <1>3, <1>4, <2>1, <2>2, Zenon
<1>7. e \o f # << >> /\ Head(e \o f) = h /\ Tail(e \o f) = f
  <2>1. PICK g : g = e \o f
    OBVIOUS
  <2>2. e[1] = h /\ Len(e) = 1
    BY <1>1
  <2>3. /\ g \in Seq(Nat) /\ Len(g) = 1 + Len(f) /\ Len(f) \in Nat /\ g[1] = h
        /\ \A i \in 1 .. Len(f) : g[1 + i] = f[i]
    <3>1. 1 \in 1 .. Len(e)
      BY <2>2
    <3>2. /\ e \o f \in Seq(Nat) /\ Len(e \o f) = Len(e) + Len(f)
          /\ \A i \in 1 .. Len(e) : (e \o f)[i] = e[i]
          /\ \A i \in 1 .. Len(f) : (e \o f)[Len(e) + i] = f[i]
      BY <1>2, <1>5, Joined, Zenon
    <3>3. Len(f) \in Nat
      BY <1>5
    <3> QED BY <2>1, <2>2, <3>1, <3>2, <3>3, Zenon
  <2>4. g # << >>
    BY <2>3
  <2>5. /\ Head(g) = g[1] /\ Tail(g) \in Seq(Nat) /\ Len(Tail(g)) = Len(g) - 1
        /\ \A i \in 1 .. Len(g) - 1 : Tail(g)[i] = g[i + 1]
    BY <2>3, <2>4, Beheaded, Zenon
  <2>6. Len(g) - 1 = Len(f) /\ \A i \in 1 .. Len(f) : i + 1 = 1 + i
    BY <2>3
  <2>7. Len(Tail(g)) = Len(f) /\ \A i \in 1 .. Len(Tail(g)) : Tail(g)[i] = f[i]
    BY <2>3, <2>5, <2>6, Zenon
  <2>8. Tail(g) = f
    BY <1>5, <2>5, <2>7, SeqEqual, Zenon
  <2> QED BY <2>1, <2>3, <2>4, <2>5, <2>8, Zenon
<1>8. Way(a \o (e \o f), R)
  BY <1>6
<1>9. h \in R /\ Way(a \o f, R \ {h})
  BY <1>5, <1>7, <1>8, WayDrop, Zenon
<1>10. a \o f = (a \o t) \o c
  BY <1>2, <1>4, Regroup, Zenon
<1> QED BY <1>1, <1>9, <1>10, Zenon

LEMMA RouteInvInit == RouteInit => RouteInv
<1> SUFFICES ASSUME RouteInit PROVE RouteInv
  OBVIOUS
<1>1. << >> \in Seq(Nat) /\ Elements(<< >>) = {} /\ << >> \o << >> = << >>
  <2>1. << >> \in Seq(Nat) /\ DOMAIN << >> = {}
    OBVIOUS
  <2> QED BY <2>1, ConcatEmptySeq DEF Elements
<1>2. Way(<< >>, {})
  BY <1>1 DEF Way, Sorted
<1>3. RouteTypes
  BY <1>1, RouteAssumption DEF RouteInit, RouteTypes, Rings
<1>4. Elements(input) = {} /\ Way(input, {}) /\ \A r \in Rings : lost[r] = {}
  BY <1>1, <1>2 DEF RouteInit, Rings
<1>5. \A s \in Subscriber : Due(s) = {}
  BY <1>1, RouteAssumption DEF RouteInit, Due, Reached, AlarmNo
<1>6. \A s \in Subscriber : Course(s) = << >>
  BY <1>1 DEF RouteInit, Course
<1> QED BY <1>2, <1>3, <1>4, <1>5, <1>6 DEF RouteInv, InputIs, LostIs

\* The parts of the invariant that say how the ways are.
LEMMA CourseParts ==
  /\ Course("safety") = ((taken \o safetyIn) \o moving) \o bus["safety"]
  /\ Course("logger") = logged \o bus["logger"]
  /\ Subscriber = {"safety", "logger"} /\ Rings = {"input", "safetyIn", "safety", "logger"}
BY DEF Course, Subscriber, Rings

LEMMA GoneParts ==
  /\ Gone("safety") = lost["input"] \cup lost["safety"] \cup lost["safetyIn"]
  /\ Gone("logger") = lost["input"] \cup lost["logger"]
BY DEF Gone

\* The messages of a way, by what was lost.
LEMMA DueHas ==
  ASSUME NEW s
  PROVE  /\ \A x : x \in Due(s) <=>
                /\ x \in (1 .. polled) \ Elements(input) \/ x \in (MaxCommands + 1) .. (MaxCommands + Reached(s))
                /\ x \notin Gone(s)
BY DEF Due, AlarmNo

\* A fresh command waits in front of the router, or is lost there.
LEMMA IngestKeeps ==
  ASSUME RouteInv, Ingest
  PROVE  RouteInv'
<1>t. RouteTypes /\ InputIs /\ LostIs
  BY DEF RouteInv
<1>u. /\ moving' = moving /\ bus' = bus /\ safetyIn' = safetyIn /\ taken' = taken /\ logged' = logged
      /\ alarms' = alarms /\ waiting' = waiting
  BY DEF Ingest
<1>1. PICK p, E : p = polled + 1 /\ E = Elements(input)
  OBVIOUS
<1>2. /\ polled \in Nat /\ p \in 1 .. MaxCommands /\ MaxCommands \in Nat /\ polled' = p
      /\ E \subseteq 1 .. polled /\ Way(input, E)
  BY <1>t, <1>1, RouteAssumption DEF RouteTypes, InputIs, Ingest
<1>3. 1 .. p = (1 .. polled) \cup {p} /\ p \notin 1 .. polled /\ p \in Nat /\ 1 .. p \subseteq Nat
  BY <1>1, <1>2
<1>4. \A s \in Subscriber : Course(s)' = Course(s) /\ Reached(s)' = Reached(s)
  BY <1>u DEF Course, Reached, Subscriber
<1>5. \A s : p \notin (MaxCommands + 1) .. (MaxCommands + Reached(s))
  BY <1>2
<1>6. CASE HasRoom(input)
  <2>1. input' = Append(input, p) /\ lost' = lost
    BY <1>1, <1>6 DEF Ingest
  <2>2. Way(input', E \cup {p}) /\ Elements(input') = E \cup {p} /\ input' \in Seq(Nat)
    <3>1. \A y \in E : y < p
      BY <1>1, <1>2
    <3>2. Way(Append(input, p), E \cup {p})
      BY <1>2, <1>3, <3>1, WayAppend
    <3> QED BY <2>1, <3>2 DEF Way
  <2>3. \A s \in Subscriber : Gone(s)' = Gone(s)
    BY <2>1 DEF Gone
  <2>4. ASSUME NEW s \in Subscriber PROVE Due(s)' = Due(s)
    <3>1. (1 .. p) \ (E \cup {p}) = (1 .. polled) \ E
      BY <1>2, <1>3
    <3> QED BY <1>1, <1>2, <1>4, <2>2, <2>3, <3>1 DEF Due, AlarmNo
  <2>5. RouteTypes'
    BY <1>t, <1>u, <1>2, <2>1, <2>2 DEF RouteTypes
  <2>6. \A r \in Rings : lost[r] \subseteq Nat /\ p \notin lost[r]
    <3>1. \A r \in Rings : lost[r] \subseteq (1 .. polled) \cup ((MaxCommands + 1) .. (MaxCommands + Reached("safety")))
      BY <1>t DEF LostIs, AlarmNo
    <3> QED BY <1>t, <1>3, <1>5, <3>1 DEF RouteTypes
  <2>7. InputIs'
    <3>1. (E \cup {p}) \subseteq 1 .. p
      BY <1>2, <1>3
    <3>2. \A r \in Rings : lost[r] \cap (E \cup {p}) = {}
      BY <1>t, <1>1, <2>6 DEF InputIs
    <3>3. ASSUME NEW s \in Subscriber, NEW x \in Due(s), NEW y \in E \cup {p}, x <= MaxCommands
          PROVE  x < y
      <4>1. CASE y \in E
        BY <1>t, <1>1, <3>3, <4>1 DEF InputIs
      <4>2. CASE y = p
        <5>1. x \in 1 .. polled
          BY <1>2, <3>3, DueHas
        <5> QED BY <1>1, <1>2, <4>2, <5>1
      <4> QED BY <4>1, <4>2
    <3> QED BY <1>2, <2>1, <2>2, <2>4, <3>1, <3>2, <3>3 DEF InputIs, Rings, Subscriber
  <2>8. LostIs'
    <3>1. Reached("safety")' = Reached("safety")
      BY <1>4 DEF Subscriber
    <3> QED BY <1>t, <1>2, <1>3, <2>1, <3>1 DEF LostIs, Rings, Subscriber, AlarmNo
  <2> QED BY <1>4, <2>4, <2>5, <2>7, <2>8 DEF RouteInv, Subscriber
<1>7. CASE ~HasRoom(input)
  <2>1. input' = input /\ lost' = [lost EXCEPT !["input"] = @ \cup {p}]
    BY <1>1, <1>7 DEF Ingest
  <2>2. /\ lost'["input"] = lost["input"] \cup {p} /\ lost' \in [Rings -> SUBSET Nat]
        /\ \A r \in Rings : r # "input" => lost'[r] = lost[r]
    BY <1>t, <1>3, <2>1 DEF RouteTypes, Rings, Subscriber
  <2>3. \A s \in Subscriber : Gone(s)' = Gone(s) \cup {p}
    <3>1. Gone("safety")' = Gone("safety") \cup {p}
      BY <2>2, CourseParts, GoneParts DEF Gone
    <3>2. Gone("logger")' = Gone("logger") \cup {p}
      BY <2>2, CourseParts, GoneParts DEF Gone
    <3> QED BY <3>1, <3>2 DEF Subscriber
  <2>4. ASSUME NEW s \in Subscriber PROVE Due(s)' = Due(s)
    <3>1. PICK A, B, G : A = 1 .. polled /\ B = (MaxCommands + 1) .. (MaxCommands + Reached(s)) /\ G = Gone(s)
      OBVIOUS
    <3>2. Due(s) = ((A \ E) \cup B) \ G
      BY <1>1, <3>1 DEF Due, AlarmNo
    <3>3. Due(s)' = (((A \cup {p}) \ E) \cup B) \ (G \cup {p})
      BY <1>1, <1>2, <1>3, <1>4, <2>1, <2>3, <3>1 DEF Due, AlarmNo
    <3>4. p \notin A /\ p \notin B
      BY <1>3, <1>5, <3>1
    <3> QED BY <3>2, <3>3, <3>4, Zenon
  <2>5. RouteTypes'
    BY <1>t, <1>u, <1>2, <2>1, <2>2 DEF RouteTypes
  <2>6. InputIs'
    <3>1. p \notin E /\ E \subseteq 1 .. p
      BY <1>2, <1>3
    <3>2. \A r \in Rings : lost'[r] \cap E = {}
      BY <1>t, <1>1, <2>2, <3>1 DEF InputIs
    <3> QED BY <1>t, <1>1, <1>2, <2>1, <2>4, <3>1, <3>2 DEF InputIs, Rings, Subscriber
  <2>7. LostIs'
    <3>1. Reached("safety")' = Reached("safety")
      BY <1>4 DEF Subscriber
    <3>2. ASSUME NEW r \in Rings
          PROVE  lost'[r] \subseteq (1 .. p) \cup
                    (IF r = "safetyIn" THEN (MaxCommands + 1) .. AlarmNo(Reached("safety")) ELSE {})
      <4>1. lost[r] \subseteq (1 .. polled) \cup
                    (IF r = "safetyIn" THEN (MaxCommands + 1) .. AlarmNo(Reached("safety")) ELSE {})
        BY <1>t DEF LostIs
      <4>2. lost'[r] \subseteq lost[r] \cup {p}
        BY <2>2
      <4> QED BY <1>3, <4>1, <4>2
    <3> QED BY <1>2, <3>1, <3>2 DEF LostIs, Rings, Subscriber, AlarmNo
  <2> QED BY <1>4, <2>4, <2>5, <2>6, <2>7 DEF RouteInv, Subscriber
<1> QED BY <1>6, <1>7

\* A message that only moves along its way changes nothing.
LEMMA SameWays ==
  ASSUME RouteInv, RouteTypes', polled' = polled, input' = input, lost' = lost,
         \A s \in Subscriber : Reached(s)' = Reached(s),
         \A s \in Subscriber : Course(s)' = Course(s)
  PROVE  RouteInv'
<1>1. \A s \in Subscriber : Gone(s)' = Gone(s)
  BY DEF Gone
<1>2. \A s \in Subscriber : Due(s)' = Due(s)
  BY <1>1 DEF Due, AlarmNo
<1>3. Reached("safety")' = Reached("safety")
  BY DEF Subscriber
<1>4. InputIs'
  BY <1>2 DEF RouteInv, InputIs, Rings, Subscriber
<1>5. LostIs'
  BY <1>3 DEF RouteInv, LostIs, Rings, Subscriber, AlarmNo
<1> QED BY <1>2, <1>4, <1>5 DEF RouteInv, Subscriber

LEMMA BeginAlarmKeeps ==
  ASSUME RouteInv, BeginAlarm
  PROVE  RouteInv'
<1>1. RouteTypes /\ alarms \in Nat
  BY DEF RouteInv, RouteTypes
<1>2. /\ polled' = polled /\ input' = input /\ moving' = moving /\ bus' = bus /\ safetyIn' = safetyIn
      /\ taken' = taken /\ logged' = logged /\ lost' = lost
      /\ alarms' = alarms + 1 /\ waiting = {} /\ waiting' = Subscriber
  BY DEF BeginAlarm
<1>3. RouteTypes'
  BY <1>1, <1>2 DEF RouteTypes, Rings, Subscriber
<1>4. \A s \in Subscriber : Reached(s)' = Reached(s)
  BY <1>1, <1>2 DEF Reached, Subscriber
<1>5. \A s \in Subscriber : Course(s)' = Course(s)
  BY <1>2 DEF Course, Subscriber
<1> QED BY <1>2, <1>3, <1>4, <1>5, SameWays

LEMMA PollSafetyKeeps ==
  ASSUME RouteInv, PollSafety
  PROVE  RouteInv'
<1>1. RouteTypes
  BY DEF RouteInv
<1>2. /\ polled' = polled /\ input' = input /\ safetyIn' = safetyIn /\ taken' = taken /\ logged' = logged
      /\ lost' = lost /\ alarms' = alarms /\ waiting' = waiting
      /\ moving = << >> /\ moving' = bus["safety"] /\ bus' = [bus EXCEPT !["safety"] = << >>]
  BY DEF PollSafety
<1>3. /\ bus["safety"] \in Seq(Nat) /\ << >> \in Seq(Nat) /\ taken \in Seq(Nat) /\ safetyIn \in Seq(Nat)
      /\ bus'["safety"] = << >> /\ bus'["logger"] = bus["logger"] /\ bus' \in [Subscriber -> Seq(Nat)]
  BY <1>1, <1>2 DEF RouteTypes, Subscriber
<1>4. RouteTypes'
  BY <1>1, <1>2, <1>3 DEF RouteTypes, Rings, Subscriber
<1>5. Course("safety")' = Course("safety")
  <2>1. PICK a, b : a = taken \o safetyIn /\ b = bus["safety"]
    OBVIOUS
  <2>2. a \in Seq(Nat) /\ a \o b \in Seq(Nat)
    BY <1>3, <2>1, Joined
  <2>3. a \o << >> = a /\ (a \o b) \o << >> = a \o b
    BY <2>2, ConcatEmptySeq
  <2> QED BY <1>2, <1>3, <2>1, <2>3 DEF Course
<1>6. Course("logger")' = Course("logger")
  BY <1>2, <1>3 DEF Course
<1> QED BY <1>2, <1>4, <1>5, <1>6, SameWays DEF Reached, Subscriber

LEMMA PollLoggerKeeps ==
  ASSUME RouteInv, PollLogger
  PROVE  RouteInv'
<1>1. RouteTypes
  BY DEF RouteInv
<1>2. /\ polled' = polled /\ input' = input /\ safetyIn' = safetyIn /\ taken' = taken /\ moving' = moving
      /\ lost' = lost /\ alarms' = alarms /\ waiting' = waiting
      /\ logged' = logged \o bus["logger"] /\ bus' = [bus EXCEPT !["logger"] = << >>]
  BY DEF PollLogger
<1>3. /\ bus["logger"] \in Seq(Nat) /\ << >> \in Seq(Nat) /\ logged \in Seq(Nat)
      /\ bus'["logger"] = << >> /\ bus'["safety"] = bus["safety"] /\ bus' \in [Subscriber -> Seq(Nat)]
  BY <1>1, <1>2 DEF RouteTypes, Subscriber
<1>4. logged' \in Seq(Nat) /\ logged' \o << >> = logged'
  BY <1>2, <1>3, Joined, ConcatEmptySeq
<1>5. RouteTypes'
  BY <1>1, <1>2, <1>3, <1>4 DEF RouteTypes, Rings, Subscriber
<1>6. Course("safety")' = Course("safety")
  <2>1. Course("safety")' = ((taken' \o safetyIn') \o moving') \o bus'["safety"]
    BY Zenon DEF Course
  <2>2. Course("safety") = ((taken \o safetyIn) \o moving) \o bus["safety"]
    BY Zenon DEF Course
  <2> QED BY <1>2, <1>3, <2>1, <2>2, Zenon
<1>7. Course("logger")' = Course("logger")
  BY <1>2, <1>3, <1>4 DEF Course
<1> QED BY <1>2, <1>5, <1>6, <1>7, SameWays DEF Reached, Subscriber

LEMMA TakeKeeps ==
  ASSUME RouteInv, Take
  PROVE  RouteInv'
<1>1. RouteTypes
  BY DEF RouteInv
<1>2. /\ polled' = polled /\ input' = input /\ bus' = bus /\ logged' = logged /\ moving' = moving
      /\ lost' = lost /\ alarms' = alarms /\ waiting' = waiting /\ safetyIn # << >>
      /\ taken' = Append(taken, Head(safetyIn)) /\ safetyIn' = Tail(safetyIn)
  BY DEF Take
<1>3. taken \in Seq(Nat) /\ safetyIn \in Seq(Nat)
  BY <1>1 DEF RouteTypes
<1>4. taken' \in Seq(Nat) /\ safetyIn' \in Seq(Nat) /\ taken' \o safetyIn' = taken \o safetyIn
  BY <1>2, <1>3, HeadMoves
<1>5. RouteTypes'
  BY <1>1, <1>2, <1>4 DEF RouteTypes, Rings, Subscriber
<1>6. Course("safety")' = Course("safety")
  BY <1>2, <1>4 DEF Course
<1>7. Course("logger")' = Course("logger")
  BY <1>2 DEF Course
<1> QED BY <1>2, <1>5, <1>6, <1>7, SameWays DEF Reached, Subscriber

\* A command that is passed on moves along; one that is dropped leaves the way
\* and is accounted for.
LEMMA PassOnKeeps ==
  ASSUME RouteInv, PassOn
  PROVE  RouteInv'
<1>1. RouteTypes /\ InputIs /\ LostIs
  BY DEF RouteInv
<1>2. /\ polled' = polled /\ input' = input /\ bus' = bus /\ logged' = logged /\ taken' = taken
      /\ alarms' = alarms /\ waiting' = waiting
      /\ moving # << >> /\ moving' = Tail(moving)
  BY DEF PassOn
<1>3. /\ taken \in Seq(Nat) /\ safetyIn \in Seq(Nat) /\ moving \in Seq(Nat) /\ bus["safety"] \in Seq(Nat)
  BY <1>1 DEF RouteTypes, Subscriber
<1>4. PICK m, a : m = Head(moving) /\ a = taken \o safetyIn
  OBVIOUS
<1>5. m \in Nat /\ moving' \in Seq(Nat) /\ a \in Seq(Nat)
  BY <1>2, <1>3, <1>4, Beheaded, Joined
<1>6. CASE HasRoom(safetyIn)
  <2>1. safetyIn' = Append(safetyIn, m) /\ lost' = lost
    BY <1>4, <1>6 DEF PassOn
  <2>2. safetyIn' \in Seq(Nat) /\ taken \o safetyIn' = Append(a, m)
    <3>1. Append(safetyIn, m) \in Seq(Nat)
      BY <1>3, <1>5
    <3>2. taken \o Append(safetyIn, m) = Append(taken \o safetyIn, m)
      BY <1>3, <1>5, AppendMoves, Zenon
    <3> QED BY <1>4, <2>1, <3>1, <3>2, Zenon
  <2>3. Append(a, m) \o moving' = a \o moving
    BY <1>2, <1>3, <1>4, <1>5, HeadMoves
  <2>4. RouteTypes'
    BY <1>1, <1>2, <1>5, <2>1, <2>2 DEF RouteTypes, Rings, Subscriber
  <2>5. Course("safety")' = Course("safety")
    BY <1>2, <1>4, <2>2, <2>3 DEF Course
  <2>6. Course("logger")' = Course("logger")
    BY <1>2 DEF Course
  <2> QED BY <1>2, <2>1, <2>4, <2>5, <2>6, SameWays DEF Reached, Subscriber
<1>7. CASE ~HasRoom(safetyIn)
  <2>1. safetyIn' = safetyIn /\ lost' = [lost EXCEPT !["safetyIn"] = @ \cup {m}]
    BY <1>4, <1>7 DEF PassOn
  <2>2. /\ lost'["safetyIn"] = lost["safetyIn"] \cup {m} /\ lost' \in [Rings -> SUBSET Nat]
        /\ \A r \in Rings : r # "safetyIn" => lost'[r] = lost[r]
    BY <1>1, <1>5, <2>1 DEF RouteTypes, Rings, Subscriber
  <2>3. m \in Due("safety") /\ Way(Course("safety")', Due("safety") \ {m})
    <3>1. Way((a \o moving) \o bus["safety"], Due("safety"))
      <4>1. Way(Course("safety"), Due("safety"))
        BY DEF RouteInv, Subscriber
      <4> QED BY <1>4, <4>1 DEF Course
    <3>2. m \in Due("safety") /\ Way((a \o Tail(moving)) \o bus["safety"], Due("safety") \ {m})
      BY <1>2, <1>3, <1>4, <1>5, <3>1, WayMiddle
    <3>3. Course("safety")' = (a \o Tail(moving)) \o bus["safety"]
      BY <1>2, <1>4, <2>1 DEF Course
    <3> QED BY <3>2, <3>3
  <2>4. Gone("safety")' = Gone("safety") \cup {m} /\ Gone("logger")' = Gone("logger")
    BY <2>2, CourseParts DEF Gone
  <2>5. \A s \in Subscriber : Reached(s)' = Reached(s)
    BY <1>2 DEF Reached, Subscriber
  <2>6. Due("safety")' = Due("safety") \ {m} /\ Due("logger")' = Due("logger")
    BY <1>2, <2>4, <2>5 DEF Due, Subscriber, AlarmNo
  <2>7. Course("logger")' = Course("logger")
    BY <1>2 DEF Course
  <2>8. RouteTypes'
    BY <1>1, <1>2, <1>5, <2>1, <2>2 DEF RouteTypes
  <2>9. InputIs'
    <3>1. m \notin Elements(input)
      <4>1. m \in (1 .. polled) \ Elements(input) \/ m \in (MaxCommands + 1) .. (MaxCommands + Reached("safety"))
        BY <2>3, DueHas
      <4>2. Elements(input) \subseteq 1 .. MaxCommands
        BY <1>1, RouteAssumption DEF InputIs, RouteTypes
      <4> QED BY <4>1, <4>2, RouteAssumption
    <3>2. \A r \in Rings : lost'[r] \cap Elements(input) = {}
      BY <1>1, <2>2, <3>1 DEF InputIs
    <3>3. ASSUME NEW s \in Subscriber, NEW x \in Due(s)', NEW y \in Elements(input), x <= MaxCommands
          PROVE  x < y
      <4>1. x \in Due(s)
        BY <2>6, <3>3 DEF Subscriber
      <4> QED BY <1>1, <3>3, <4>1 DEF InputIs
    <3> QED BY <1>1, <1>2, <3>2, <3>3 DEF InputIs, Rings, Subscriber
  <2>10. LostIs'
    <3>1. m \in (1 .. polled) \cup ((MaxCommands + 1) .. AlarmNo(Reached("safety")))
      BY <2>3 DEF Due
    <3>2. Reached("safety")' = Reached("safety")
      BY <2>5 DEF Subscriber
    <3>3. ASSUME NEW r \in Rings
          PROVE  lost'[r] \subseteq (1 .. polled) \cup
                    (IF r = "safetyIn" THEN (MaxCommands + 1) .. AlarmNo(Reached("safety")) ELSE {})
      BY <1>1, <2>2, <3>1 DEF LostIs
    <3> QED BY <1>2, <3>2, <3>3 DEF LostIs, Rings, Subscriber, AlarmNo
  <2>11. \A s \in Subscriber : Way(Course(s)', Due(s)')
    <3>1. Way(Course("logger"), Due("logger"))
      BY DEF RouteInv, Subscriber
    <3> QED BY <2>3, <2>6, <2>7, <3>1 DEF Subscriber
  <2> QED BY <2>8, <2>9, <2>10, <2>11 DEF RouteInv, Subscriber, Way, Sorted, Elements
<1> QED BY <1>6, <1>7

\* What is published is later than all that was; a subscriber whose ring is
\* full misses it, and nobody else does.
LEMMA PublishKeeps ==
  ASSUME RouteInv, Publish
  PROVE  RouteInv'
<1>1. RouteTypes /\ InputIs /\ LostIs
  BY DEF RouteInv
<1>2. PICK m, E : m = Head(input) /\ E = Elements(input)
  OBVIOUS
<1>3. /\ polled' = polled /\ moving' = moving /\ safetyIn' = safetyIn /\ taken' = taken /\ logged' = logged
      /\ alarms' = alarms /\ waiting' = waiting /\ input # << >> /\ input' = Tail(input)
      /\ bus' = [s \in Subscriber |-> IF HasRoom(bus[s]) THEN Append(bus[s], m) ELSE bus[s]]
      /\ lost' = [r \in DOMAIN lost |->
                    IF r \in Subscriber /\ ~HasRoom(bus[r]) THEN lost[r] \cup {m} ELSE lost[r]]
  BY <1>2 DEF Publish, Accepts
<1>4. /\ input \in Seq(Nat) /\ Way(input, E) /\ E \subseteq 1 .. polled /\ polled \in 0 .. MaxCommands
      /\ MaxCommands \in Nat /\ DOMAIN lost = Rings
      /\ taken \in Seq(Nat) /\ safetyIn \in Seq(Nat) /\ moving \in Seq(Nat) /\ logged \in Seq(Nat)
      /\ bus["safety"] \in Seq(Nat) /\ bus["logger"] \in Seq(Nat)
  BY <1>1, <1>2, RouteAssumption DEF RouteTypes, InputIs, Subscriber
<1>5. m \in E /\ Way(input', E \ {m}) /\ input' \in Seq(Nat) /\ Elements(input') = E \ {m}
      /\ \A y \in E \ {m} : m < y
  <2>1. /\ m \in E /\ Way(input', E \ {m})
        /\ \A y \in E \ {m} : (m <= MaxCommands <=> y <= MaxCommands) => m < y
    BY <1>2, <1>3, <1>4, WayTail
  <2>2. \A y \in E : y <= MaxCommands
    BY <1>4
  <2> QED BY <2>1, <2>2 DEF Way
<1>6. m \in 1 .. polled /\ m \in Nat /\ m <= MaxCommands
  BY <1>4, <1>5
<1>7. \A r \in Rings : m \notin lost[r]
  BY <1>1, <1>2, <1>5 DEF InputIs
<1>8. \A s \in Subscriber : Reached(s)' = Reached(s)
  BY <1>3 DEF Reached, Subscriber
<1>9. /\ lost' \in [Rings -> SUBSET Nat] /\ lost'["input"] = lost["input"] /\ lost'["safetyIn"] = lost["safetyIn"]
      /\ \A s \in Subscriber : lost'[s] = IF HasRoom(bus[s]) THEN lost[s] ELSE lost[s] \cup {m}
  BY <1>1, <1>3, <1>4, <1>6 DEF RouteTypes, Rings, Subscriber
<1>10. bus' \in [Subscriber -> Seq(Nat)]
  <2>1. \A s \in Subscriber : bus[s] \in Seq(Nat) /\ Append(bus[s], m) \in Seq(Nat)
    BY <1>1, <1>6 DEF RouteTypes
  <2> QED BY <1>3, <2>1
<1>11. ASSUME NEW s \in Subscriber
       PROVE  /\ HasRoom(bus[s]) => Course(s)' = Append(Course(s), m)
              /\ ~HasRoom(bus[s]) => Course(s)' = Course(s)
  <2>1. bus'[s] = IF HasRoom(bus[s]) THEN Append(bus[s], m) ELSE bus[s]
    BY <1>3
  <2>2. PICK a : a = IF s = "safety" THEN (taken \o safetyIn) \o moving ELSE logged
    OBVIOUS
  <2>3. a \in Seq(Nat) /\ bus[s] \in Seq(Nat)
    <3>1. (taken \o safetyIn) \o moving \in Seq(Nat)
      BY <1>4, Joined
    <3>2. bus[s] \in Seq(Nat)
      BY <1>4 DEF Subscriber
    <3> QED BY <1>4, <2>2, <3>1, <3>2
  <2>4. Course(s) = a \o bus[s]
    BY <2>2, Zenon DEF Course
  <2>5. Course(s)' = a \o bus'[s]
    BY <1>3, <2>2, Zenon DEF Course
  <2>6. a \o Append(bus[s], m) = Append(a \o bus[s], m)
    BY <1>6, <2>3, AppendMoves, Zenon
  <2> QED BY <2>1, <2>4, <2>5, <2>6
<1>12. ASSUME NEW s \in Subscriber
       PROVE  /\ HasRoom(bus[s]) => Gone(s)' = Gone(s) /\ Due(s)' = Due(s) \cup {m}
              /\ ~HasRoom(bus[s]) => Due(s)' = Due(s)
  <2>1. PICK A, B, G : A = 1 .. polled /\ B = (MaxCommands + 1) .. (MaxCommands + Reached(s)) /\ G = Gone(s)
    OBVIOUS
  <2>2. Due(s) = ((A \ E) \cup B) \ G
    BY <1>2, <2>1 DEF Due, AlarmNo
  <2>3. Due(s)' = ((A \ (E \ {m})) \cup B) \ Gone(s)'
    BY <1>3, <1>5, <1>8, <2>1 DEF Due, AlarmNo
  <2>4. m \in A /\ m \notin B /\ m \in E /\ m \notin G
    <3>1. m \notin G
      BY <1>7, <2>1 DEF Gone, Rings
    <3> QED BY <1>4, <1>5, <1>6, <2>1, <3>1
  <2>5. HasRoom(bus[s]) => Gone(s)' = G
    BY <1>9, <2>1 DEF Gone
  <2>6. ~HasRoom(bus[s]) => Gone(s)' = G \cup {m}
    BY <1>9, <2>1 DEF Gone
  <2>7. CASE HasRoom(bus[s])
    <3>1. ((A \ (E \ {m})) \cup B) \ G = (((A \ E) \cup B) \ G) \cup {m}
      BY <2>4, Zenon
    <3> QED BY <2>1, <2>2, <2>3, <2>5, <2>7, <3>1
  <2>8. CASE ~HasRoom(bus[s])
    <3>1. ((A \ (E \ {m})) \cup B) \ (G \cup {m}) = ((A \ E) \cup B) \ G
      BY <2>4, Zenon
    <3> QED BY <2>2, <2>3, <2>6, <2>8, <3>1
  <2> QED BY <2>7, <2>8
<1>13. ASSUME NEW s \in Subscriber
       PROVE  Way(Course(s)', Due(s)')
  <2>1. Way(Course(s), Due(s))
    BY DEF RouteInv
  <2>2. CASE HasRoom(bus[s])
    <3>1. ASSUME NEW y \in Due(s), y <= MaxCommands <=> m <= MaxCommands
          PROVE  y < m
      BY <1>1, <1>2, <1>5, <1>6, <3>1 DEF InputIs
    <3>2. Way(Append(Course(s), m), Due(s) \cup {m})
      BY <1>6, <2>1, <3>1, WayAppend
    <3> QED BY <1>11, <1>12, <2>2, <3>2
  <2>3. CASE ~HasRoom(bus[s])
    BY <1>11, <1>12, <2>1, <2>3
  <2> QED BY <2>2, <2>3
<1>14. RouteTypes'
  BY <1>1, <1>3, <1>5, <1>9, <1>10 DEF RouteTypes
<1>15. InputIs'
  <2>1. E \ {m} \subseteq 1 .. polled
    BY <1>4
  <2>2. \A r \in Rings : lost'[r] \cap (E \ {m}) = {}
    <3>1. \A r \in Rings : lost'[r] \subseteq lost[r] \cup {m}
      BY <1>9 DEF Rings
    <3> QED BY <1>1, <1>2, <3>1 DEF InputIs
  <2>3. ASSUME NEW s \in Subscriber, NEW x \in Due(s)', NEW y \in E \ {m}, x <= MaxCommands
        PROVE  x < y
    <3>1. x \in Due(s) \/ x = m
      BY <1>12, <2>3
    <3> QED BY <1>1, <1>2, <1>5, <2>3, <3>1 DEF InputIs
  <2> QED BY <1>3, <1>5, <2>1, <2>2, <2>3 DEF InputIs, Rings, Subscriber
<1>16. LostIs'
  <2>1. Reached("safety")' = Reached("safety")
    BY <1>8 DEF Subscriber
  <2>2. ASSUME NEW r \in Rings
        PROVE  lost'[r] \subseteq (1 .. polled) \cup
                  (IF r = "safetyIn" THEN (MaxCommands + 1) .. AlarmNo(Reached("safety")) ELSE {})
    <3>1. lost'[r] \subseteq lost[r] \cup {m}
      BY <1>9 DEF Rings
    <3> QED BY <1>1, <1>6, <3>1 DEF LostIs
  <2> QED BY <1>3, <2>1, <2>2 DEF LostIs, Rings, Subscriber, AlarmNo
<1> QED BY <1>13, <1>14, <1>15, <1>16 DEF RouteInv, Subscriber, Way, Sorted, Elements

\* An alarm is later than the alarms before it.
LEMMA TryDeliverKeeps ==
  ASSUME RouteInv, NEW s \in Subscriber, TryDeliver(s)
  PROVE  RouteInv'
<1>1. RouteTypes /\ InputIs /\ LostIs
  BY DEF RouteInv
<1>2. PICK x : x = MaxCommands + alarms
  OBVIOUS
<1>3. /\ polled' = polled /\ input' = input /\ moving' = moving /\ safetyIn' = safetyIn /\ taken' = taken
      /\ logged' = logged /\ alarms' = alarms /\ lost' = lost
      /\ s \in waiting /\ waiting' = waiting \ {s}
      /\ bus' = [bus EXCEPT ![s] = Append(@, x)]
  BY <1>2 DEF TryDeliver, Rest, AlarmNo
<1>4. /\ MaxCommands \in Nat /\ alarms \in Nat /\ alarms >= 1 /\ x \in Nat /\ x > MaxCommands
      /\ polled \in 0 .. MaxCommands /\ waiting \subseteq Subscriber
      /\ taken \in Seq(Nat) /\ safetyIn \in Seq(Nat) /\ moving \in Seq(Nat) /\ logged \in Seq(Nat)
  BY <1>1, <1>2, <1>3, RouteAssumption DEF RouteTypes
<1>5. \A u \in Subscriber : bus[u] \in Seq(Nat)
  BY <1>1 DEF RouteTypes
<1>6. /\ bus' \in [Subscriber -> Seq(Nat)] /\ bus'[s] = Append(bus[s], x)
      /\ \A u \in Subscriber : u # s => bus'[u] = bus[u]
  <2>1. Append(bus[s], x) \in Seq(Nat)
    BY <1>4, <1>5
  <2> QED BY <1>1, <1>3, <2>1 DEF RouteTypes
<1>7. /\ Reached(s) = alarms - 1 /\ Reached(s)' = alarms
      /\ \A u \in Subscriber : u # s => Reached(u)' = Reached(u)
  BY <1>3 DEF Reached, Subscriber
<1>8. Course(s)' = Append(Course(s), x) /\ \A u \in Subscriber : u # s => Course(u)' = Course(u)
  <2>2. PICK a : a = IF s = "safety" THEN (taken \o safetyIn) \o moving ELSE logged
    OBVIOUS
  <2>3. a \in Seq(Nat) /\ bus[s] \in Seq(Nat)
    <3>1. (taken \o safetyIn) \o moving \in Seq(Nat)
      BY <1>4, Joined
    <3> QED BY <1>4, <1>5, <2>2, <3>1
  <2>4. Course(s) = a \o bus[s]
    BY <2>2, Zenon DEF Course
  <2>5. Course(s)' = a \o bus'[s]
    BY <1>3, <2>2, Zenon DEF Course
  <2>6. a \o Append(bus[s], x) = Append(a \o bus[s], x)
    BY <1>4, <2>3, AppendMoves, Zenon
  <2>7. ASSUME NEW u \in Subscriber, u # s PROVE Course(u)' = Course(u)
    BY <1>3, <1>6, <2>7, Zenon DEF Course
  <2> QED BY <1>6, <2>4, <2>5, <2>6, <2>7
<1>9. \A u \in Subscriber : Gone(u)' = Gone(u)
  BY <1>3 DEF Gone
<1>10. Due(s)' = Due(s) \cup {x} /\ \A u \in Subscriber : u # s => Due(u)' = Due(u)
  <2>1. PICK A, G : A = (1 .. polled) \ Elements(input) /\ G = Gone(s)
    OBVIOUS
  <2>2. Due(s) = (A \cup ((MaxCommands + 1) .. (MaxCommands + (alarms - 1)))) \ G
    BY <1>7, <2>1 DEF Due, AlarmNo
  <2>3. Due(s)' = (A \cup ((MaxCommands + 1) .. (MaxCommands + alarms))) \ G
    BY <1>3, <1>7, <1>9, <2>1 DEF Due, AlarmNo
  <2>4. (MaxCommands + 1) .. (MaxCommands + alarms) = ((MaxCommands + 1) .. (MaxCommands + (alarms - 1))) \cup {x}
    <3>1. PICK k, l : k = MaxCommands + 1 /\ l = MaxCommands + (alarms - 1)
      OBVIOUS
    <3>2. k \in Nat /\ l \in Nat /\ x = l + 1 /\ k <= l + 1 /\ MaxCommands + alarms = x
      BY <1>2, <1>4, <3>1
    <3>3. k .. l + 1 = (k .. l) \cup {l + 1}
      BY <3>2
    <3> QED BY <3>1, <3>2, <3>3
  <2>5. x \notin G
    <3>1. \A r \in Rings : r # "safetyIn" => x \notin lost[r]
      BY <1>1, <1>4 DEF LostIs
    <3>2. s = "safety" => x \notin lost["safetyIn"]
      <4> SUFFICES ASSUME s = "safety" PROVE x \notin lost["safetyIn"]
        OBVIOUS
      <4>1. "safetyIn" \in Rings
        BY DEF Rings
      <4>2. lost["safetyIn"] \subseteq (1 .. polled) \cup ((MaxCommands + 1) .. (MaxCommands + (alarms - 1)))
        BY <1>1, <1>7, <4>1 DEF LostIs, AlarmNo
      <4>3. x \notin 1 .. polled /\ x \notin (MaxCommands + 1) .. (MaxCommands + (alarms - 1))
        BY <1>2, <1>4
      <4> QED BY <4>2, <4>3
    <3> QED BY <2>1, <3>1, <3>2 DEF Gone, Rings, Subscriber
  <2>6. Due(s)' = Due(s) \cup {x}
    BY <2>2, <2>3, <2>4, <2>5, Zenon
  <2>7. ASSUME NEW u \in Subscriber, u # s PROVE Due(u)' = Due(u)
    BY <1>3, <1>7, <1>9, <2>7 DEF Due, AlarmNo
  <2> QED BY <2>6, <2>7
<1>11. Way(Course(s)', Due(s)')
  <2>1. Way(Course(s), Due(s))
    BY DEF RouteInv
  <2>2. ASSUME NEW y \in Due(s), y <= MaxCommands <=> x <= MaxCommands
        PROVE  y < x
    <3>1. y \in (1 .. polled) \ Elements(input) \/ y \in (MaxCommands + 1) .. (MaxCommands + Reached(s))
      BY DueHas
    <3> QED BY <1>2, <1>4, <1>7, <2>2, <3>1
  <2>3. Way(Append(Course(s), x), Due(s) \cup {x})
    BY <1>4, <2>1, <2>2, WayAppend
  <2> QED BY <1>8, <1>10, <2>3
<1>12. \A u \in Subscriber : Way(Course(u)', Due(u)')
  <2>1. ASSUME NEW u \in Subscriber, u # s PROVE Way(Course(u)', Due(u)')
    <3>1. Way(Course(u), Due(u))
      BY DEF RouteInv
    <3> QED BY <1>8, <1>10, <2>1, <3>1
  <2> QED BY <1>11, <2>1
<1>13. RouteTypes'
  BY <1>1, <1>3, <1>6 DEF RouteTypes
<1>14. InputIs'
  <2>1. ASSUME NEW u \in Subscriber, NEW z \in Due(u)', NEW y \in Elements(input), z <= MaxCommands
        PROVE  z < y
    <3>1. z \in Due(u)
      <4>1. z # x
        BY <1>4, <2>1
      <4>2. CASE u = s
        BY <1>10, <2>1, <4>1, <4>2, Zenon
      <4>3. CASE u # s
        BY <1>10, <2>1, <4>3, Zenon
      <4> QED BY <4>2, <4>3, Zenon
    <3> QED BY <1>1, <2>1, <3>1 DEF InputIs
  <2> QED BY <1>1, <1>3, <2>1 DEF InputIs, Rings, Subscriber
<1>15. LostIs'
  <2>1. (MaxCommands + 1) .. AlarmNo(Reached("safety")) \subseteq ((MaxCommands + 1) .. AlarmNo(Reached("safety")))'
    <3>1. CASE s = "safety"
      BY <1>3, <1>4, <1>7, <3>1 DEF AlarmNo
    <3>2. CASE s # "safety"
      BY <1>3, <1>7, <3>2 DEF AlarmNo, Subscriber
    <3> QED BY <3>1, <3>2
  <2> QED BY <1>1, <1>3, <2>1 DEF LostIs, Rings, Subscriber
<1> QED BY <1>12, <1>13, <1>14, <1>15 DEF RouteInv, Subscriber, Way, Sorted, Elements

LEMMA RouteInvNext == RouteInv /\ [RouteNext]_routeVars => RouteInv'
<1> SUFFICES ASSUME RouteInv, [RouteNext]_routeVars PROVE RouteInv'
  OBVIOUS
<1>1. CASE Ingest
  BY <1>1, IngestKeeps
<1>2. CASE Publish
  BY <1>2, PublishKeeps
<1>3. CASE PollSafety
  BY <1>3, PollSafetyKeeps
<1>4. CASE PassOn
  BY <1>4, PassOnKeeps
<1>5. CASE PollLogger
  BY <1>5, PollLoggerKeeps
<1>6. CASE Take
  BY <1>6, TakeKeeps
<1>7. CASE BeginAlarm
  BY <1>7, BeginAlarmKeeps
<1>8. CASE \E s \in Subscriber : TryDeliver(s)
  BY <1>8, TryDeliverKeeps
<1>9. CASE UNCHANGED routeVars
  <2>1. /\ polled' = polled /\ input' = input /\ moving' = moving /\ bus' = bus /\ safetyIn' = safetyIn
        /\ taken' = taken /\ logged' = logged /\ alarms' = alarms /\ waiting' = waiting /\ lost' = lost
    BY <1>9 DEF routeVars
  <2>2. RouteTypes'
    BY <2>1 DEF RouteInv, RouteTypes, Rings, Subscriber
  <2>3. \A s \in Subscriber : Reached(s)' = Reached(s) /\ Course(s)' = Course(s)
    BY <2>1 DEF Reached, Course, Subscriber
  <2> QED BY <2>1, <2>2, <2>3, SameWays
<1> QED BY <1>1, <1>2, <1>3, <1>4, <1>5, <1>6, <1>7, <1>8, <1>9 DEF RouteNext, Router

LEMMA RouteInvGives == RouteInv => RoutedInOrder
<1> SUFFICES ASSUME RouteInv PROVE RoutedInOrder
  OBVIOUS
<1>1. /\ MaxCommands \in Nat /\ polled \in 0 .. MaxCommands /\ alarms \in Nat
      /\ waiting \subseteq Subscriber
  BY RouteAssumption DEF RouteInv, RouteTypes
<1>2. ASSUME NEW s \in Subscriber
      PROVE  LET way == Course(s)
                 numbered == {i \in DOMAIN way : way[i] <= MaxCommands}
             IN  /\ \A i, j \in numbered : i < j => way[i] < way[j]
                 /\ {way[i] : i \in numbered} = (1 .. polled) \ (Gone(s) \cup Elements(input))
  <2>1. PICK way, c : way = Course(s) /\ c = {i \in DOMAIN Course(s) : Course(s)[i] <= MaxCommands}
    OBVIOUS
  <2>2. Sorted(way) /\ Elements(way) = Due(s) /\ way \in Seq(Nat)
    BY <2>1 DEF RouteInv, Way
  <2>3. c = {i \in DOMAIN way : way[i] <= MaxCommands}
    BY <2>1
  <2>4. \A i, j \in c : i < j => way[i] < way[j]
    BY <2>2, <2>3 DEF Sorted
  <2>5. ASSUME NEW x
        PROVE  (\E i \in c : x = way[i]) <=> x \in Due(s) /\ x <= MaxCommands
    BY <2>2, <2>3 DEF Elements
  <2>6. ASSUME NEW x
        PROVE  (x \in Due(s) /\ x <= MaxCommands) <=> x \in (1 .. polled) \ (Gone(s) \cup Elements(input))
    <3>1. x \in (MaxCommands + 1) .. (MaxCommands + Reached(s)) => ~(x <= MaxCommands)
      BY <1>1
    <3>2. x \in 1 .. polled => x <= MaxCommands
      BY <1>1
    <3> QED BY <3>1, <3>2, DueHas
  <2>7. {way[i] : i \in c} = (1 .. polled) \ (Gone(s) \cup Elements(input))
    BY <2>5, <2>6, Zenon
  <2> QED BY <2>1, <2>4, <2>7, Zenon
<1>3. CommandsInOrder
  BY <1>2, Zenon DEF CommandsInOrder
<1>4. ASSUME NEW s \in Subscriber, NEW n \in 1 .. alarms, AlarmNo(n) \notin Gone(s)
      PROVE  Cardinality({i \in DOMAIN Course(s) : Course(s)[i] = AlarmNo(n)})
                = IF n < alarms \/ s \notin waiting THEN 1 ELSE 0
  <2>1. PICK way, x, c : /\ way = Course(s) /\ x = AlarmNo(n)
                         /\ c = {i \in DOMAIN Course(s) : Course(s)[i] = AlarmNo(n)}
    OBVIOUS
  <2>2. Way(way, Due(s)) /\ Elements(way) = Due(s) /\ c = {i \in DOMAIN way : way[i] = x}
    BY <2>1 DEF RouteInv, Way
  <2>3. x = MaxCommands + n /\ n \in Nat /\ n >= 1 /\ n <= alarms /\ x \notin Gone(s)
    BY <1>1, <1>4, <2>1 DEF AlarmNo
  <2>4. x \in Due(s) <=> n <= Reached(s)
    <3>1. x \notin 1 .. polled /\ Reached(s) \in Int
      BY <1>1, <2>3 DEF Reached
    <3>2. x \in (MaxCommands + 1) .. (MaxCommands + Reached(s)) <=> n <= Reached(s)
      BY <1>1, <2>3, <3>1
    <3> QED BY <2>3, <3>1, <3>2, DueHas
  <2>5. n <= Reached(s) <=> (n < alarms \/ s \notin waiting)
    BY <1>1, <2>3 DEF Reached
  <2>6. CASE n <= Reached(s)
    <3>1. PICK i \in DOMAIN way : way[i] = x
      BY <2>2, <2>4, <2>6 DEF Elements
    <3>2. \A j \in DOMAIN way : way[j] = x => j = i
      BY <2>2, <3>1, WayOnce
    <3>3. c = {i}
      BY <2>2, <3>1, <3>2
    <3>4. Cardinality({i}) = 1
      BY FS_Singleton
    <3> QED BY <2>1, <2>5, <2>6, <3>3, <3>4
  <2>7. CASE ~(n <= Reached(s))
    <3>1. c = {}
      BY <2>2, <2>4, <2>7 DEF Elements
    <3>2. Cardinality({}) = 0
      BY FS_EmptySet
    <3> QED BY <2>1, <2>5, <2>7, <3>1, <3>2
  <2> QED BY <2>6, <2>7
<1>5. AlarmOnce
  BY <1>4, Zenon DEF AlarmOnce
<1> QED BY <1>3, <1>5 DEF RoutedInOrder

\* For any capacity of the rings and however the stages interleave, commands
\* reach the safety loop and the logger in order and at most once, each one that
\* is missing was dropped at a full ring of that way, and a fanned out alarm is
\* on every way once (publish, try_deliver and poll of bus.rs, route of the
\* integration pipeline).
THEOREM RoutedInOrderAlways == RouteSpec => []RoutedInOrder
BY RouteInvInit, RouteInvNext, RouteInvGives, PTL DEF RouteSpec

-----------------------------------------------------------------------------
(* The MAVLink parser.                                                     *)

ParserTypes ==
    /\ captured \in Seq(Byte) /\ stream \in Seq(Byte)
    /\ Len(captured) <= BufferLen /\ Len(captured) <= Len(stream)

\* What is captured is the end of the stream, from a magic byte on.
CapturedIs ==
    /\ captured # << >> => IsMagic(captured[1])
    /\ captured = LastBytes(Len(captured))

\* A frame that is captured whole has failed its checksum.
NotSound == Complete(captured) => ~ParseFrame(SubSeq(captured, 1, FrameLen(captured)))

\* The last n bytes begin with the first magic byte of a frame and have no other.
Begun(n) ==
    /\ IsMagic(stream[Len(stream) - n + 1])
    /\ \A i \in Len(stream) - n + 2 .. Len(stream) : ~IsMagic(stream[i])
    /\ n = Len(stream) \/ ~IsMagic(stream[Len(stream) - n])

\* Such a frame is captured until it is whole.
BegunCaptured ==
    \A n \in 1 .. Len(stream) :
       Begun(n) /\ ~Complete(LastBytes(n)) => Len(captured) = n

ParserInv == ParserTypes /\ CapturedIs /\ NotSound /\ BegunCaptured /\ CleanFramesEmitted

LEMMA LastBytesIs ==
  ASSUME stream \in Seq(Byte), NEW n \in 0 .. Len(stream)
  PROVE  /\ LastBytes(n) \in Seq(Byte) /\ Len(LastBytes(n)) = n
         /\ \A i \in 1 .. n : LastBytes(n)[i] = stream[(Len(stream) - n) + i]
<1>1. PICK l, k, s : l = Len(stream) /\ k = Len(stream) - n + 1 /\ s = SubSeq(stream, Len(stream) - n + 1, Len(stream))
  OBVIOUS
<1>2. l \in Nat /\ n \in Nat /\ n <= l /\ k = (l - n) + 1 /\ k \in 1 .. l + 1
  BY <1>1
<1>3. s = SubSeq(stream, k, l)
  BY <1>1
<1>4. s \in Seq(Byte) /\ Len(s) = n
  BY <1>1, <1>2, <1>3
<1>5. ASSUME NEW i \in 1 .. n PROVE s[i] = stream[(l - n) + i]
  <2>1. PICK t : t = stream
    OBVIOUS
  <2>2. t \in Seq(Byte) /\ Len(t) = l /\ s = SubSeq(t, k, l)
    BY <1>1, <1>3, <2>1
  <2>3. i \in Nat /\ i \in 1 .. (l - k) + 1 /\ (k + i) - 1 = (l - n) + i /\ k \in Nat
    BY <1>2
  <2>4. s[i] = t[(k + i) - 1]
    BY <1>2, <2>2, <2>3
  <2> QED BY <2>1, <2>3, <2>4
<1> QED BY <1>1, <1>4, <1>5 DEF LastBytes

\* The last bytes, with a byte more.
LEMMA LastBytesGrow ==
  ASSUME stream \in Seq(Byte), NEW b \in Byte, stream' = Append(stream, b), NEW n \in 0 .. Len(stream)
  PROVE  LastBytes(n + 1)' = Append(LastBytes(n), b)
<1>1. PICK l, s, t, f, g : /\ l = Len(stream) /\ s = stream /\ t = stream'
                           /\ f = LastBytes(n) /\ g = SubSeq(t, Len(t) - (n + 1) + 1, Len(t))
  OBVIOUS
<1>2. s \in Seq(Byte) /\ l = Len(s) /\ l \in Nat /\ n \in Nat /\ n <= l /\ t = Append(s, b)
  BY <1>1
<1>3. /\ t \in Seq(Byte) /\ Len(t) = l + 1 /\ t[l + 1] = b /\ \A i \in 1 .. l : t[i] = s[i]
  BY <1>2
<1>4. f \in Seq(Byte) /\ Len(f) = n /\ \A i \in 1 .. n : f[i] = s[(l - n) + i]
  BY <1>1, LastBytesIs
<1>5. PICK k : k = (l - n) + 1
  OBVIOUS
<1>6. k \in 1 .. l + 1 /\ Len(t) - (n + 1) + 1 = k
  BY <1>2, <1>3, <1>5
<1>7. g = SubSeq(t, k, l + 1)
  BY <1>1, <1>3, <1>6
<1>8. g \in Seq(Byte) /\ Len(g) = n + 1
  BY <1>2, <1>3, <1>5, <1>6, <1>7
<1>9. \A i \in 1 .. n + 1 : g[i] = t[(l - n) + i]
  BY <1>2, <1>3, <1>5, <1>6, <1>7, <1>8
<1>10. PICK h : h = Append(f, b)
  OBVIOUS
<1>11. h \in Seq(Byte) /\ Len(h) = n + 1 /\ h[n + 1] = b /\ \A i \in 1 .. n : h[i] = f[i]
  BY <1>2, <1>4, <1>10
<1>12. ASSUME NEW i \in 1 .. n + 1 PROVE g[i] = h[i]
  <2>1. CASE i \in 1 .. n
    <3>1. (l - n) + i \in 1 .. l
      BY <1>2, <2>1
    <3> QED BY <1>3, <1>4, <1>9, <1>11, <2>1, <3>1, Zenon
  <2>2. CASE i = n + 1
    <3>1. (l - n) + (n + 1) = l + 1
      BY <1>2
    <3> QED BY <1>3, <1>9, <1>11, <2>2, <3>1, Zenon
  <2>3. i \in 1 .. n \/ i = n + 1
    BY <1>2
  <2> QED BY <2>1, <2>2, <2>3, Zenon
<1>13. g = h
  <2>1. Len(g) = Len(h) /\ \A i \in 1 .. Len(g) : g[i] = h[i]
    BY <1>8, <1>11, <1>12, Zenon
  <2> QED BY <1>8, <1>11, <2>1, SeqEqual
<1> QED BY <1>1, <1>10, <1>13 DEF LastBytes

\* The length of a frame is in its first bytes.
LEMMA FrameLenStays ==
  ASSUME NEW f \in Seq(Byte), NEW b \in Byte, f # << >>
  PROVE  LET g == Append(f, b) IN
         /\ Len(g) = Len(f) + 1 /\ Len(f) \in Nat /\ g[1] = f[1] /\ g \in Seq(Byte)
         /\ Len(f) >= 2 /\ (f[1] = Magic2 => Len(f) >= 3) => FrameLen(g) = FrameLen(f)
         /\ Complete(g) => FrameLen(g) \in 4 .. 9
<1>1. PICK g, n : g = Append(f, b) /\ n = Len(f)
  OBVIOUS
<1>2. n \in Nat /\ n >= 1 /\ g \in Seq(Byte) /\ Len(g) = n + 1 /\ \A i \in 1 .. n : g[i] = f[i]
  BY <1>1
<1>3. g[1] = f[1]
  <2>1. 1 \in 1 .. n
    BY <1>2
  <2> QED BY <1>2, <2>1
<1>4. ASSUME n >= 2, f[1] = Magic2 => n >= 3
      PROVE  FrameLen(g) = FrameLen(f)
  <2>1. 2 \in 1 .. n /\ (f[1] = Magic2 => 3 \in 1 .. n)
    BY <1>2, <1>4
  <2>2. g[2] = f[2] /\ (f[1] = Magic2 => g[3] = f[3])
    BY <1>2, <2>1
  <2> QED BY <1>3, <2>2 DEF FrameLen, HeaderLen, Signed
<1>5. ASSUME Complete(g)
      PROVE  FrameLen(g) \in 4 .. 9
  <2>1. Len(g) >= 2 /\ 2 \in 1 .. Len(g) /\ g[2] \in 0 .. 3
    BY <1>2, <1>5 DEF Complete, Byte, Magic2
  <2> QED BY <2>1 DEF FrameLen, HeaderLen
<1> QED BY <1>1, <1>2, <1>3, <1>4, <1>5

LEMMA ParserInvInit == ParserInit => ParserInv
<1> SUFFICES ASSUME ParserInit PROVE ParserInv
  OBVIOUS
<1>1. /\ captured = << >> /\ stream = << >> /\ emitted = << >>
      /\ << >> \in Seq(Byte) /\ Len(<< >>) = 0
  BY DEF ParserInit
<1>2. LastBytes(0) \in Seq(Byte) /\ Len(LastBytes(0)) = 0
  <2>1. 0 \in 0 .. Len(stream) /\ stream \in Seq(Byte)
    BY <1>1
  <2> QED BY <2>1, LastBytesIs
<1>3. LastBytes(0) = << >>
  BY <1>2
<1>4. ParserTypes /\ CapturedIs
  BY <1>1, <1>3, ParserAssumption DEF ParserTypes, CapturedIs
<1>5. NotSound /\ BegunCaptured /\ CleanFramesEmitted
  BY <1>1 DEF NotSound, Complete, BegunCaptured, CleanFramesEmitted
<1> QED BY <1>4, <1>5 DEF ParserInv

\* A whole frame stays whole.
LEMMA CompleteStays ==
  ASSUME NEW f \in Seq(Byte), NEW b \in Byte, Complete(f)
  PROVE  Complete(Append(f, b))
<1>1. Len(f) \in Nat /\ Len(f) >= 2 /\ (f[1] = Magic2 => Len(f) >= 3) /\ Len(f) >= FrameLen(f) /\ f # << >>
  BY DEF Complete
<1>2. PICK g : g = Append(f, b)
  OBVIOUS
<1>3. Len(g) = Len(f) + 1 /\ g[1] = f[1] /\ FrameLen(g) = FrameLen(f)
  BY <1>1, <1>2, FrameLenStays
<1>4. FrameLen(f) \in Int
  <2>1. 2 \in 1 .. Len(f) /\ f[2] \in 0 .. 3
    BY <1>1 DEF Byte, Magic2
  <2> QED BY <2>1 DEF FrameLen, HeaderLen
<1> QED BY <1>1, <1>2, <1>3, <1>4 DEF Complete

\* Nine bytes are a whole frame, whatever they are.
LEMMA LongIsComplete ==
  ASSUME NEW f \in Seq(Byte), Len(f) >= 9
  PROVE  Complete(f)
<1>1. Len(f) \in Nat /\ 2 \in 1 .. Len(f)
  OBVIOUS
<1>2. f[2] \in 0 .. 3
  BY <1>1 DEF Byte, Magic2
<1>3. FrameLen(f) \in 4 .. 9
  BY <1>2 DEF FrameLen, HeaderLen
<1> QED BY <1>1, <1>3 DEF Complete

LEMMA FeedKeeps ==
  ASSUME ParserInv, NEW b \in Byte, Feed(b)
  PROVE  ParserInv'
<1>1. /\ captured \in Seq(Byte) /\ stream \in Seq(Byte) /\ Len(captured) <= BufferLen
      /\ Len(captured) <= Len(stream) /\ stream' = Append(stream, b)
      /\ BufferLen \in Nat /\ BufferLen >= 9
  BY ParserAssumption DEF ParserInv, ParserTypes, Feed, Magic2
<1>2. PICK l, c, buf : l = Len(stream) /\ c = Len(captured) /\ buf = Append(captured, b)
  OBVIOUS
<1>3. /\ l \in Nat /\ c \in Nat /\ c <= l
      /\ stream' \in Seq(Byte) /\ Len(stream') = l + 1 /\ stream'[l + 1] = b
      /\ \A i \in 1 .. l : stream'[i] = stream[i]
  BY <1>1, <1>2
<1>e. captured = << >> => c = 0
  <2>1. ASSUME captured = << >> PROVE c = 0
    <3>1. c = Len(<< >>)
      BY <1>2, <2>1, Zenon
    <3> QED BY <3>1
  <2> QED BY <2>1
<1>4. buf \in Seq(Byte) /\ Len(buf) = c + 1
  BY <1>1, <1>2
<1>5. captured = LastBytes(c)
  BY <1>2 DEF ParserInv, CapturedIs
<1>6. buf = LastBytes(c + 1)'
  <2>1. c \in 0 .. Len(stream)
    BY <1>2, <1>3
  <2> QED BY <1>1, <1>2, <1>5, <2>1, LastBytesGrow
<1>7. << >> = LastBytes(0)' /\ <<b>> = LastBytes(1)'
  <2>1. 0 \in 0 .. l /\ 0 \in 0 .. l + 1 /\ 0 + 1 = 1
    BY <1>3
  <2>2. LastBytes(0) \in Seq(Byte) /\ Len(LastBytes(0)) = 0
    BY <1>1, <1>2, <2>1, LastBytesIs
  <2>3. LastBytes(0) = << >>
    BY <2>2
  <2>4. LastBytes(0 + 1)' = Append(LastBytes(0), b)
    BY <1>1, <1>2, <2>1, LastBytesGrow
  <2>5. LastBytes(0)' = << >>
    <3>1. LastBytes(0)' = SubSeq(stream', (l + 1) - 0 + 1, l + 1)
      BY <1>3 DEF LastBytes
    <3>2. (l + 1) - 0 + 1 > l + 1 /\ (l + 1) - 0 + 1 \in Nat
      BY <1>3
    <3> QED BY <1>3, <3>1, <3>2
  <2>6. Append(<< >>, b) = <<b>>
    OBVIOUS
  <2> QED BY <2>1, <2>3, <2>4, <2>5, <2>6
\* A frame begun before this byte is the one that is captured.
<1>8. ASSUME NEW n \in 2 .. l + 1, Begun(n)', ~Complete(LastBytes(n - 1))
      PROVE  /\ ~IsMagic(b) /\ ~Restarts(b) /\ captured # << >> /\ c < BufferLen /\ c = n - 1
             /\ buf = LastBytes(n)'
  <2>1. PICK k : k = n - 1
    OBVIOUS
  <2>2. k \in 1 .. l /\ n = k + 1 /\ (l + 1) - n + 1 = l - k + 1 /\ (l + 1) - n + 2 = l - k + 2
        /\ (l + 1) - n = l - k /\ l - k + 1 \in 1 .. l /\ (k # l => l - k \in 1 .. l)
    BY <1>3, <2>1
  <2>3. /\ IsMagic(stream'[l - k + 1])
        /\ \A i \in l - k + 2 .. l + 1 : ~IsMagic(stream'[i])
        /\ n = l + 1 \/ ~IsMagic(stream'[l - k])
    <3>1. /\ IsMagic(stream'[(l + 1) - n + 1])
          /\ \A i \in (l + 1) - n + 2 .. l + 1 : ~IsMagic(stream'[i])
          /\ n = l + 1 \/ ~IsMagic(stream'[(l + 1) - n])
      BY <1>3, <1>8 DEF Begun, IsMagic
    <3> QED BY <2>2, <3>1
  <2>4. ~IsMagic(b)
    <3>1. l + 1 \in l - k + 2 .. l + 1
      BY <1>3, <2>2
    <3> QED BY <1>3, <2>3, <3>1
  <2>5. Begun(k)
    <3>1. IsMagic(stream[l - k + 1])
      BY <1>3, <2>2, <2>3
    <3>2. ASSUME NEW i \in l - k + 2 .. l PROVE ~IsMagic(stream[i])
      <4>1. i \in l - k + 2 .. l + 1 /\ i \in 1 .. l
        BY <1>3, <2>2
      <4> QED BY <1>3, <2>3, <4>1
    <3>3. k = l \/ ~IsMagic(stream[l - k])
      <4>1. n = l + 1 => k = l
        BY <1>3, <2>2
      <4>2. k # l => stream'[l - k] = stream[l - k]
        BY <1>3, <2>2
      <4> QED BY <2>3, <4>1, <4>2
    <3> QED BY <1>2, <3>1, <3>2, <3>3 DEF Begun
  <2>6. c = k
    BY <1>2, <1>8, <2>1, <2>2, <2>5 DEF ParserInv, BegunCaptured
  <2>7. c < BufferLen
    <3>1. ~(Len(captured) >= 9)
      BY <1>1, <1>5, <1>8, <2>1, <2>6, LongIsComplete
    <3> QED BY <1>1, <1>2, <1>3, <3>1
  <2>8. captured # << >>
    BY <1>e, <2>2, <2>6
  <2> QED BY <1>6, <2>1, <2>2, <2>4, <2>6, <2>7, <2>8 DEF Restarts
\* A frame begun with this byte restarts the capture.
<1>9. ASSUME Begun(1)'
      PROVE  Restarts(b)
  <2>1. IsMagic(b) /\ (1 = l + 1 \/ ~IsMagic(stream'[l]))
    <3>1. (l + 1) - 1 + 1 = l + 1 /\ (l + 1) - 1 = l
      BY <1>3
    <3>2. IsMagic(stream'[(l + 1) - 1 + 1]) /\ (1 = l + 1 \/ ~IsMagic(stream'[(l + 1) - 1]))
      BY <1>3, <1>9 DEF Begun, IsMagic
    <3> QED BY <1>3, <3>1, <3>2
  <2>2. ASSUME c = 1 PROVE FALSE
    <3>1. l \in 1 .. l /\ 1 # l + 1 /\ captured # << >> /\ 1 \in 0 .. l /\ 1 \in 1 .. 1 /\ (l - 1) + 1 = l
      BY <1>e, <1>3, <2>2
    <3>2. captured[1] = stream[l]
      BY <1>1, <1>2, <1>5, <2>2, <3>1, LastBytesIs
    <3>3. IsMagic(captured[1])
      BY <3>1 DEF ParserInv, CapturedIs
    <3> QED BY <1>3, <2>1, <3>1, <3>2, <3>3
  <2> QED BY <1>2, <2>1, <2>2 DEF Restarts
\* A clean frame that ends with this byte was begun and not whole.
<1>10. ASSUME NEW n \in 4 .. l + 1, CleanFrame(LastBytes(n)'),
              n = l + 1 \/ ~IsMagic(stream'[(l + 1) - n])
       PROVE  n \in 2 .. l + 1 /\ Begun(n)' /\ ~Complete(LastBytes(n - 1))
  <2>1. PICK k, f, g : k = n - 1 /\ f = LastBytes(n - 1) /\ g = LastBytes(n)'
    OBVIOUS
  <2>2. k \in 0 .. l /\ k >= 3 /\ n = k + 1 /\ n \in 0 .. l + 1 /\ n \in 2 .. l + 1
    BY <1>3, <2>1
  <2>3. f \in Seq(Byte) /\ Len(f) = k
    BY <1>1, <1>2, <2>1, <2>2, LastBytesIs
  <2>4. g = Append(f, b)
    BY <1>1, <1>2, <2>1, <2>2, LastBytesGrow
  <2>5. g \in Seq(Byte) /\ Len(g) = n /\ FrameLen(g) = FrameLen(f)
    <3>1. f # << >> /\ Len(f) >= 2 /\ Len(f) >= 3
      BY <2>2, <2>3
    <3> QED BY <2>2, <2>3, <2>4, <3>1, FrameLenStays
  <2>6. Len(g) = FrameLen(g) /\ IsMagic(g[1]) /\ \A i \in 2 .. Len(g) : ~IsMagic(g[i])
    BY <1>10, <2>1 DEF CleanFrame
  <2>7. ~Complete(f)
    BY <2>2, <2>3, <2>5, <2>6 DEF Complete
  <2>8. \A i \in 1 .. n : g[i] = stream'[((l + 1) - n) + i]
    <3>1. (stream \in Seq(Byte))' /\ n \in 0 .. Len(stream')
      BY <1>3, <2>2
    <3>2. \A i \in 1 .. n : LastBytes(n)'[i] = stream'[(Len(stream') - n) + i]
      <4>1. PICK t, k1 : t = stream' /\ k1 = (l + 1) - n
        OBVIOUS
      <4>2. t \in Seq(Byte) /\ Len(t) = l + 1 /\ k1 \in 0 .. l + 1 /\ n = (l + 1) - k1 /\ n \in Nat
        BY <1>3, <2>2, <4>1
      <4>3. LastBytes(n)' = SubSeq(t, k1 + 1, l + 1)
        BY <1>3, <4>1, <4>2 DEF LastBytes
      <4>4. PICK s : s = SubSeq(t, k1 + 1, l + 1)
        OBVIOUS
      <4>5. Len(s) = n /\ \A i \in 1 .. n : s[i] = t[k1 + i]
        BY <4>2, <4>4, <1>3
      <4> QED BY <1>3, <4>1, <4>3, <4>4, <4>5
    <3> QED BY <1>3, <2>1, <3>2
  <2>9. IsMagic(stream'[(l + 1) - n + 1])
    <3>1. 1 \in 1 .. n /\ ((l + 1) - n) + 1 = (l + 1) - n + 1
      BY <1>3, <2>2
    <3> QED BY <2>6, <2>8, <3>1
  <2>10. ASSUME NEW i \in (l + 1) - n + 2 .. l + 1 PROVE ~IsMagic(stream'[i])
    <3>1. PICK j : j = i - ((l + 1) - n)
      OBVIOUS
    <3>2. j \in 2 .. n /\ j \in 1 .. n /\ ((l + 1) - n) + j = i
      BY <1>3, <2>2, <3>1
    <3> QED BY <2>5, <2>6, <2>8, <3>2
  <2>11. Begun(n)'
    <3>1. /\ IsMagic(stream'[(l + 1) - n + 1])
          /\ \A i \in (l + 1) - n + 2 .. l + 1 : ~IsMagic(stream'[i])
          /\ n = l + 1 \/ ~IsMagic(stream'[(l + 1) - n])
      BY <1>10, <2>9, <2>10, Zenon
    <3> QED BY <1>3, <3>1, Zenon DEF Begun
  <2> QED BY <2>1, <2>2, <2>7, <2>11
\* So what is said of frames holds when one of them does not come about.
<1>11. ASSUME NEW n \in 1 .. l + 1, Begun(n)', ~Complete(LastBytes(n)')
       PROVE  \/ n = 1 /\ Restarts(b)
              \/ n \in 2 .. l + 1 /\ ~Complete(LastBytes(n - 1))
  <2>1. CASE n = 1
    BY <1>9, <1>11, <2>1
  <2>2. CASE n # 1
    <3>1. PICK k, f : k = n - 1 /\ f = LastBytes(n - 1)
      OBVIOUS
    <3>2. k \in 0 .. l /\ n = k + 1 /\ n \in 2 .. l + 1
      BY <1>3, <2>2, <3>1
    <3>3. f \in Seq(Byte) /\ LastBytes(n)' = Append(f, b)
      BY <1>1, <1>2, <3>1, <3>2, LastBytesIs, LastBytesGrow
    <3>4. ~Complete(f)
      BY <1>11, <3>3, CompleteStays
    <3> QED BY <3>1, <3>2, <3>4
  <2> QED BY <2>1, <2>2
<1>12. stream' \in Seq(Byte) /\ Len(stream') = l + 1 /\ 0 <= l + 1 /\ 1 <= l + 1
  BY <1>3
<1>13. CASE Restarts(b) /\ captured' = <<b>> /\ emitted' = << >>
  <2>0. IsMagic(b) /\ <<b>> \in Seq(Byte) /\ Len(<<b>>) = 1 /\ <<b>>[1] = b
    BY <1>13 DEF Restarts
  <2>1. ParserTypes'
    BY <1>1, <1>12, <1>13, <2>0 DEF ParserTypes
  <2>2. CapturedIs'
    <3>1. LastBytes(1)' = captured' /\ Len(captured') = 1 /\ IsMagic(captured'[1])
      BY <1>7, <1>13, <2>0
    <3> QED BY <3>1 DEF CapturedIs, LastBytes, IsMagic
  <2>3. NotSound'
    BY <1>13, <2>0 DEF NotSound, Complete
  <2>4. BegunCaptured'
    <3> SUFFICES ASSUME NEW n \in 1 .. l + 1, Begun(n)', ~Complete(LastBytes(n)')
                 PROVE  Len(captured') = n
      BY <1>12 DEF BegunCaptured, Complete, LastBytes, FrameLen, HeaderLen, Signed
    <3>1. CASE n = 1
      BY <1>13, <2>0, <3>1
    <3>2. CASE n \in 2 .. l + 1 /\ ~Complete(LastBytes(n - 1))
      BY <1>8, <2>0, <3>2
    <3> QED BY <1>11, <3>1, <3>2
  <2>5. CleanFramesEmitted'
    <3>1. ASSUME NEW n \in 4 .. l + 1, CleanFrame(LastBytes(n)'),
                 n = l + 1 \/ ~IsMagic(stream'[(l + 1) - n])
          PROVE  FALSE
      BY <1>8, <1>10, <2>0, <3>1
    <3>2. \A n \in 4 .. Len(stream') :
             ~(CleanFrame(LastBytes(n)') /\ (n = Len(stream') \/ ~IsMagic(stream'[Len(stream') - n])))
      BY <1>12, <3>1, Zenon
    <3> QED BY <1>13, <3>2, Zenon DEF CleanFramesEmitted
  <2> QED BY <2>1, <2>2, <2>3, <2>4, <2>5 DEF ParserInv
<1>14. CASE /\ ~Restarts(b) /\ (captured = << >> \/ Len(captured) >= BufferLen)
            /\ captured' = << >> /\ emitted' = << >>
  <2>0. << >> \in Seq(Byte) /\ Len(<< >>) = 0
    OBVIOUS
  <2>1. ParserTypes'
    BY <1>1, <1>12, <1>14, <2>0 DEF ParserTypes
  <2>2. CapturedIs'
    <3>1. LastBytes(0)' = captured' /\ Len(captured') = 0 /\ captured' = << >>
      BY <1>7, <1>14, <2>0
    <3> QED BY <3>1 DEF CapturedIs, LastBytes, IsMagic
  <2>3. NotSound'
    BY <1>14, <2>0 DEF NotSound, Complete
  <2>4. ASSUME NEW n \in 2 .. l + 1, Begun(n)', ~Complete(LastBytes(n - 1))
        PROVE  FALSE
    <3>1. captured # << >> /\ c < BufferLen
      BY <1>8, <2>4
    <3> QED BY <1>1, <1>2, <1>3, <1>14, <3>1
  <2>5. BegunCaptured'
    <3> SUFFICES ASSUME NEW n \in 1 .. l + 1, Begun(n)', ~Complete(LastBytes(n)')
                 PROVE  FALSE
      BY <1>12 DEF BegunCaptured, Complete, LastBytes, FrameLen, HeaderLen, Signed
    <3> QED BY <1>11, <1>14, <2>4
  <2>6. CleanFramesEmitted'
    <3>1. ASSUME NEW n \in 4 .. l + 1, CleanFrame(LastBytes(n)'),
                 n = l + 1 \/ ~IsMagic(stream'[(l + 1) - n])
          PROVE  FALSE
      BY <1>10, <2>4, <3>1
    <3>2. \A n \in 4 .. Len(stream') :
             ~(CleanFrame(LastBytes(n)') /\ (n = Len(stream') \/ ~IsMagic(stream'[Len(stream') - n])))
      BY <1>12, <3>1, Zenon
    <3> QED BY <1>14, <3>2, Zenon DEF CleanFramesEmitted
  <2> QED BY <2>1, <2>2, <2>3, <2>5, <2>6 DEF ParserInv
\* A byte that is captured: the frame it completes is not longer than its length.
<1>15. ASSUME captured # << >>, c < BufferLen, Complete(buf), ParseFrame(SubSeq(buf, 1, FrameLen(buf)))
       PROVE  Len(buf) = FrameLen(buf) /\ SubSeq(buf, 1, FrameLen(buf)) = buf
  <2>1. FrameLen(buf) \in 4 .. 9 /\ buf[1] = captured[1]
    BY <1>1, <1>2, <1>15, FrameLenStays
  <2>2. Len(buf) >= FrameLen(buf)
    BY <1>15 DEF Complete
  <2>3. ASSUME Len(buf) > FrameLen(buf) PROVE FALSE
    <3>1. c >= 4 /\ c >= FrameLen(buf)
      BY <1>3, <1>4, <2>1, <2>3
    <3>2. FrameLen(buf) = FrameLen(captured)
      <4>1. Len(captured) >= 2 /\ Len(captured) >= 3
        BY <1>2, <1>3, <3>1
      <4>2. captured # << >>
        BY <1>15
      <4>3. FrameLen(Append(captured, b)) = FrameLen(captured)
        BY <1>1, <4>1, <4>2, FrameLenStays
      <4> QED BY <1>2, <4>3
    <3>3. Complete(captured)
      BY <1>2, <1>3, <3>1, <3>2 DEF Complete
    <3>4. SubSeq(captured, 1, FrameLen(captured)) = SubSeq(buf, 1, FrameLen(buf))
      <4>1. PICK k : k = FrameLen(buf)
        OBVIOUS
      <4>2. k \in 1 .. c /\ k \in 1 .. c + 1 /\ k \in Nat
        BY <1>3, <2>1, <3>1, <4>1
      <4>3. \A i \in 1 .. c : buf[i] = captured[i]
        BY <1>1, <1>2
      <4>4. PICK f, g : f = SubSeq(captured, 1, k) /\ g = SubSeq(buf, 1, k)
        OBVIOUS
      <4>5. f \in Seq(Byte) /\ Len(f) = k /\ \A i \in 1 .. k : f[i] = captured[i]
        BY <1>1, <1>2, <4>2, <4>4
      <4>6. g \in Seq(Byte) /\ Len(g) = k /\ \A i \in 1 .. k : g[i] = buf[i]
        BY <1>4, <4>2, <4>4
      <4>7. \A i \in 1 .. k : i \in 1 .. c
        BY <1>3, <4>2
      <4>8. Len(f) = Len(g) /\ \A i \in 1 .. Len(f) : f[i] = g[i]
        BY <4>3, <4>5, <4>6, <4>7, Zenon
      <4>9. f = g
        BY <4>5, <4>6, <4>8, SeqEqual
      <4> QED BY <3>2, <4>1, <4>4, <4>9
    <3> QED BY <1>15, <3>3, <3>4 DEF ParserInv, NotSound
  <2>4. Len(buf) = FrameLen(buf)
    BY <1>3, <1>4, <2>1, <2>2, <2>3
  <2> QED BY <1>4, <2>4, SubSeqFull
<1>16. captured # << >> => IsMagic(buf[1])
  <2>1. captured # << >> => buf[1] = captured[1]
    BY <1>1, <1>2, FrameLenStays
  <2> QED BY <2>1 DEF ParserInv, CapturedIs
<1>17. CASE /\ ~Restarts(b) /\ captured # << >> /\ Len(captured) < BufferLen
            /\ Complete(buf) /\ ParseFrame(SubSeq(buf, 1, FrameLen(buf)))
            /\ emitted' = SubSeq(buf, 1, FrameLen(buf)) /\ captured' = << >>
  <2>0. << >> \in Seq(Byte) /\ Len(<< >>) = 0
    OBVIOUS
  <2>1. ParserTypes'
    BY <1>1, <1>12, <1>17, <2>0 DEF ParserTypes
  <2>2. CapturedIs'
    <3>1. LastBytes(0)' = captured' /\ Len(captured') = 0 /\ captured' = << >>
      BY <1>7, <1>17, <2>0
    <3> QED BY <3>1 DEF CapturedIs, LastBytes, IsMagic
  <2>3. NotSound'
    BY <1>17, <2>0 DEF NotSound, Complete
  <2>4. emitted' = buf
    BY <1>2, <1>15, <1>17
  <2>5. BegunCaptured'
    <3> SUFFICES ASSUME NEW n \in 1 .. l + 1, Begun(n)', ~Complete(LastBytes(n)')
                 PROVE  FALSE
      BY <1>12 DEF BegunCaptured, Complete, LastBytes, FrameLen, HeaderLen, Signed
    <3>1. n \in 2 .. l + 1 /\ ~Complete(LastBytes(n - 1))
      BY <1>11, <1>17
    <3>2. buf = LastBytes(n)'
      BY <1>8, <3>1
    <3> QED BY <1>17, <3>2
  <2>6. CleanFramesEmitted'
    <3>1. ASSUME NEW n \in 4 .. l + 1, CleanFrame(LastBytes(n)'),
                 n = l + 1 \/ ~IsMagic(stream'[(l + 1) - n])
          PROVE  emitted' = LastBytes(n)'
      BY <1>8, <1>10, <2>4, <3>1
    <3>2. \A n \in 4 .. Len(stream') :
             CleanFrame(LastBytes(n)') /\ (n = Len(stream') \/ ~IsMagic(stream'[Len(stream') - n]))
                => emitted' = LastBytes(n)'
      BY <1>12, <3>1, Zenon
    <3>3. IsMagic(emitted'[1]) /\ Len(emitted') = c + 1 /\ emitted' = LastBytes(c + 1)'
      BY <1>4, <1>6, <1>16, <1>17, <2>4, Zenon
    <3>4. Len(emitted') <= Len(stream')
      BY <1>3, <1>12, <3>3
    <3>5. emitted' = LastBytes(Len(emitted))'
      BY <3>3, Zenon DEF LastBytes
    <3> QED BY <3>2, <3>3, <3>4, <3>5, Zenon DEF CleanFramesEmitted
  <2> QED BY <2>1, <2>2, <2>3, <2>5, <2>6 DEF ParserInv
<1>18. CASE /\ ~Restarts(b) /\ captured # << >> /\ Len(captured) < BufferLen
            /\ ~(Complete(buf) /\ ParseFrame(SubSeq(buf, 1, FrameLen(buf))))
            /\ emitted' = << >> /\ captured' = buf
  <2>1. ParserTypes'
    BY <1>1, <1>2, <1>3, <1>4, <1>18 DEF ParserTypes
  <2>2. CapturedIs'
    <3>1. captured' = LastBytes(c + 1)' /\ Len(captured') = c + 1 /\ IsMagic(captured'[1])
      BY <1>4, <1>6, <1>16, <1>18, Zenon
    <3> QED BY <3>1, Zenon DEF CapturedIs, LastBytes
  <2>3. NotSound'
    BY <1>18, Zenon DEF NotSound
  <2>4. BegunCaptured'
    <3> SUFFICES ASSUME NEW n \in 1 .. l + 1, Begun(n)', ~Complete(LastBytes(n)')
                 PROVE  Len(captured') = n
      BY <1>12 DEF BegunCaptured, Complete, LastBytes, FrameLen, HeaderLen, Signed
    <3>1. n \in 2 .. l + 1 /\ ~Complete(LastBytes(n - 1))
      BY <1>11, <1>18
    <3>2. c = n - 1
      BY <1>8, <3>1
    <3> QED BY <1>3, <1>4, <1>18, <3>2
  <2>5. CleanFramesEmitted'
    <3>1. ASSUME NEW n \in 4 .. l + 1, CleanFrame(LastBytes(n)'),
                 n = l + 1 \/ ~IsMagic(stream'[(l + 1) - n])
          PROVE  FALSE
      <4>1. CleanFrame(buf)
        BY <1>8, <1>10, <3>1
      <4>2. Len(buf) >= 4 /\ Len(buf) = FrameLen(buf) /\ ParseFrame(buf)
        BY <4>1 DEF CleanFrame
      <4>3. SubSeq(buf, 1, FrameLen(buf)) = buf
        BY <1>4, <4>2, SubSeqFull
      <4>4. Complete(buf)
        BY <1>3, <1>4, <4>2 DEF Complete
      <4> QED BY <1>18, <4>2, <4>3, <4>4
    <3>2. \A n \in 4 .. Len(stream') :
             ~(CleanFrame(LastBytes(n)') /\ (n = Len(stream') \/ ~IsMagic(stream'[Len(stream') - n])))
      BY <1>12, <3>1, Zenon
    <3> QED BY <1>18, <3>2, Zenon DEF CleanFramesEmitted
  <2> QED BY <2>1, <2>2, <2>3, <2>4, <2>5 DEF ParserInv
<1> QED BY <1>2, <1>13, <1>14, <1>17, <1>18, Zenon DEF Feed

\* For every buffer that holds the longest frame and every stream, noise
\* included: a frame without inner magic bytes is emitted with its last byte,
\* and what is emitted is the tail of the stream from a magic byte on (feed of
\* mavlink.rs).
THEOREM CleanFramesEmittedAlways == ParserSpec => []CleanFramesEmitted
<1>1. ParserInv /\ [ParserNext]_parserVars => ParserInv'
  <2> SUFFICES ASSUME ParserInv, [ParserNext]_parserVars PROVE ParserInv'
    OBVIOUS
  <2>1. CASE ParserNext
    BY <2>1, FeedKeeps DEF ParserNext
  <2>2. CASE UNCHANGED parserVars
    <3>1. captured' = captured /\ stream' = stream /\ emitted' = emitted
      BY <2>2 DEF parserVars
    <3> QED BY <3>1 DEF ParserInv, ParserTypes, CapturedIs, NotSound, BegunCaptured, Begun, LastBytes,
                        CleanFramesEmitted
  <2> QED BY <2>1, <2>2
<1>2. ParserInv => CleanFramesEmitted
  BY DEF ParserInv
<1> QED BY <1>1, <1>2, ParserInvInit, PTL DEF ParserSpec

-----------------------------------------------------------------------------
(* The operator's controller.                                              *)

\* Induction up to n, for a set.
LEMMA CountUp ==
    ASSUME NEW n \in Nat, NEW S, 0 \in S, \A i \in 1 .. n : i - 1 \in S => i \in S
    PROVE  \A i \in 0 .. n : i \in S
<1> SUFFICES ASSUME NEW j \in 0 .. n, j \notin S PROVE FALSE
  OBVIOUS
<1> DEFINE C == {i \in 0 .. n : i \notin S}
<1>1. C \subseteq Nat /\ C # {}
  <2>1. j \in C
    OBVIOUS
  <2>2. \A i \in 0 .. n : i \in Nat
    OBVIOUS
  <2> QED BY <2>1, <2>2, Zenon
<1>2. PICK m \in C : \A k \in C : m <= k
  BY <1>1, LeastOf, Zenon
<1>3. m \in 0 .. n /\ m \notin S /\ m # 0
  OBVIOUS
<1>4. m \in 1 .. n /\ m - 1 \in 0 .. n /\ ~(m <= m - 1)
  BY <1>3
<1>5. m - 1 \in S
  BY <1>2, <1>4
<1> QED BY <1>3, <1>4, <1>5

\* The iterates of n steps from a.
Iterates(n, a, F, g) ==
    g = [i \in 0 .. n |-> IF i = 0 THEN a ELSE F[i][g[i - 1]]]

\* Steps within a set have iterates in it: this is why a loop over a drain's
\* events has a result.
LEMMA IteratesExist ==
    ASSUME NEW n \in Nat, NEW T, NEW a \in T, NEW F \in [1 .. n -> [T -> T]]
    PROVE  \E g \in [0 .. n -> T] : Iterates(n, a, F, g)
<1> DEFINE S == {k \in 0 .. n : \E g \in [0 .. k -> T] : Iterates(k, a, F, g)}
<1>1. 0 \in S
  <2> DEFINE g == [i \in 0 .. 0 |-> a]
  <2>1. g \in [0 .. 0 -> T] /\ Iterates(0, a, F, g)
    BY DEF Iterates
  <2> QED BY <2>1
<1>2. ASSUME NEW k \in 1 .. n, k - 1 \in S
      PROVE  k \in S
  <2>1. PICK g \in [0 .. k - 1 -> T] : Iterates(k - 1, a, F, g)
    BY <1>2
  <2> DEFINE h == [i \in 0 .. k |-> IF i = k THEN F[k][g[k - 1]] ELSE g[i]]
  <2>2. k \in Nat /\ k # 0 /\ k - 1 \in 0 .. k - 1 /\ k - 1 # k
    OBVIOUS
  <2>3. \A i \in 0 .. k - 1 : g[i] = IF i = 0 THEN a ELSE F[i][g[i - 1]]
    BY <2>1 DEF Iterates
  <2>4. h \in [0 .. k -> T] /\ h[k] = F[k][g[k - 1]] /\ \A i \in 0 .. k - 1 : h[i] = g[i]
    <3>1. g[k - 1] \in T /\ F[k] \in [T -> T]
      BY <2>2
    <3>2. F[k][g[k - 1]] \in T
      BY <3>1
    <3>3. \A i \in 0 .. k : i = k \/ i \in 0 .. k - 1
      BY <2>2
    <3>4. \A i \in 0 .. k - 1 : i \in 0 .. k /\ i # k
      BY <2>2
    <3>5. k \in 0 .. k
      BY <2>2
    <3> QED BY <3>2, <3>3, <3>4, <3>5
  <2> HIDE DEF h
  <2>5. ASSUME NEW i \in 0 .. k
        PROVE  h[i] = IF i = 0 THEN a ELSE F[i][h[i - 1]]
    <3>1. CASE i = k
      BY <3>1, <2>2, <2>4
    <3>2. CASE i # k /\ i = 0
      <4>1. 0 \in 0 .. k - 1
        BY <2>2
      <4> QED BY <4>1, <3>2, <2>3, <2>4
    <3>3. CASE i # k /\ i # 0
      <4>1. i \in 0 .. k - 1 /\ i - 1 \in 0 .. k - 1
        BY <3>3, <2>2
      <4> QED BY <4>1, <3>3, <2>3, <2>4
    <3> QED BY <3>1, <3>2, <3>3
  <2>6. Iterates(k, a, F, h)
    BY <2>4, <2>5 DEF Iterates
  <2>7. k \in 0 .. n
    OBVIOUS
  <2> QED BY <2>4, <2>6, <2>7
<1>3. n \in S
  <2> HIDE DEF S
  <2>1. \A i \in 0 .. n : i \in S
    BY <1>1, <1>2, CountUp
  <2>2. n \in 0 .. n
    OBVIOUS
  <2> QED BY <2>1, <2>2
<1> QED BY <1>3

\* What the kernel queues while nothing is lost.
InputEvent ==
    [kind : {"ABS"}, code : AbsCode, value : Int] \cup [kind : {"KEY"}, code : Key, value : BOOLEAN]
Axes == [Slot -> -Unit .. Unit]
Writers == [Slot -> AbsCode \cup {"none"}]
Bits == SUBSET {Bit(key) : key \in Key}

\* Every axis of the device has a slot.
LEMMA SlotOfType ==
    ASSUME NEW code \in AbsCode
    PROVE  SlotOf(code) \in Slot
BY InputAssumption DEF SlotOf, Slot

\* Buttons are seen by their bits.
LEMMA PushKeyType ==
    ASSUME NEW bits \in Bits, NEW key \in Key, NEW down
    PROVE  PushKey(bits, key, down) \in Bits
BY DEF PushKey, Bits

\* A slot holds a value from -1 to 1.
LEMMA PushAbsType ==
    ASSUME NEW ax \in Axes, NEW code \in AbsCode, NEW value \in Int
    PROVE  PushAbs(ax, code, value) \in Axes
<1>1. SlotOf(code) \in Slot
  BY SlotOfType
<1>2. Calib(SlotOf(code)) \in Int \X Int
  BY InputAssumption DEF Calib
<1>3. ASSUME NEW range \in Int \X Int
      PROVE  Norm(value, range) \in -Unit .. Unit
  <2>1. PICK lo \in Int, hi \in Int : lo = range[1] /\ hi = range[2]
    OBVIOUS
  <2>2. PICK span \in Int : span = (IF hi > lo THEN hi - lo ELSE 1) /\ span > 0
    OBVIOUS
  <2>3. PICK x \in Int : x = (value - lo) * 2 * Unit
    BY InputAssumption
  <2>4. PICK d \in Int : d = x \div span
    BY <2>2
  <2>5. PICK q \in Int : q = d - Unit
    BY <2>4, InputAssumption
  <2>6. ClampTo(q, -Unit, Unit) \in -Unit .. Unit
    BY InputAssumption DEF ClampTo
  <2>7. Norm(value, range) = ClampTo(q, -Unit, Unit)
    BY <2>1, <2>2, <2>3, <2>4, <2>5 DEF Norm
  <2> QED BY <2>6, <2>7
<1>4. ASSUME NEW v \in -Unit .. Unit
      PROVE  Oriented(code, v) \in -Unit .. Unit
  BY InputAssumption DEF Oriented
<1>5. Oriented(code, Norm(value, Calib(SlotOf(code)))) \in -Unit .. Unit
  BY <1>2, <1>3, <1>4
<1> QED BY <1>1, <1>5 DEF PushAbs, Axes

\* The loop over the axes as an equation.
AxesLoop(ev, ax, g) ==
    g = [i \in 0 .. Len(ev) |->
          IF i = 0 THEN ax
          ELSE IF ev[i].kind = "ABS" THEN PushAbs(g[i - 1], ev[i].code, ev[i].value)
          ELSE g[i - 1]]

\* It has a solution, and AxesAfter is the last value of one.
LEMMA AxesLoops ==
    ASSUME NEW ev \in Seq(InputEvent), NEW ax \in Axes
    PROVE  \E g \in [0 .. Len(ev) -> Axes] : AxesLoop(ev, ax, g) /\ AxesAfter(ev, ax) = g[Len(ev)]
<1> DEFINE n == Len(ev)
           F == [i \in 1 .. n |-> [x \in Axes |->
                   IF ev[i].kind = "ABS" THEN PushAbs(x, ev[i].code, ev[i].value) ELSE x]]
<1>1. n \in Nat /\ \A i \in 1 .. n : ev[i] \in InputEvent
  OBVIOUS
<1>2. \A i \in 1 .. n : ev[i].kind = "ABS" => ev[i].code \in AbsCode /\ ev[i].value \in Int
  BY <1>1 DEF InputEvent
<1>3. \A i \in 1 .. n : \A x \in Axes :
         (IF ev[i].kind = "ABS" THEN PushAbs(x, ev[i].code, ev[i].value) ELSE x) \in Axes
  BY <1>2, PushAbsType
<1>4. /\ F \in [1 .. n -> [Axes -> Axes]]
      /\ \A i \in 1 .. n : \A x \in Axes :
           F[i][x] = IF ev[i].kind = "ABS" THEN PushAbs(x, ev[i].code, ev[i].value) ELSE x
  BY <1>3
<1> HIDE DEF F
<1>5. PICK f \in [0 .. n -> Axes] : Iterates(n, ax, F, f)
  BY <1>1, <1>4, IteratesExist
<1>6. AxesLoop(ev, ax, f)
  <2>1. ASSUME NEW i \in 0 .. n
        PROVE  f[i] = IF i = 0 THEN ax
                      ELSE IF ev[i].kind = "ABS" THEN PushAbs(f[i - 1], ev[i].code, ev[i].value)
                      ELSE f[i - 1]
    <3>1. f[i] = IF i = 0 THEN ax ELSE F[i][f[i - 1]]
      BY <1>5 DEF Iterates
    <3>2. CASE i # 0
      <4>1. i \in 1 .. n /\ i - 1 \in 0 .. n
        BY <3>2, <1>1
      <4>2. f[i - 1] \in Axes
        BY <4>1
      <4> QED BY <3>1, <3>2, <4>1, <4>2, <1>4
    <3> QED BY <3>1, <3>2
  <2> QED BY <2>1 DEF AxesLoop
<1> DEFINE g == CHOOSE g : AxesLoop(ev, ax, g)
<1>7. AxesLoop(ev, ax, g)
  BY <1>6
<1>8. AxesAfter(ev, ax) = g[n]
  BY Zenon DEF AxesAfter, AxesLoop
<1> HIDE DEF g
<1>9. g \in [0 .. n -> Axes]
  <2> DEFINE S == {i \in 0 .. n : g[i] \in Axes}
  <2>1. DOMAIN g = 0 .. n /\ g = [i \in 0 .. n |-> g[i]]
    BY <1>7 DEF AxesLoop
  <2>2. 0 \in S
    BY <1>1, <1>7 DEF AxesLoop
  <2>3. ASSUME NEW i \in 1 .. n, i - 1 \in S PROVE i \in S
    <3>1. g[i - 1] \in Axes /\ i \in 0 .. n /\ i # 0
      BY <2>3, <1>1
    <3>2. g[i] = IF ev[i].kind = "ABS" THEN PushAbs(g[i - 1], ev[i].code, ev[i].value) ELSE g[i - 1]
      BY <3>1, <1>7 DEF AxesLoop
    <3> QED BY <3>1, <3>2, <1>3
  <2>4. \A i \in 0 .. n : i \in S
    <3> HIDE DEF S
    <3> QED BY <2>2, <2>3, <1>1, CountUp
  <2> QED BY <2>1, <2>4
<1> QED BY <1>7, <1>8, <1>9
\* The loop over the record of the writers as an equation.
MovedLoop(ev, mv, g) ==
    g = [i \in 0 .. Len(ev) |->
          IF i = 0 THEN mv
          ELSE IF ev[i].kind = "ABS" THEN [g[i - 1] EXCEPT ![SlotOf(ev[i].code)] = ev[i].code]
          ELSE g[i - 1]]

\* It has a solution, and MovedAfter is the last value of one.
LEMMA MovedLoops ==
    ASSUME NEW ev \in Seq(InputEvent), NEW mv \in Writers
    PROVE  \E g \in [0 .. Len(ev) -> Writers] : MovedLoop(ev, mv, g) /\ MovedAfter(ev, mv) = g[Len(ev)]
<1> DEFINE n == Len(ev)
           F == [i \in 1 .. n |-> [x \in Writers |->
                   IF ev[i].kind = "ABS" THEN [x EXCEPT ![SlotOf(ev[i].code)] = ev[i].code] ELSE x]]
<1>1. n \in Nat /\ \A i \in 1 .. n : ev[i] \in InputEvent
  OBVIOUS
<1>2. \A i \in 1 .. n : ev[i].kind = "ABS" => ev[i].code \in AbsCode /\ SlotOf(ev[i].code) \in Slot
  BY <1>1, SlotOfType DEF InputEvent
<1>3. \A i \in 1 .. n : \A x \in Writers :
         (IF ev[i].kind = "ABS" THEN [x EXCEPT ![SlotOf(ev[i].code)] = ev[i].code] ELSE x) \in Writers
  BY <1>2 DEF Writers
<1>4. /\ F \in [1 .. n -> [Writers -> Writers]]
      /\ \A i \in 1 .. n : \A x \in Writers :
           F[i][x] = IF ev[i].kind = "ABS" THEN [x EXCEPT ![SlotOf(ev[i].code)] = ev[i].code] ELSE x
  BY <1>3
<1> HIDE DEF F
<1>5. PICK f \in [0 .. n -> Writers] : Iterates(n, mv, F, f)
  BY <1>1, <1>4, IteratesExist
<1>6. MovedLoop(ev, mv, f)
  <2>1. ASSUME NEW i \in 0 .. n
        PROVE  f[i] = IF i = 0 THEN mv
                      ELSE IF ev[i].kind = "ABS" THEN [f[i - 1] EXCEPT ![SlotOf(ev[i].code)] = ev[i].code]
                      ELSE f[i - 1]
    <3>1. f[i] = IF i = 0 THEN mv ELSE F[i][f[i - 1]]
      BY <1>5 DEF Iterates
    <3>2. CASE i # 0
      <4>1. i \in 1 .. n /\ i - 1 \in 0 .. n
        BY <3>2, <1>1
      <4>2. f[i - 1] \in Writers
        BY <4>1
      <4> QED BY <3>1, <3>2, <4>1, <4>2, <1>4
    <3> QED BY <3>1, <3>2
  <2> QED BY <2>1 DEF MovedLoop
<1> DEFINE g == CHOOSE g : MovedLoop(ev, mv, g)
<1>7. MovedLoop(ev, mv, g)
  BY <1>6
<1>8. MovedAfter(ev, mv) = g[n]
  BY Zenon DEF MovedAfter, MovedLoop
<1> HIDE DEF g
<1>9. g \in [0 .. n -> Writers]
  <2> DEFINE S == {i \in 0 .. n : g[i] \in Writers}
  <2>1. DOMAIN g = 0 .. n /\ g = [i \in 0 .. n |-> g[i]]
    BY <1>7 DEF MovedLoop
  <2>2. 0 \in S
    BY <1>1, <1>7 DEF MovedLoop
  <2>3. ASSUME NEW i \in 1 .. n, i - 1 \in S PROVE i \in S
    <3>1. g[i - 1] \in Writers /\ i \in 0 .. n /\ i # 0
      BY <2>3, <1>1
    <3>2. g[i] = IF ev[i].kind = "ABS" THEN [g[i - 1] EXCEPT ![SlotOf(ev[i].code)] = ev[i].code] ELSE g[i - 1]
      BY <3>1, <1>7 DEF MovedLoop
    <3> QED BY <3>1, <3>2, <1>3
  <2>4. \A i \in 0 .. n : i \in S
    <3> HIDE DEF S
    <3> QED BY <2>2, <2>3, <1>1, CountUp
  <2> QED BY <2>1, <2>4
<1> QED BY <1>7, <1>8, <1>9
\* The loop over the buttons as an equation.
ButtonsLoop(ev, bits, g) ==
    g = [i \in 0 .. Len(ev) |->
          IF i = 0 THEN bits
          ELSE IF ev[i].kind = "KEY" THEN PushKey(g[i - 1], ev[i].code, ev[i].value)
          ELSE g[i - 1]]

\* It has a solution, and ButtonsAfter is the last value of one.
LEMMA ButtonsLoops ==
    ASSUME NEW ev \in Seq(InputEvent), NEW bits \in Bits
    PROVE  \E g \in [0 .. Len(ev) -> Bits] : ButtonsLoop(ev, bits, g) /\ ButtonsAfter(ev, bits) = g[Len(ev)]
<1> DEFINE n == Len(ev)
           F == [i \in 1 .. n |-> [x \in Bits |->
                   IF ev[i].kind = "KEY" THEN PushKey(x, ev[i].code, ev[i].value) ELSE x]]
<1>1. n \in Nat /\ \A i \in 1 .. n : ev[i] \in InputEvent
  OBVIOUS
<1>2. \A i \in 1 .. n : ev[i].kind = "KEY" => ev[i].code \in Key
  BY <1>1 DEF InputEvent
<1>3. \A i \in 1 .. n : \A x \in Bits :
         (IF ev[i].kind = "KEY" THEN PushKey(x, ev[i].code, ev[i].value) ELSE x) \in Bits
  BY <1>2, PushKeyType
<1>4. /\ F \in [1 .. n -> [Bits -> Bits]]
      /\ \A i \in 1 .. n : \A x \in Bits :
           F[i][x] = IF ev[i].kind = "KEY" THEN PushKey(x, ev[i].code, ev[i].value) ELSE x
  BY <1>3
<1> HIDE DEF F
<1>5. PICK f \in [0 .. n -> Bits] : Iterates(n, bits, F, f)
  BY <1>1, <1>4, IteratesExist
<1>6. ButtonsLoop(ev, bits, f)
  <2>1. ASSUME NEW i \in 0 .. n
        PROVE  f[i] = IF i = 0 THEN bits
                      ELSE IF ev[i].kind = "KEY" THEN PushKey(f[i - 1], ev[i].code, ev[i].value)
                      ELSE f[i - 1]
    <3>1. f[i] = IF i = 0 THEN bits ELSE F[i][f[i - 1]]
      BY <1>5 DEF Iterates
    <3>2. CASE i # 0
      <4>1. i \in 1 .. n /\ i - 1 \in 0 .. n
        BY <3>2, <1>1
      <4>2. f[i - 1] \in Bits
        BY <4>1
      <4> QED BY <3>1, <3>2, <4>1, <4>2, <1>4
    <3> QED BY <3>1, <3>2
  <2> QED BY <2>1 DEF ButtonsLoop
<1> DEFINE g == CHOOSE g : ButtonsLoop(ev, bits, g)
<1>7. ButtonsLoop(ev, bits, g)
  BY <1>6
<1>8. ButtonsAfter(ev, bits) = g[n]
  BY Zenon DEF ButtonsAfter, ButtonsLoop
<1> HIDE DEF g
<1>9. g \in [0 .. n -> Bits]
  <2> DEFINE S == {i \in 0 .. n : g[i] \in Bits}
  <2>1. DOMAIN g = 0 .. n /\ g = [i \in 0 .. n |-> g[i]]
    BY <1>7 DEF ButtonsLoop
  <2>2. 0 \in S
    BY <1>1, <1>7 DEF ButtonsLoop
  <2>3. ASSUME NEW i \in 1 .. n, i - 1 \in S PROVE i \in S
    <3>1. g[i - 1] \in Bits /\ i \in 0 .. n /\ i # 0
      BY <2>3, <1>1
    <3>2. g[i] = IF ev[i].kind = "KEY" THEN PushKey(g[i - 1], ev[i].code, ev[i].value) ELSE g[i - 1]
      BY <3>1, <1>7 DEF ButtonsLoop
    <3> QED BY <3>1, <3>2, <1>3
  <2>4. \A i \in 0 .. n : i \in S
    <3> HIDE DEF S
    <3> QED BY <2>2, <2>3, <1>1, CountUp
  <2> QED BY <2>1, <2>4
<1> QED BY <1>7, <1>8, <1>9

\* What one more event does to the axes, after all those before it.
LEMMA AxesAfterAppend ==
    ASSUME NEW ev \in Seq(InputEvent), NEW e \in InputEvent, NEW ax \in Axes
    PROVE  /\ AxesAfter(ev, ax) \in Axes
           /\ AxesAfter(Append(ev, e), ax) =
                IF e.kind = "ABS" THEN PushAbs(AxesAfter(ev, ax), e.code, e.value) ELSE AxesAfter(ev, ax)
<1>1. PICK n \in Nat : n = Len(ev)
  OBVIOUS
<1>2. PICK more \in Seq(InputEvent) : more = Append(ev, e)
  BY AppendProperties, Zenon
<1>3. Len(more) = n + 1 /\ more[n + 1] = e /\ \A i \in 1 .. n : more[i] = ev[i]
  BY <1>1, <1>2
<1>4. PICK f \in [0 .. n -> Axes] : AxesLoop(ev, ax, f) /\ AxesAfter(ev, ax) = f[n]
  BY <1>1, AxesLoops
<1>5. PICK g \in [0 .. n + 1 -> Axes] : AxesLoop(more, ax, g) /\ AxesAfter(more, ax) = g[n + 1]
  <2>1. Len(more) = n + 1
    BY <1>3
  <2> QED BY <2>1, AxesLoops
<1>6. \A i \in 0 .. n : f[i] = IF i = 0 THEN ax
                               ELSE IF ev[i].kind = "ABS" THEN PushAbs(f[i - 1], ev[i].code, ev[i].value) ELSE f[i - 1]
  BY <1>1, <1>4 DEF AxesLoop
<1>7. \A i \in 0 .. n + 1 : g[i] = IF i = 0 THEN ax
                               ELSE IF more[i].kind = "ABS" THEN PushAbs(g[i - 1], more[i].code, more[i].value) ELSE g[i - 1]
  BY <1>3, <1>5 DEF AxesLoop
<1> DEFINE S == {i \in 0 .. n : f[i] = g[i]}
<1>8. 0 \in S
  <2>1. 0 \in 0 .. n /\ 0 \in 0 .. n + 1
    BY <1>1
  <2> QED BY <2>1, <1>6, <1>7
<1>9. ASSUME NEW i \in 1 .. n, i - 1 \in S PROVE i \in S
  <2>1. i \in 0 .. n /\ i \in 0 .. n + 1 /\ i # 0 /\ more[i] = ev[i]
    BY <1>1, <1>3
  <2>2. f[i - 1] = g[i - 1]
    BY <1>9
  <2> QED BY <2>1, <2>2, <1>6, <1>7
<1>10. f[n] = g[n]
  <2>1. \A i \in 0 .. n : i \in S
    <3> HIDE DEF S
    <3> QED BY <1>8, <1>9, CountUp
  <2>2. n \in 0 .. n
    OBVIOUS
  <2> QED BY <2>1, <2>2
<1>11. n + 1 \in 0 .. n + 1 /\ ~(n + 1 = 0) /\ (n + 1) - 1 = n /\ n \in 0 .. n
  <2>1. n + 1 \in 0 .. n + 1 /\ n \in 0 .. n
    OBVIOUS
  <2>2. ~(n + 1 = 0)
    OBVIOUS
  <2>3. (n + 1) - 1 = n
    OBVIOUS
  <2> QED BY <2>1, <2>2, <2>3
<1>12. g[n + 1] = IF e.kind = "ABS" THEN PushAbs(g[n], e.code, e.value) ELSE g[n]
  <2> DEFINE m == n + 1
  <2>1. m \in 0 .. n + 1 /\ m # 0 /\ m - 1 = n /\ more[m] = e
    BY <1>11, <1>3
  <2> HIDE DEF m
  <2>2. g[m] = IF e.kind = "ABS" THEN PushAbs(g[n], e.code, e.value) ELSE g[n]
    BY <2>1, <1>7, Zenon
  <2> QED BY <2>2 DEF m
<1>13. AxesAfter(ev, ax) \in Axes
  BY <1>4, <1>11
<1> QED BY <1>2, <1>4, <1>5, <1>10, <1>12, <1>13, Zenon

\* Nothing to apply changes nothing.
LEMMA AxesAfterEmpty ==
    ASSUME NEW ax \in Axes
    PROVE  AxesAfter(<< >>, ax) = ax
<1>1. << >> \in Seq(InputEvent) /\ Len(<< >>) = 0
  OBVIOUS
<1>2. PICK g : AxesLoop(<< >>, ax, g) /\ AxesAfter(<< >>, ax) = g[0]
  BY <1>1, AxesLoops
<1>3. g = [i \in 0 .. 0 |-> IF i = 0 THEN ax ELSE g[i]]
  BY <1>1, <1>2 DEF AxesLoop
<1> QED BY <1>2, <1>3

\* What one more event does to the writers, after all those before it.
LEMMA MovedAfterAppend ==
    ASSUME NEW ev \in Seq(InputEvent), NEW e \in InputEvent, NEW mv \in Writers
    PROVE  /\ MovedAfter(ev, mv) \in Writers
           /\ MovedAfter(Append(ev, e), mv) =
                IF e.kind = "ABS" THEN [MovedAfter(ev, mv) EXCEPT ![SlotOf(e.code)] = e.code] ELSE MovedAfter(ev, mv)
<1>1. PICK n \in Nat : n = Len(ev)
  OBVIOUS
<1>2. PICK more \in Seq(InputEvent) : more = Append(ev, e)
  BY AppendProperties, Zenon
<1>3. Len(more) = n + 1 /\ more[n + 1] = e /\ \A i \in 1 .. n : more[i] = ev[i]
  BY <1>1, <1>2
<1>4. PICK f \in [0 .. n -> Writers] : MovedLoop(ev, mv, f) /\ MovedAfter(ev, mv) = f[n]
  BY <1>1, MovedLoops
<1>5. PICK g \in [0 .. n + 1 -> Writers] : MovedLoop(more, mv, g) /\ MovedAfter(more, mv) = g[n + 1]
  <2>1. Len(more) = n + 1
    BY <1>3
  <2> QED BY <2>1, MovedLoops
<1>6. \A i \in 0 .. n : f[i] = IF i = 0 THEN mv
                               ELSE IF ev[i].kind = "ABS" THEN [f[i - 1] EXCEPT ![SlotOf(ev[i].code)] = ev[i].code] ELSE f[i - 1]
  BY <1>1, <1>4 DEF MovedLoop
<1>7. \A i \in 0 .. n + 1 : g[i] = IF i = 0 THEN mv
                               ELSE IF more[i].kind = "ABS" THEN [g[i - 1] EXCEPT ![SlotOf(more[i].code)] = more[i].code] ELSE g[i - 1]
  BY <1>3, <1>5 DEF MovedLoop
<1> DEFINE S == {i \in 0 .. n : f[i] = g[i]}
<1>8. 0 \in S
  <2>1. 0 \in 0 .. n /\ 0 \in 0 .. n + 1
    BY <1>1
  <2> QED BY <2>1, <1>6, <1>7
<1>9. ASSUME NEW i \in 1 .. n, i - 1 \in S PROVE i \in S
  <2>1. i \in 0 .. n /\ i \in 0 .. n + 1 /\ i # 0 /\ more[i] = ev[i]
    BY <1>1, <1>3
  <2>2. f[i - 1] = g[i - 1]
    BY <1>9
  <2> QED BY <2>1, <2>2, <1>6, <1>7
<1>10. f[n] = g[n]
  <2>1. \A i \in 0 .. n : i \in S
    <3> HIDE DEF S
    <3> QED BY <1>8, <1>9, CountUp
  <2>2. n \in 0 .. n
    OBVIOUS
  <2> QED BY <2>1, <2>2
<1>11. n + 1 \in 0 .. n + 1 /\ ~(n + 1 = 0) /\ (n + 1) - 1 = n /\ n \in 0 .. n
  <2>1. n + 1 \in 0 .. n + 1 /\ n \in 0 .. n
    OBVIOUS
  <2>2. ~(n + 1 = 0)
    OBVIOUS
  <2>3. (n + 1) - 1 = n
    OBVIOUS
  <2> QED BY <2>1, <2>2, <2>3
<1>12. g[n + 1] = IF e.kind = "ABS" THEN [g[n] EXCEPT ![SlotOf(e.code)] = e.code] ELSE g[n]
  <2> DEFINE m == n + 1
  <2>1. m \in 0 .. n + 1 /\ m # 0 /\ m - 1 = n /\ more[m] = e
    BY <1>11, <1>3
  <2> HIDE DEF m
  <2>2. g[m] = IF e.kind = "ABS" THEN [g[n] EXCEPT ![SlotOf(e.code)] = e.code] ELSE g[n]
    BY <2>1, <1>7, Zenon
  <2> QED BY <2>2 DEF m
<1>13. MovedAfter(ev, mv) \in Writers
  BY <1>4, <1>11
<1> QED BY <1>2, <1>4, <1>5, <1>10, <1>12, <1>13, Zenon

\* Nothing to apply changes nothing.
LEMMA MovedAfterEmpty ==
    ASSUME NEW mv \in Writers
    PROVE  MovedAfter(<< >>, mv) = mv
<1>1. << >> \in Seq(InputEvent) /\ Len(<< >>) = 0
  OBVIOUS
<1>2. PICK g : MovedLoop(<< >>, mv, g) /\ MovedAfter(<< >>, mv) = g[0]
  BY <1>1, MovedLoops
<1>3. g = [i \in 0 .. 0 |-> IF i = 0 THEN mv ELSE g[i]]
  BY <1>1, <1>2 DEF MovedLoop
<1> QED BY <1>2, <1>3

\* What one more event does to the buttons, after all those before it.
LEMMA ButtonsAfterAppend ==
    ASSUME NEW ev \in Seq(InputEvent), NEW e \in InputEvent, NEW bits \in Bits
    PROVE  /\ ButtonsAfter(ev, bits) \in Bits
           /\ ButtonsAfter(Append(ev, e), bits) =
                IF e.kind = "KEY" THEN PushKey(ButtonsAfter(ev, bits), e.code, e.value) ELSE ButtonsAfter(ev, bits)
<1>1. PICK n \in Nat : n = Len(ev)
  OBVIOUS
<1>2. PICK more \in Seq(InputEvent) : more = Append(ev, e)
  BY AppendProperties, Zenon
<1>3. Len(more) = n + 1 /\ more[n + 1] = e /\ \A i \in 1 .. n : more[i] = ev[i]
  BY <1>1, <1>2
<1>4. PICK f \in [0 .. n -> Bits] : ButtonsLoop(ev, bits, f) /\ ButtonsAfter(ev, bits) = f[n]
  BY <1>1, ButtonsLoops
<1>5. PICK g \in [0 .. n + 1 -> Bits] : ButtonsLoop(more, bits, g) /\ ButtonsAfter(more, bits) = g[n + 1]
  <2>1. Len(more) = n + 1
    BY <1>3
  <2> QED BY <2>1, ButtonsLoops
<1>6. \A i \in 0 .. n : f[i] = IF i = 0 THEN bits
                               ELSE IF ev[i].kind = "KEY" THEN PushKey(f[i - 1], ev[i].code, ev[i].value) ELSE f[i - 1]
  BY <1>1, <1>4 DEF ButtonsLoop
<1>7. \A i \in 0 .. n + 1 : g[i] = IF i = 0 THEN bits
                               ELSE IF more[i].kind = "KEY" THEN PushKey(g[i - 1], more[i].code, more[i].value) ELSE g[i - 1]
  BY <1>3, <1>5 DEF ButtonsLoop
<1> DEFINE S == {i \in 0 .. n : f[i] = g[i]}
<1>8. 0 \in S
  <2>1. 0 \in 0 .. n /\ 0 \in 0 .. n + 1
    BY <1>1
  <2> QED BY <2>1, <1>6, <1>7
<1>9. ASSUME NEW i \in 1 .. n, i - 1 \in S PROVE i \in S
  <2>1. i \in 0 .. n /\ i \in 0 .. n + 1 /\ i # 0 /\ more[i] = ev[i]
    BY <1>1, <1>3
  <2>2. f[i - 1] = g[i - 1]
    BY <1>9
  <2> QED BY <2>1, <2>2, <1>6, <1>7
<1>10. f[n] = g[n]
  <2>1. \A i \in 0 .. n : i \in S
    <3> HIDE DEF S
    <3> QED BY <1>8, <1>9, CountUp
  <2>2. n \in 0 .. n
    OBVIOUS
  <2> QED BY <2>1, <2>2
<1>11. n + 1 \in 0 .. n + 1 /\ ~(n + 1 = 0) /\ (n + 1) - 1 = n /\ n \in 0 .. n
  <2>1. n + 1 \in 0 .. n + 1 /\ n \in 0 .. n
    OBVIOUS
  <2>2. ~(n + 1 = 0)
    OBVIOUS
  <2>3. (n + 1) - 1 = n
    OBVIOUS
  <2> QED BY <2>1, <2>2, <2>3
<1>12. g[n + 1] = IF e.kind = "KEY" THEN PushKey(g[n], e.code, e.value) ELSE g[n]
  <2> DEFINE m == n + 1
  <2>1. m \in 0 .. n + 1 /\ m # 0 /\ m - 1 = n /\ more[m] = e
    BY <1>11, <1>3
  <2> HIDE DEF m
  <2>2. g[m] = IF e.kind = "KEY" THEN PushKey(g[n], e.code, e.value) ELSE g[n]
    BY <2>1, <1>7, Zenon
  <2> QED BY <2>2 DEF m
<1>13. ButtonsAfter(ev, bits) \in Bits
  BY <1>4, <1>11
<1> QED BY <1>2, <1>4, <1>5, <1>10, <1>12, <1>13, Zenon

\* Nothing to apply changes nothing.
LEMMA ButtonsAfterEmpty ==
    ASSUME NEW bits \in Bits
    PROVE  ButtonsAfter(<< >>, bits) = bits
<1>1. << >> \in Seq(InputEvent) /\ Len(<< >>) = 0
  OBVIOUS
<1>2. PICK g : ButtonsLoop(<< >>, bits, g) /\ ButtonsAfter(<< >>, bits) = g[0]
  BY <1>1, ButtonsLoops
<1>3. g = [i \in 0 .. 0 |-> IF i = 0 THEN bits ELSE g[i]]
  BY <1>1, <1>2 DEF ButtonsLoop
<1> QED BY <1>2, <1>3

\* A slot that an axis wrote last and calibrates holds its position; one that
\* no axis wrote is centred.
Positioned(ax, mv, st) ==
    \A code \in AbsCode : CalCode(SlotOf(code)) = code =>
       /\ mv[SlotOf(code)] = code =>
            ax[SlotOf(code)] = Oriented(code, Norm(st[code], AbsRange[code]))
       /\ mv[SlotOf(code)] = "none" => ax[SlotOf(code)] = 0

\* Bits are set for buttons held down, and for each that shares its bit with
\* none and went down since open.
Seen(bits, held, before) ==
    /\ bits \subseteq {Bit(key) : key \in held}
    /\ \A key \in held \ before : OwnBit(key) => Bit(key) \in bits

\* MappedCommands are made of axes; the newest of the ring is the last one made.
MappedCommands == {Apply(ax) : ax \in Axes}
Newest(ring, c, full) ==
    /\ ring \in Seq(MappedCommands) /\ Len(ring) <= CommandCap
    /\ Len(ring) > 0 /\ ~full => ring[Len(ring)] = c

InputTypes ==
    /\ stick \in [AbsCode -> Int] /\ pressed \subseteq Key /\ events \in Seq(InputEvent)
    /\ axes \in Axes /\ moved \in Writers /\ buttons \in Bits

\* The inductive invariant for CommandFollowsStick.  What is still queued is
\* applied first: then the accumulator has the position of the device.
InputInv ==
    ~gap =>
      /\ InputTypes
      /\ Positioned(AxesAfter(events, axes), MovedAfter(events, moved), stick)
      /\ Seen(ButtonsAfter(events, buttons), pressed, unheard)
      /\ command = Apply(axes) /\ Newest(commands, command, refused)

\* One more event puts the axis where the device has it.
LEMMA PositionedMove ==
    ASSUME NEW ax \in Axes, NEW mv \in Writers, NEW st \in [AbsCode -> Int],
           Positioned(ax, mv, st), NEW code \in AbsCode, NEW value \in Int
    PROVE  Positioned(PushAbs(ax, code, value), [mv EXCEPT ![SlotOf(code)] = code],
                      [st EXCEPT ![code] = value])
<1> DEFINE ax2 == PushAbs(ax, code, value)
           mv2 == [mv EXCEPT ![SlotOf(code)] = code]
           st2 == [st EXCEPT ![code] = value]
<1>0. "none" \notin AbsCode
  BY InputAssumption
<1>1. /\ SlotOf(code) \in Slot
      /\ ax2[SlotOf(code)] = Oriented(code, Norm(value, Calib(SlotOf(code))))
      /\ mv2[SlotOf(code)] = code /\ st2[code] = value
      /\ \A s \in Slot : s # SlotOf(code) => ax2[s] = ax[s] /\ mv2[s] = mv[s]
      /\ \A c \in AbsCode : c # code => st2[c] = st[c]
  BY SlotOfType DEF Axes, Writers, PushAbs
<1> HIDE DEF ax2, mv2, st2
<1>2. ASSUME NEW c \in AbsCode, CalCode(SlotOf(c)) = c
      PROVE  /\ mv2[SlotOf(c)] = c =>
                  ax2[SlotOf(c)] = Oriented(c, Norm(st2[c], AbsRange[c]))
             /\ mv2[SlotOf(c)] = "none" => ax2[SlotOf(c)] = 0
  <2>0. SlotOf(c) \in Slot
    BY SlotOfType
  <2>1. CASE SlotOf(c) # SlotOf(code)
    <3>1. c # code
      BY <2>1
    <3>2. ax2[SlotOf(c)] = ax[SlotOf(c)] /\ mv2[SlotOf(c)] = mv[SlotOf(c)] /\ st2[c] = st[c]
      BY <1>1, <2>0, <2>1, <3>1
    <3> QED BY <3>2, <1>2 DEF Positioned
  <2>2. CASE SlotOf(c) = SlotOf(code) /\ c # code
    BY <1>0, <1>1, <2>2
  <2>3. CASE c = code
    <3>1. Calib(SlotOf(code)) = AbsRange[code]
      BY <1>2, <2>3 DEF Calib
    <3> QED BY <3>1, <1>0, <1>1, <2>3
  <2> QED BY <2>1, <2>2, <2>3
<1>3. Positioned(ax2, mv2, st2)
  BY <1>2 DEF Positioned
<1> QED BY <1>3 DEF ax2, mv2, st2

\* A button that goes down or up keeps the bits right, also when it shares
\* its bit with another.
LEMMA SeenPress ==
    ASSUME NEW bits, NEW held, held \subseteq Key, NEW before, Seen(bits, held, before), NEW key \in Key
    PROVE  Seen(PushKey(bits, key, key \notin held),
                IF key \in held THEN held \ {key} ELSE held \cup {key}, before \ {key})
<1>1. CASE key \in held
  <2>1. PushKey(bits, key, key \notin held) = bits \ {Bit(key)}
    BY <1>1 DEF PushKey
  <2>2. ASSUME NEW b \in bits \ {Bit(key)}
        PROVE  b \in {Bit(k) : k \in held \ {key}}
    <3>1. PICK k \in held : b = Bit(k)
      BY DEF Seen
    <3>2. k # key
      BY <3>1
    <3> QED BY <3>1, <3>2
  <2>3. ASSUME NEW k \in (held \ {key}) \ (before \ {key}), OwnBit(k)
        PROVE  Bit(k) \in bits \ {Bit(key)}
    <3>0. k \in held \ before /\ k # key
      OBVIOUS
    <3>1. Bit(k) \in bits
      BY <2>3, <3>0 DEF Seen
    <3>2. Bit(key) # Bit(k)
      BY <2>3, <3>0, Zenon DEF OwnBit
    <3> QED BY <3>1, <3>2
  <2>4. Seen(bits \ {Bit(key)}, held \ {key}, before \ {key})
    BY <2>2, <2>3, Zenon DEF Seen
  <2> QED BY <1>1, <2>1, <2>4
<1>2. CASE key \notin held
  <2>1. PushKey(bits, key, key \notin held) = bits \cup {Bit(key)}
    BY <1>2 DEF PushKey
  <2>2. ASSUME NEW b \in bits \cup {Bit(key)}
        PROVE  b \in {Bit(k) : k \in held \cup {key}}
    <3>1. CASE b \in bits
      <4>1. PICK k \in held : b = Bit(k)
        BY <3>1 DEF Seen
      <4> QED BY <4>1
    <3>2. CASE b = Bit(key)
      BY <3>2
    <3> QED BY <3>1, <3>2
  <2>3. ASSUME NEW k \in (held \cup {key}) \ (before \ {key}), OwnBit(k)
        PROVE  Bit(k) \in bits \cup {Bit(key)}
    <3>1. k = key \/ k \in held \ before
      OBVIOUS
    <3> QED BY <2>3, <3>1 DEF Seen
  <2>4. Seen(bits \cup {Bit(key)}, held \cup {key}, before \ {key})
    BY <2>2, <2>3, Zenon DEF Seen
  <2> QED BY <1>2, <2>1, <2>4
<1> QED BY <1>1, <1>2

\* Every step of the device, the kernel, the input stage and the safety loop.
LEMMA InputStep ==
    ASSUME InputInv, InputNext
    PROVE  InputInv'
<1> SUFFICES ASSUME ~gap' PROVE InputInv'
  BY DEF InputInv
<1>e. ASSUME NEW e, Queue(e) PROVE ~gap /\ events' = Append(events, e)
  BY <1>e DEF Queue
<1>i. ASSUME ~gap
      PROVE  /\ InputTypes /\ Positioned(AxesAfter(events, axes), MovedAfter(events, moved), stick)
             /\ Seen(ButtonsAfter(events, buttons), pressed, unheard)
             /\ command = Apply(axes) /\ Newest(commands, command, refused)
  BY <1>i DEF InputInv
<1>1. ASSUME NEW code \in AbsCode, NEW value \in Positions(code), Move(code, value)
      PROVE  InputInv'
  <2> DEFINE e == [kind |-> "ABS", code |-> code, value |-> value]
  <2>0. value \in Int
    <3>1. AbsRange[code] \in Int \X Int
      BY InputAssumption
    <3>2. PICK lo \in Int, hi \in Int : lo = AbsRange[code][1] /\ hi = AbsRange[code][2]
      BY <3>1
    <3>3. value \in lo .. hi
      BY <3>2 DEF Positions
    <3> QED BY <3>3
  <2>1. e \in InputEvent /\ e.kind = "ABS" /\ e.code = code /\ e.value = value
    BY <2>0 DEF InputEvent
  <2>2. /\ stick' = [stick EXCEPT ![code] = value] /\ Queue(e)
        /\ pressed' = pressed /\ unheard' = unheard
        /\ axes' = axes /\ buttons' = buttons /\ moved' = moved
        /\ command' = command /\ commands' = commands /\ refused' = refused
    BY <1>1 DEF Move
  <2> HIDE DEF e
  <2>3. ~gap /\ events' = Append(events, e)
    BY <2>2, <1>e
  <2>4. /\ InputTypes /\ Positioned(AxesAfter(events, axes), MovedAfter(events, moved), stick)
        /\ Seen(ButtonsAfter(events, buttons), pressed, unheard)
        /\ command = Apply(axes) /\ Newest(commands, command, refused)
    BY <2>3, <1>i
  <2>5. /\ events \in Seq(InputEvent) /\ axes \in Axes /\ moved \in Writers /\ buttons \in Bits
        /\ stick \in [AbsCode -> Int] /\ pressed \subseteq Key
    BY <2>4 DEF InputTypes
  <2>6. PICK ax \in Axes, mv \in Writers : ax = AxesAfter(events, axes) /\ mv = MovedAfter(events, moved)
    BY <2>1, <2>5, AxesAfterAppend, MovedAfterAppend
  <2>7. /\ AxesAfter(events', axes') = PushAbs(ax, code, value)
        /\ MovedAfter(events', moved') = [mv EXCEPT ![SlotOf(code)] = code]
    BY <2>1, <2>2, <2>3, <2>5, <2>6, AxesAfterAppend, MovedAfterAppend
  <2>8. ButtonsAfter(events', buttons') = ButtonsAfter(events, buttons)
    <3>1. e.kind # "KEY"
      BY <2>1
    <3> QED BY <3>1, <2>1, <2>2, <2>3, <2>5, ButtonsAfterAppend
  <2>9. Positioned(AxesAfter(events', axes'), MovedAfter(events', moved'), stick')
    <3>1. Positioned(ax, mv, stick)
      BY <2>4, <2>6, Zenon
    <3>2. Positioned(PushAbs(ax, code, value), [mv EXCEPT ![SlotOf(code)] = code], [stick EXCEPT ![code] = value])
      BY <3>1, <2>0, <2>5, PositionedMove
    <3> QED BY <3>2, <2>2, <2>7, Zenon
  <2>10. InputTypes'
    <3>1. events' \in Seq(InputEvent)
      BY <2>1, <2>3, <2>5, AppendProperties
    <3>2. stick' \in [AbsCode -> Int]
      BY <2>0, <2>2, <2>5
    <3> QED BY <2>2, <2>5, <3>1, <3>2 DEF InputTypes
  <2> QED BY <2>2, <2>4, <2>8, <2>9, <2>10 DEF InputInv, Newest, Seen, Positioned
<1>2. ASSUME NEW key \in Key, Press(key)
      PROVE  InputInv'
  <2> DEFINE e == [kind |-> "KEY", code |-> key, value |-> key \notin pressed]
  <2>1. e \in InputEvent /\ e.kind = "KEY" /\ e.code = key /\ e.value = (key \notin pressed)
    <3>1. (key \notin pressed) \in BOOLEAN
      OBVIOUS
    <3> QED BY <3>1 DEF InputEvent
  <2>2. /\ pressed' = IF key \in pressed THEN pressed \ {key} ELSE pressed \cup {key}
        /\ unheard' = unheard \ {key}
        /\ Queue(e) /\ stick' = stick /\ axes' = axes /\ buttons' = buttons /\ moved' = moved
        /\ command' = command /\ commands' = commands /\ refused' = refused
    BY <1>2 DEF Press
  <2> HIDE DEF e
  <2>3. ~gap /\ events' = Append(events, e)
    BY <2>2, <1>e
  <2>4. /\ InputTypes /\ Positioned(AxesAfter(events, axes), MovedAfter(events, moved), stick)
        /\ Seen(ButtonsAfter(events, buttons), pressed, unheard)
        /\ command = Apply(axes) /\ Newest(commands, command, refused)
    BY <2>3, <1>i
  <2>5. /\ events \in Seq(InputEvent) /\ axes \in Axes /\ moved \in Writers /\ buttons \in Bits
        /\ stick \in [AbsCode -> Int] /\ pressed \subseteq Key
    BY <2>4 DEF InputTypes
  <2>6. e.kind # "ABS"
    BY <2>1
  <2>7. /\ AxesAfter(events', axes') = AxesAfter(events, axes)
        /\ MovedAfter(events', moved') = MovedAfter(events, moved)
    BY <2>1, <2>2, <2>3, <2>5, <2>6, AxesAfterAppend, MovedAfterAppend
  <2>8. ButtonsAfter(events', buttons') = PushKey(ButtonsAfter(events, buttons), key, key \notin pressed)
    BY <2>1, <2>2, <2>3, <2>5, ButtonsAfterAppend
  <2>9. Seen(ButtonsAfter(events', buttons'), pressed', unheard')
    <3>1. PICK bits : bits = ButtonsAfter(events, buttons)
      OBVIOUS
    <3>2. Seen(bits, pressed, unheard)
      BY <2>4, <3>1, Zenon
    <3>3. Seen(PushKey(bits, key, key \notin pressed),
               IF key \in pressed THEN pressed \ {key} ELSE pressed \cup {key}, unheard \ {key})
      BY <3>2, <2>5, SeenPress, Zenon
    <3> QED BY <3>1, <3>3, <2>2, <2>8, Zenon
  <2>10. InputTypes'
    <3>1. events' \in Seq(InputEvent)
      BY <2>1, <2>3, <2>5, AppendProperties
    <3>2. pressed' \subseteq Key
      BY <2>2, <2>5
    <3> QED BY <2>2, <2>5, <3>1, <3>2 DEF InputTypes
  <2> QED BY <2>2, <2>4, <2>7, <2>9, <2>10 DEF InputInv, Newest, Seen, Positioned
<1>3. CASE InputTick
  <2>1. /\ ~gap /\ gap' = gap /\ stick' = stick /\ pressed' = pressed /\ unheard' = unheard
        /\ events # << >>
        /\ events' = << >> /\ axes' = AxesAfter(events, axes) /\ moved' = MovedAfter(events, moved)
        /\ buttons' = ButtonsAfter(events, buttons)
    BY <1>3 DEF InputTick, Drain
  <2>2. /\ InputTypes /\ Positioned(AxesAfter(events, axes), MovedAfter(events, moved), stick)
        /\ Seen(ButtonsAfter(events, buttons), pressed, unheard)
        /\ command = Apply(axes) /\ Newest(commands, command, refused)
    BY <2>1, <1>i
  <2>3. /\ events \in Seq(InputEvent) /\ axes \in Axes /\ moved \in Writers /\ buttons \in Bits
        /\ stick \in [AbsCode -> Int] /\ pressed \subseteq Key
    BY <2>2 DEF InputTypes
  <2>4. axes' \in Axes /\ moved' \in Writers /\ buttons' \in Bits
    <3>1. PICK i \in 1 .. Len(events) : events[i] \in InputEvent
      <4>1. Len(events) > 0
        BY <2>1, <2>3
      <4> QED BY <4>1, <2>3
    <3> QED BY <3>1, <2>1, <2>3, AxesAfterAppend, MovedAfterAppend, ButtonsAfterAppend
  <2>5. ~(\A i \in 1 .. Len(events) : events[i].kind = "SYN_DROPPED")
    <3>1. Len(events) > 0
      BY <2>1, <2>3
    <3>2. 1 \in 1 .. Len(events) /\ events[1] \in InputEvent
      BY <3>1, <2>3
    <3>3. events[1].kind # "SYN_DROPPED"
      BY <3>2 DEF InputEvent
    <3> QED BY <3>2, <3>3
  <2>6. /\ command' = Apply(axes') /\ refused' = (Len(commands) = CommandCap)
        /\ commands' = IF Len(commands) < CommandCap THEN Append(commands, command') ELSE commands
    BY <1>3, <2>5 DEF InputTick
  <2>7. /\ AxesAfter(events', axes') = axes' /\ MovedAfter(events', moved') = moved'
        /\ ButtonsAfter(events', buttons') = buttons'
    BY <2>1, <2>4, AxesAfterEmpty, MovedAfterEmpty, ButtonsAfterEmpty
  <2>8. Newest(commands', command', refused')
    <3>1. commands \in Seq(MappedCommands) /\ Len(commands) <= CommandCap /\ CommandCap \in Nat
      BY <2>2, InputAssumption DEF Newest
    <3>2. command' \in MappedCommands
      BY <2>4, <2>6 DEF MappedCommands
    <3>3. CASE Len(commands) < CommandCap
      <4>1. commands' = Append(commands, command')
        BY <2>6, <3>3
      <4> QED BY <4>1, <3>1, <3>2, <3>3 DEF Newest
    <3>4. CASE ~(Len(commands) < CommandCap)
      <4>0. Len(commands) = CommandCap
        BY <3>1, <3>4
      <4>1. commands' = commands /\ refused'
        BY <2>6, <3>4, <4>0, Zenon
      <4> QED BY <4>1, <3>1 DEF Newest
    <3> QED BY <3>3, <3>4
  <2>9. InputTypes'
    <3>1. << >> \in Seq(InputEvent)
      OBVIOUS
    <3> QED BY <3>1, <2>1, <2>3, <2>4 DEF InputTypes
  <2>10. /\ Positioned(AxesAfter(events', axes'), MovedAfter(events', moved'), stick')
         /\ Seen(ButtonsAfter(events', buttons'), pressed', unheard')
    BY <2>1, <2>2, <2>7
  <2> QED BY <2>6, <2>8, <2>9, <2>10 DEF InputInv, Newest, Seen, Positioned
<1>4. CASE Reopen
  BY <1>4 DEF Reopen
<1>5. CASE TakeCommand
  <2>1. /\ ~gap /\ commands # << >> /\ commands' = Tail(commands)
        /\ stick' = stick /\ pressed' = pressed /\ unheard' = unheard /\ events' = events /\ axes' = axes
        /\ buttons' = buttons /\ moved' = moved /\ command' = command /\ refused' = refused
    BY <1>5 DEF TakeCommand
  <2>2. /\ InputTypes /\ Positioned(AxesAfter(events, axes), MovedAfter(events, moved), stick)
        /\ Seen(ButtonsAfter(events, buttons), pressed, unheard)
        /\ command = Apply(axes) /\ Newest(commands, command, refused)
    BY <2>1, <1>i
  <2>3. Newest(commands', command', refused')
    <3>1. commands \in Seq(MappedCommands) /\ Len(commands) <= CommandCap /\ CommandCap \in Nat
          /\ (Len(commands) > 0 /\ ~refused => commands[Len(commands)] = command)
      BY <2>2, InputAssumption DEF Newest
    <3>2. Len(commands) > 0
      BY <2>1, <3>1
    <3>3. /\ Tail(commands) \in Seq(MappedCommands) /\ Len(Tail(commands)) = Len(commands) - 1
          /\ \A i \in 1 .. Len(commands) - 1 : Tail(commands)[i] = commands[i + 1]
      BY <2>1, <3>1, <3>2
    <3>4. PICK n \in Nat : n = Len(commands) - 1 /\ n + 1 = Len(commands)
      BY <3>1, <3>2
    <3>5. n > 0 => Tail(commands)[n] = commands[Len(commands)]
      BY <3>3, <3>4
    <3>6. n <= CommandCap
      BY <3>1, <3>4
    <3> QED BY <2>1, <3>1, <3>2, <3>3, <3>4, <3>5, <3>6 DEF Newest
  <2>4. InputTypes'
    BY <2>1, <2>2 DEF InputTypes
  <2> QED BY <2>1, <2>2, <2>3, <2>4 DEF InputInv, Newest, Seen, Positioned
<1> QED BY <1>1, <1>2, <1>3, <1>4, <1>5 DEF InputNext

\* What the invariant says when every event was drained.
LEMMA InvGivesCommandFollowsStick ==
    ASSUME InputInv
    PROVE  CommandFollowsStick
<1> SUFFICES ASSUME events = << >>, ~gap
    PROVE  /\ \A code \in AbsCode : Own(code) =>
                CASE SlotOf(code) = "ROLL"     -> command.roll = Expected(code)
                  [] SlotOf(code) = "PITCH"    -> command.pitch = Expected(code)
                  [] SlotOf(code) = "YAW"      -> command.yaw = Expected(code)
                  [] SlotOf(code) = "THROTTLE" -> command.throttle = Expected(code)
                  [] OTHER                     -> TRUE
           /\ buttons \subseteq {Bit(key) : key \in pressed}
           /\ \A key \in pressed \ unheard : OwnBit(key) => Bit(key) \in buttons
           /\ (commands # << >> /\ ~refused) => commands[Len(commands)] = command
  BY DEF CommandFollowsStick
<1>1. /\ InputTypes /\ Positioned(AxesAfter(events, axes), MovedAfter(events, moved), stick)
      /\ Seen(ButtonsAfter(events, buttons), pressed, unheard)
      /\ command = Apply(axes) /\ Newest(commands, command, refused)
  BY DEF InputInv
<1>2. axes \in Axes /\ moved \in Writers /\ buttons \in Bits
  BY <1>1 DEF InputTypes
<1>3. Positioned(axes, moved, stick) /\ Seen(buttons, pressed, unheard)
  BY <1>1, <1>2, AxesAfterEmpty, MovedAfterEmpty, ButtonsAfterEmpty
<1>4. (commands # << >> /\ ~refused) => commands[Len(commands)] = command
  <2>1. commands \in Seq(MappedCommands) /\ (Len(commands) > 0 /\ ~refused => commands[Len(commands)] = command)
    BY <1>1 DEF Newest
  <2>2. commands # << >> => Len(commands) > 0
    BY <2>1
  <2> QED BY <2>1, <2>2
<1>5. ASSUME NEW code \in AbsCode, Own(code)
      PROVE  CASE SlotOf(code) = "ROLL"     -> command.roll = Expected(code)
               [] SlotOf(code) = "PITCH"    -> command.pitch = Expected(code)
               [] SlotOf(code) = "YAW"      -> command.yaw = Expected(code)
               [] SlotOf(code) = "THROTTLE" -> command.throttle = Expected(code)
               [] OTHER                     -> TRUE
  <2>1. "none" \notin AbsCode /\ code # "none"
    BY InputAssumption
  <2>2. CalCode(SlotOf(code)) = code /\ moved[SlotOf(code)] \in {code, "none"}
    BY <1>5 DEF Own
  <2>3. PICK v : v = IF moved[SlotOf(code)] = "none" THEN 0
                     ELSE Oriented(code, Norm(stick[code], AbsRange[code]))
    OBVIOUS
  <2>4. axes[SlotOf(code)] = v
    BY <1>3, <2>1, <2>2, <2>3, Zenon DEF Positioned
  <2>5. SlotOf(code) \in Slot /\ v \in -Unit .. Unit
    BY <2>4, <1>2, SlotOfType DEF Axes
  <2>6. Expected(code) = IF code = "THROTTLE" THEN v + Unit ELSE Dz(v)
    BY <2>3, Zenon DEF Expected, Reported
  <2>7. CASE SlotOf(code) = "ROLL"
    <3>1. code # "THROTTLE" /\ command.roll = Dz(v)
      BY <2>4, <2>7, <1>1 DEF Apply, SlotOf
    <3> QED BY <3>1, <2>4, <2>6, <2>7
  <2>8. CASE SlotOf(code) = "PITCH"
    <3>1. code # "THROTTLE" /\ command.pitch = Dz(v)
      BY <2>4, <2>8, <1>1 DEF Apply, SlotOf
    <3> QED BY <3>1, <2>4, <2>6, <2>8
  <2>9. CASE SlotOf(code) = "YAW"
    <3>1. code # "THROTTLE" /\ command.yaw = Dz(v)
      BY <2>4, <2>9, <1>1 DEF Apply, SlotOf
    <3> QED BY <3>1, <2>4, <2>6, <2>9
  <2>10. CASE SlotOf(code) = "THROTTLE"
    <3>1. code = "THROTTLE"
      BY <2>2, <2>10 DEF CalCode
    <3>2. command.throttle = ClampTo(v + Unit, 0, 2 * Unit)
      BY <2>4, <2>10, <1>1 DEF Apply
    <3>3. ClampTo(v + Unit, 0, 2 * Unit) = v + Unit
      BY <2>5, InputAssumption DEF ClampTo
    <3> QED BY <3>1, <3>2, <3>3, <2>4, <2>6, <2>10
  <2>11. CASE SlotOf(code) \notin {"ROLL", "PITCH", "YAW", "THROTTLE"}
    BY <2>4, <2>11
  <2> QED BY <2>7, <2>8, <2>9, <2>10, <2>11
<1> QED BY <1>3, <1>4, <1>5, Zenon DEF Seen

\* For any device, wherever its axes stand and whatever is held down at open,
\* any calibration, dead zone and queue lengths: once its events are drained,
\* and unless the kernel's queue overflowed or the device was reopened, the
\* last command has every axis that moved since open where the stick is and
\* the others centred, no bit is set without a button, and the command is the
\* newest in the ring unless a full ring refused it (EvdevAccumulator::push, ControllerMap::apply and
\* InputStage::tick of tpt-t-input).
THEOREM CommandFollowsStickAlways == InputSpec => []CommandFollowsStick
<1>1. InputInit => InputInv
  <2> SUFFICES ASSUME InputInit PROVE InputInv
    OBVIOUS
  <2>1. << >> \in Seq(InputEvent) /\ << >> \in Seq(MappedCommands) /\ Len(<< >>) = 0
    OBVIOUS
  <2>2. NoAxes \in Axes /\ Unmoved \in Writers /\ {} \in Bits
    BY InputAssumption DEF NoAxes, Axes, Unmoved, Writers, Bits
  <2>3. stick \in [AbsCode -> Int] /\ pressed \subseteq Key
    <3>1. ASSUME NEW code \in AbsCode PROVE Positions(code) \subseteq Int
      <4>1. AbsRange[code] \in Int \X Int
        BY InputAssumption
      <4>2. PICK lo \in Int, hi \in Int : lo = AbsRange[code][1] /\ hi = AbsRange[code][2]
        BY <4>1
      <4>3. lo .. hi \subseteq Int
        OBVIOUS
      <4> QED BY <4>2, <4>3 DEF Positions
    <3> QED BY <3>1 DEF InputInit
  <2>4. InputTypes
    BY <2>1, <2>2, <2>3 DEF InputInit, InputTypes
  <2>5. /\ AxesAfter(events, axes) = NoAxes /\ MovedAfter(events, moved) = Unmoved
        /\ ButtonsAfter(events, buttons) = {}
    BY <2>2, AxesAfterEmpty, MovedAfterEmpty, ButtonsAfterEmpty DEF InputInit
  <2>6. Positioned(NoAxes, Unmoved, stick)
    <3>1. "none" \notin AbsCode
      BY InputAssumption
    <3>2. ASSUME NEW code \in AbsCode
          PROVE  /\ Unmoved[SlotOf(code)] = "none" /\ code # "none"
                 /\ NoAxes[SlotOf(code)] = 0
      BY <3>1, SlotOfType DEF Unmoved, NoAxes
    <3> QED BY <3>2 DEF Positioned
  <2>7. Seen({}, pressed, unheard)
    BY DEF InputInit, Seen
  <2>8. Newest(commands, command, refused)
    BY <2>1, InputAssumption DEF InputInit, Newest
  <2>9. command = Apply(axes)
    BY DEF InputInit
  <2> QED BY <2>4, <2>5, <2>6, <2>7, <2>8, <2>9 DEF InputInv
<1>2. InputInv /\ [InputNext]_inputVars => InputInv'
  <2>1. InputInv /\ UNCHANGED inputVars => InputInv'
    BY DEF InputInv, InputTypes, Positioned, Seen, Newest, inputVars
  <2> QED BY <2>1, InputStep
<1> QED BY <1>1, <1>2, InvGivesCommandFollowsStick, PTL DEF InputSpec
=============================================================================
