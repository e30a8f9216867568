----------------------------- MODULE FleetProofs ----------------------------
(***************************************************************************)
(* Proofs about Fleet and FleetServer for any units, viewers, clients and  *)
(* limits, whatever fails: the commands replay the mode, the fan-out is    *)
(* exact, recordings read back, the server drives the fleet by the         *)
(* operations of the fleet only, mutations are gated, and connections are  *)
(* accounted for.                                                          *)
(***************************************************************************)
EXTENDS FleetServer, SequenceTheorems, FiniteSetTheorems, WellFoundedInduction, TLAPS

-----------------------------------------------------------------------------
(* The commands.                                                           *)

\* A command as it is sent to a unit, a frame as it is published, and what a
\* viewer has of a session.
Command == [mode : Mode, seq : Nat]
MFrame == [seq : FrameSeq, len : Nat]
ViewState == [held : BOOLEAN, ring : Seq(MFrame), got : Seq(MFrame), since : Nat, missed : Nat]

\* Units are unknown or have a session; their commands have a mode and a number.
FleetTypes ==
    /\ units \in [Unit -> Session \cup {Nobody}]
    /\ commanded \in [Unit -> Seq(Command)]

\* The mode a unit is in after the first i of the commands s.
ModeAfter(s, i) == IF i = 0 THEN "Assist" ELSE s[i].mode

\* The commands s are numbered and legal, and end in mode m.
Replays(s, m) ==
    /\ \A i \in 1 .. Len(s) :
          /\ s[i].seq = i - 1
          /\ Allows(ModeAfter(s, i - 1), s[i].mode)
    /\ m = ModeAfter(s, Len(s))

\* A unit with a session was sent what its counter says; another, nothing.
SessionReplays(u) ==
    IF Known(u) THEN units[u].cmdSeq = Len(commanded[u]) /\ Replays(commanded[u], units[u].mode)
    ELSE commanded[u] = << >>

\* The inductive invariant for CommandsReplayMode.
CommandInv ==
    /\ FleetTypes
    /\ \A u \in Unit : SessionReplays(u)

\* path_to (fleet.rs) has at most two segments, each of which the table of
\* mode.rs allows after the one before, and ends in the mode that was asked for.
LEMMA PathLegal ==
    ASSUME NEW f \in Mode, NEW t \in Mode, PathExists(f, t)
    PROVE  /\ PathVia(f, t) \in Seq(Mode)
           /\ Len(PathVia(f, t)) \in {0, 1, 2}
           /\ \A i \in 1 .. Len(PathVia(f, t)) :
                 Allows(IF i = 1 THEN f ELSE PathVia(f, t)[i - 1], PathVia(f, t)[i])
<1>1. CASE f = t
  BY <1>1 DEF PathVia
<1>2. CASE f # t /\ Allows(f, t)
  <2>1. PathVia(f, t) = <<t>>
    BY <1>2 DEF PathVia
  <2> QED BY <2>1, <1>2
<1>3. CASE f # t /\ ~Allows(f, t)
  <2>1. PathVia(f, t) = <<"Assist", t>> /\ "Assist" \in Mode
    BY <1>3 DEF PathVia, Mode
  <2>2. Allows(f, "Assist") /\ Allows("Assist", t)
    BY <1>3 DEF PathExists
  <2>3. PathVia(f, t) \in Seq(Mode) /\ Len(PathVia(f, t)) = 2
        /\ PathVia(f, t)[1] = "Assist" /\ PathVia(f, t)[2] = t
    BY <2>1
  <2> QED BY <2>2, <2>3
<1> QED BY <1>1, <1>2, <1>3

\* Sending any first part of a path goes on with a legal replay: this is what
\* set_mode leaves behind when the transport fails between two segments.
LEMMA ReplaysOn ==
    ASSUME NEW s \in Seq(Command), NEW m \in Mode, NEW t \in Mode, Replays(s, m), PathExists(m, t),
           NEW k \in 0 .. Len(PathVia(m, t))
    PROVE  LET path == PathVia(m, t)
               more == s \o [i \in 1 .. k |-> Segment(path, Len(s), i)]
               end == IF k = 0 THEN m ELSE path[k]
           IN  more \in Seq(Command) /\ end \in Mode /\ Len(more) = Len(s) + k /\ Replays(more, end)
<1> DEFINE path == PathVia(m, t)
           app == [i \in 1 .. k |-> Segment(path, Len(s), i)]
           more == s \o app
           end == IF k = 0 THEN m ELSE path[k]
<1>1. /\ path \in Seq(Mode) /\ Len(path) \in {0, 1, 2}
      /\ \A i \in 1 .. Len(path) : Allows(IF i = 1 THEN m ELSE path[i - 1], path[i])
  BY PathLegal
<1> HIDE DEF path
<1>k. k \in Nat /\ k <= Len(path) /\ Len(s) \in Nat
  BY <1>1 DEF path
<1>2. \A i \in 1 .. k : path[i] \in Mode
  BY <1>1, <1>k
<1>3. app \in Seq(Command) /\ Len(app) = k
  <2>1. \A i \in 1 .. k : app[i] \in Command
    BY <1>2, <1>k DEF Segment, Command
  <2>2. app \in [1 .. k -> Command]
    BY <2>1
  <2> HIDE DEF app
  <2> QED BY <2>2, <1>k
<1>4. \A i \in 1 .. k : app[i].mode = path[i] /\ app[i].seq = Len(s) + i - 1
  BY DEF Segment
<1> HIDE DEF app
<1>5. /\ more \in Seq(Command) /\ Len(more) = Len(s) + k
      /\ \A i \in 1 .. Len(s) + k : more[i] = IF i <= Len(s) THEN s[i] ELSE app[i - Len(s)]
  BY <1>3, <1>k
<1> HIDE DEF more
<1>6. end \in Mode
  BY <1>2, <1>k
<1>7. m = ModeAfter(s, Len(s))
  BY DEF Replays
<1>8. \A i \in 0 .. Len(s) : ModeAfter(more, i) = ModeAfter(s, i)
  BY <1>5, <1>k DEF ModeAfter
<1>9. ASSUME NEW i \in 1 .. k
      PROVE  ModeAfter(more, Len(s) + i) = path[i]
  <2>1. /\ Len(s) + i \in 1 .. Len(s) + k /\ ~(Len(s) + i <= Len(s)) /\ Len(s) + i # 0
        /\ (Len(s) + i) - Len(s) = i
    BY <1>k
  <2>2. more[Len(s) + i] = app[i]
    BY <1>5, <2>1, Zenon
  <2> QED BY <2>1, <2>2, <1>4 DEF ModeAfter
<1>10. ASSUME NEW i \in 1 .. Len(more)
       PROVE  more[i].seq = i - 1 /\ Allows(ModeAfter(more, i - 1), more[i].mode)
  <2>1. CASE i <= Len(s)
    <3>1. i \in 1 .. Len(s) /\ i - 1 \in 0 .. Len(s) /\ more[i] = s[i]
      BY <2>1, <1>5, <1>k
    <3>2. s[i].seq = i - 1 /\ Allows(ModeAfter(s, i - 1), s[i].mode)
      BY <3>1 DEF Replays
    <3> QED BY <3>1, <3>2, <1>8
  <2>2. CASE i = Len(s) + 1
    <3>1. 1 \in 1 .. k /\ more[i] = app[1] /\ i - 1 = Len(s) /\ Len(s) \in 0 .. Len(s) /\ 1 \in 1 .. Len(path)
      BY <2>2, <1>5, <1>k
    <3>2. ModeAfter(more, i - 1) = m
      BY <3>1, <1>7, <1>8
    <3>3. Allows(m, path[1])
      BY <3>1, <1>1
    <3>4. app[1].mode = path[1] /\ app[1].seq = Len(s) + 1 - 1
      BY <3>1, <1>4
    <3> QED BY <3>1, <3>2, <3>3, <3>4, <1>k, <2>2
  <2>3. CASE i > Len(s) + 1
    <3>1. /\ i = Len(s) + 2 /\ 2 \in 1 .. k /\ 1 \in 1 .. k /\ 2 \in 1 .. Len(path)
          /\ more[i] = app[2] /\ i - 1 = Len(s) + 1
      BY <2>3, <1>5, <1>k, <1>1
    <3>2. ModeAfter(more, i - 1) = path[1]
      BY <3>1, <1>9
    <3>3. Allows(path[1], path[2])
      BY <3>1, <1>1
    <3>4. app[2].mode = path[2] /\ app[2].seq = Len(s) + 2 - 1
      BY <3>1, <1>4
    <3> QED BY <3>1, <3>2, <3>3, <3>4, <1>k
  <2> QED BY <2>1, <2>2, <2>3, <1>5, <1>k
<1>11. end = ModeAfter(more, Len(more))
  <2>1. CASE k = 0
    BY <2>1, <1>5, <1>7, <1>8, <1>k
  <2>2. CASE k # 0
    <3>1. k \in 1 .. k
      BY <2>2, <1>k
    <3> QED BY <3>1, <2>2, <1>9, <1>5, <1>k
  <2> QED BY <2>1, <2>2
<1>12. Replays(more, end)
  BY <1>10, <1>11 DEF Replays
<1> QED BY <1>5, <1>6, <1>12 DEF path, more, app

\* What provision enters is a session.
LEMMA NewSession ==
    ASSUME NEW rec \in RecorderKind
    PROVE  NewUnit(rec) \in Session
BY FleetAssumption DEF NewUnit, Session, Mode

\* A session whose mode and counter were set, and one that gained a viewer:
\* what each leaves as it was.
LEMMA SessionMoves ==
    ASSUME NEW s \in Session, NEW m \in Mode, NEW n \in Nat
    PROVE  LET r == [s EXCEPT !.cmdSeq = n, !.mode = m]
           IN  r \in Session /\ r.mode = m /\ r.cmdSeq = n /\ r.subs = s.subs /\ r.next = s.next
BY DEF Session

\* A session that gained a viewer.
LEMMA SessionGains ==
    ASSUME NEW s \in Session, s.next \in Viewer
    PROVE  LET r == [s EXCEPT !.subs = @ \cup {s.next}, !.next = @ + 1]
           IN  /\ r \in Session /\ r.mode = s.mode /\ r.cmdSeq = s.cmdSeq
               /\ r.subs = s.subs \cup {s.next} /\ r.next = s.next + 1
<1>1. s.next \in Nat \ {0} /\ s.next + 1 \in Nat \ {0} /\ s.subs \in SUBSET Viewer
  BY DEF Session
<1>2. s.subs \cup {s.next} \in SUBSET Viewer
  BY <1>1
<1>3. ASSUME NEW n \in Nat \ {0}, NEW t \in SUBSET Viewer
      PROVE  LET r == [s EXCEPT !.subs = t, !.next = n]
             IN  /\ r \in Session /\ r.mode = s.mode /\ r.cmdSeq = s.cmdSeq
                 /\ r.subs = t /\ r.next = n
  BY DEF Session
<1> QED BY <1>1, <1>2, <1>3

\* No operation of the fleet, and no restart, breaks the replay.
LEMMA FleetStep ==
    ASSUME CommandInv, FleetNext
    PROVE  CommandInv'
<1> USE DEF CommandInv, FleetTypes
<1>1. CASE Restart
  <2>1. FleetTypes' /\ \A u \in Unit : units'[u] = Nobody /\ commanded'[u] = << >>
    BY <1>1 DEF Restart
  <2> QED BY <2>1 DEF SessionReplays, Known
<1>2. ASSUME NEW u \in Unit, NEW rec \in RecorderKind, RegisterUnit(u, rec) PROVE CommandInv'
  <2>1. NewUnit(rec) \in Session /\ NewUnit(rec).mode = "Assist" /\ NewUnit(rec).cmdSeq = 0
    BY NewSession DEF NewUnit
  <2>2. units' = [units EXCEPT ![u] = NewUnit(rec)] /\ commanded' = commanded /\ commanded[u] = << >>
    BY <1>2 DEF RegisterUnit, SessionReplays
  <2>3. FleetTypes'
    BY <2>1, <2>2
  <2>4. Replays(<< >>, "Assist") /\ Len(<< >>) = 0
    BY DEF Replays, ModeAfter
  <2>5. ASSUME NEW w \in Unit PROVE SessionReplays(w)'
    <3>1. CASE w = u
      BY <3>1, <2>1, <2>2, <2>4, SessionAssumption DEF SessionReplays, Known
    <3>2. CASE w # u
      BY <3>2, <2>2 DEF SessionReplays, Known
    <3> QED BY <3>1, <3>2
  <2> QED BY <2>3, <2>5
<1>3. ASSUME NEW u \in Unit, NEW op \in FleetOperator, Assign(u, op) PROVE CommandInv'
  <2>1. /\ units' = [units EXCEPT ![u] = [units[u] EXCEPT !.operator = op]]
        /\ commanded' = commanded /\ units[u] \in Session
    BY <1>3 DEF Assign, Known
  <2>2. /\ units'[u] \in Session /\ units'[u].mode = units[u].mode /\ units'[u].cmdSeq = units[u].cmdSeq
        /\ \A w \in Unit : w # u => units'[w] = units[w]
    BY <2>1 DEF Session
  <2>3. FleetTypes'
    BY <2>1, <2>2
  <2>4. ASSUME NEW w \in Unit PROVE SessionReplays(w)'
    BY <2>1, <2>2, SessionAssumption DEF SessionReplays, Known
  <2> QED BY <2>3, <2>4
<1>4. ASSUME NEW u \in Unit, NEW t \in Mode, SetMode(u, t) PROVE CommandInv'
  <2>1. units[u] \in Session /\ units[u].mode \in Mode /\ units[u].cmdSeq \in Nat /\ PathExists(units[u].mode, t)
        /\ units[u].cmdSeq = Len(commanded[u]) /\ Replays(commanded[u], units[u].mode) /\ commanded[u] \in Seq(Command)
    BY <1>4 DEF SetMode, Known, SessionReplays, Session
  <2> DEFINE path == PathVia(units[u].mode, t)
  <2>2. PICK k \in 0 .. Len(path) :
           /\ commanded' = [commanded EXCEPT ![u] = @ \o [i \in 1 .. k |-> Segment(path, units[u].cmdSeq, i)]]
           /\ units' = [units EXCEPT ![u].cmdSeq = units[u].cmdSeq + k,
                                     ![u].mode = IF k = 0 THEN @ ELSE path[k]]
    BY <1>4 DEF SetMode, SendOutcome
  <2> DEFINE more == commanded[u] \o [i \in 1 .. k |-> Segment(path, Len(commanded[u]), i)]
             end == IF k = 0 THEN units[u].mode ELSE path[k]
  <2>3. more \in Seq(Command) /\ end \in Mode /\ Len(more) = Len(commanded[u]) + k /\ Replays(more, end)
    BY <2>1, ReplaysOn
  <2>4. commanded' = [commanded EXCEPT ![u] = more]
    BY <2>1, <2>2
  <2>5. units'[u] = [units[u] EXCEPT !.cmdSeq = units[u].cmdSeq + k, !.mode = end]
        /\ \A w \in Unit : w # u => units'[w] = units[w]
    BY <2>1, <2>2
  <2>k. k \in Nat /\ Len(commanded[u]) \in Nat /\ units' \in [Unit -> {units'[w] : w \in Unit}]
    BY <2>1, <2>2
  <2> HIDE DEF path, more, end
  <2>6. units'[u] \in Session /\ units'[u].mode = end /\ units'[u].cmdSeq = units[u].cmdSeq + k
    <3>1. units[u].cmdSeq + k \in Nat
      BY <2>1, <2>k
    <3>2. PICK n \in Nat : n = units[u].cmdSeq + k
      BY <3>1
    <3>3. PICK s \in Session : s = units[u]
      BY <2>1
    <3>e. PICK e \in Mode : e = end
      BY <2>3
    <3>4. units'[u] = [s EXCEPT !.cmdSeq = n, !.mode = e]
      BY <2>5, <3>2, <3>3, <3>e
    <3>5. PICK r : r = [s EXCEPT !.cmdSeq = n, !.mode = e]
      OBVIOUS
    <3>6. r \in Session /\ r.mode = e /\ r.cmdSeq = n
      BY <3>5 DEF Session
    <3> QED BY <3>2, <3>4, <3>5, <3>6, <3>e
  <2>7. FleetTypes'
    BY <2>3, <2>4, <2>5, <2>6, <2>k
  <2>8. ASSUME NEW w \in Unit PROVE SessionReplays(w)'
    <3>1. CASE w = u
      BY <3>1, <2>1, <2>3, <2>4, <2>6, SessionAssumption DEF SessionReplays, Known
    <3>2. CASE w # u
      BY <3>2, <2>4, <2>5 DEF SessionReplays, Known
    <3> QED BY <3>1, <3>2
  <2> QED BY <2>7, <2>8
\* a step that keeps commanded and, of a session, its mode and counter
<1>5. ASSUME commanded' = commanded, units' \in [Unit -> Session \cup {Nobody}],
             \A u \in Unit : \/ units'[u] = units[u]
                             \/ /\ Known(u) /\ units'[u] \in Session
                                /\ units'[u].mode = units[u].mode /\ units'[u].cmdSeq = units[u].cmdSeq
                             \/ /\ ~Known(u) /\ units'[u] \in Session
                                /\ units'[u].mode = "Assist" /\ units'[u].cmdSeq = 0
      PROVE  CommandInv'
  <2>1. FleetTypes'
    BY <1>5
  <2>2. Replays(<< >>, "Assist") /\ Len(<< >>) = 0
    BY DEF Replays, ModeAfter
  <2>3. ASSUME NEW u \in Unit PROVE SessionReplays(u)'
    BY <1>5, <2>2, SessionAssumption DEF SessionReplays, Known
  <2> QED BY <2>1, <2>3
<1>6. ASSUME NEW u \in Unit, NEW f \in UnitFrame, Ingest(u, f) PROVE CommandInv'
  <2>1. PICK rec \in RecorderKind :
           /\ units' = [units EXCEPT ![u] = [Provisioned(u, rec) EXCEPT
                           !.frames = @ + 1, !.subs = {v \in @ : views[u][v].held}]]
           /\ commanded' = commanded
    BY <1>6 DEF Ingest
  <2>2. Provisioned(u, rec) \in Session
    BY NewSession DEF Provisioned, Known
  <2>3. /\ units'[u] \in Session /\ units'[u].mode = Provisioned(u, rec).mode
        /\ units'[u].cmdSeq = Provisioned(u, rec).cmdSeq
    <3> DEFINE gone == {v \in Viewer : ~views[u][v].held}
    <3>1. {v \in Provisioned(u, rec).subs : views[u][v].held} = {v \in Provisioned(u, rec).subs : v \notin gone}
      BY <2>2 DEF Session
    <3>2. units'[u] = [Provisioned(u, rec) EXCEPT !.frames = @ + 1,
                          !.subs = {v \in Provisioned(u, rec).subs : v \notin gone}]
      BY <2>1, <3>1
    <3>3. PICK s \in Session : s = Provisioned(u, rec)
      BY <2>2
    <3>4. PICK g : g = gone
      OBVIOUS
    <3>5. units'[u] = [s EXCEPT !.frames = @ + 1, !.subs = {v \in @ : v \notin g}]
      BY <3>2, <3>3, <3>4
    <3>6. PICK r : r = [s EXCEPT !.frames = @ + 1, !.subs = {v \in @ : v \notin g}]
      OBVIOUS
    <3>7. r \in Session /\ r.mode = s.mode /\ r.cmdSeq = s.cmdSeq
      <4>1. PICK n, T : n = s.frames + 1 /\ T = {v \in s.subs : v \notin g}
        OBVIOUS
      <4>2. n \in Nat /\ T \subseteq Viewer
        BY <4>1 DEF Session
      <4>3. r = [s EXCEPT !.frames = n, !.subs = T]
        BY <3>6, <4>1
      <4> QED BY <4>2, <4>3 DEF Session
    <3> QED BY <3>3, <3>5, <3>6, <3>7
  <2>4. ~Known(u) => Provisioned(u, rec).mode = "Assist" /\ Provisioned(u, rec).cmdSeq = 0
    BY DEF Provisioned, NewUnit
  <2>5. Known(u) => Provisioned(u, rec) = units[u]
    BY DEF Provisioned
  <2>6. units' \in [Unit -> Session \cup {Nobody}] /\ \A w \in Unit : w # u => units'[w] = units[w]
    BY <2>1, <2>3
  <2> QED BY <2>1, <2>3, <2>4, <2>5, <2>6, <1>5
<1>7. ASSUME NEW u \in Unit, NEW f \in UnitFrame, IngestFails(u, f) PROVE CommandInv'
  <2>1. units' = [units EXCEPT ![u] = Provisioned(u, "file")] /\ commanded' = commanded
    BY <1>7 DEF IngestFails
  <2>2. Provisioned(u, "file") \in Session
    BY NewSession DEF Provisioned, Known, RecorderKind
  <2>4. ~Known(u) => Provisioned(u, "file").mode = "Assist" /\ Provisioned(u, "file").cmdSeq = 0
    BY DEF Provisioned, NewUnit
  <2>5. Known(u) => Provisioned(u, "file") = units[u]
    BY DEF Provisioned
  <2>6. /\ units' \in [Unit -> Session \cup {Nobody}] /\ units'[u] = Provisioned(u, "file")
        /\ \A w \in Unit : w # u => units'[w] = units[w]
    BY <2>1, <2>2
  <2> QED BY <2>1, <2>2, <2>4, <2>5, <2>6, <1>5
<1>8. ASSUME NEW u \in Unit, AttachSubscriber(u) PROVE CommandInv'
  <2>1. /\ units[u] \in Session /\ Known(u) /\ commanded' = commanded /\ units[u].next \in Viewer
        /\ units' = [units EXCEPT ![u] = [units[u] EXCEPT !.subs = @ \cup {units[u].next}, !.next = @ + 1]]
    BY <1>8 DEF AttachSubscriber, Known
  <2>2. /\ units'[u] \in Session /\ units'[u].mode = units[u].mode /\ units'[u].cmdSeq = units[u].cmdSeq
    BY <2>1, SessionGains
  <2>3. units' \in [Unit -> Session \cup {Nobody}] /\ \A w \in Unit : w # u => units'[w] = units[w]
    BY <2>1, <2>2
  <2> QED BY <2>1, <2>2, <2>3, <1>5
<1>9. ASSUME NEW u \in Unit, NEW v \in Viewer, Unsubscribe(u, v) PROVE CommandInv'
  <2>1. /\ units[u] \in Session /\ Known(u) /\ commanded' = commanded
        /\ units' = [units EXCEPT ![u] = [units[u] EXCEPT !.subs = @ \ {v}]]
    BY <1>9 DEF Unsubscribe, Known
  <2>2. /\ units'[u] \in Session /\ units'[u].mode = units[u].mode /\ units'[u].cmdSeq = units[u].cmdSeq
    BY <2>1 DEF Session
  <2>3. units' \in [Unit -> Session \cup {Nobody}] /\ \A w \in Unit : w # u => units'[w] = units[w]
    BY <2>1, <2>2
  <2> QED BY <2>1, <2>2, <2>3, <1>5
<1>10. ASSUME NEW u \in Unit, NEW v \in Viewer, LetGo(u, v) \/ View(u, v) PROVE CommandInv'
  BY <1>10, <1>5 DEF LetGo, View
<1>11. ASSUME NEW u \in Unit, CreateFails(u) PROVE CommandInv'
  BY <1>11 DEF CreateFails, SessionReplays, Known
<1> QED BY <1>1, <1>2, <1>3, <1>4, <1>6, <1>7, <1>8, <1>9, <1>10, <1>11 DEF FleetNext

\* For any units, viewers, recorders and transport failures: the commands a
\* unit was sent since it was provisioned are numbered without a gap, each is
\* allowed after the one before, and the last is the mode the fleet shows, also
\* when the second segment of a path was not sent (set_mode, fleet.rs).
THEOREM CommandsReplayModeAlways == FleetSpec => []CommandsReplayMode
<1>1. FleetInit => CommandInv
  <2> SUFFICES ASSUME FleetInit PROVE CommandInv
    OBVIOUS
  <2>1. FleetTypes
    BY DEF FleetInit, FleetTypes
  <2> QED BY <2>1 DEF FleetInit, CommandInv, SessionReplays, Known
<1>2. CommandInv /\ [FleetNext]_fleetVars => CommandInv'
  <2>1. CommandInv /\ UNCHANGED fleetVars => CommandInv'
    BY DEF CommandInv, FleetTypes, SessionReplays, Known, fleetVars
  <2> QED BY <2>1, FleetStep
<1>3. CommandInv => CommandsReplayMode
  <2> SUFFICES ASSUME CommandInv, NEW u \in Unit, Known(u)
      PROVE  LET modeAfter(i) == IF i = 0 THEN "Assist" ELSE commanded[u][i].mode IN
             /\ \A i \in DOMAIN commanded[u] :
                   /\ commanded[u][i].seq = i - 1
                   /\ Allows(modeAfter(i - 1), commanded[u][i].mode)
             /\ units[u].mode = modeAfter(Len(commanded[u]))
    BY DEF CommandsReplayMode
  <2>1. commanded[u] \in Seq(Command) /\ Replays(commanded[u], units[u].mode)
    BY DEF CommandInv, FleetTypes, SessionReplays
  <2>2. DOMAIN commanded[u] = 1 .. Len(commanded[u])
    BY <2>1
  <2> QED BY <2>1, <2>2 DEF Replays, ModeAfter
<1> QED BY <1>1, <1>2, <1>3, PTL DEF FleetSpec

-----------------------------------------------------------------------------
(* The fan-out of frames.                                                  *)

\* What a viewer that holds its ring has of the frames p of the session.
Fan(w, p) ==
    /\ w.since <= Len(p)
    /\ w.held => LET seen == w.got \o w.ring
                     offered == SubSeq(p, w.since + 1, Len(p))
                 IN  /\ Len(seen) + w.missed = Len(offered)
                     /\ IsSubsequence(seen, offered)

\* Viewers have rings of frames, and the frames of a session are a sequence.
ViewTypes ==
    /\ views \in [Unit -> [Viewer -> ViewState]]
    /\ published \in [Unit -> Seq(MFrame)]

\* Every subscriber has an identifier handed out before, and its frames.
Fanned(u) ==
    Known(u) => \A v \in units[u].subs : v < units[u].next /\ Fan(views[u][v], published[u])

\* The inductive invariant for FanOutExact.
FanInv ==
    /\ CommandInv
    /\ ViewTypes
    /\ \A u \in Unit : Fanned(u)

\* A frame that is not offered to a viewer, and one that is.
LEMMA SubsequenceSkips ==
    ASSUME NEW S, NEW s \in Seq(S), NEW p \in Seq(S), NEW x \in S, IsSubsequence(s, p)
    PROVE  IsSubsequence(s, Append(p, x))
<1>1. PICK at \in [DOMAIN s -> DOMAIN p] :
         /\ \A i, j \in DOMAIN s : i < j => at[i] < at[j]
         /\ \A i \in DOMAIN s : s[i] = p[at[i]]
  BY DEF IsSubsequence
<1>2. DOMAIN p = 1 .. Len(p) /\ DOMAIN Append(p, x) = 1 .. Len(p) + 1 /\ Len(p) \in Nat
  OBVIOUS
<1>3. \A k \in DOMAIN p : k \in DOMAIN Append(p, x) /\ Append(p, x)[k] = p[k]
  BY <1>2
<1>4. at \in [DOMAIN s -> DOMAIN Append(p, x)]
  BY <1>1, <1>3
<1>5. \A i \in DOMAIN s : s[i] = Append(p, x)[at[i]]
  BY <1>1, <1>3
<1> QED BY <1>1, <1>4, <1>5 DEF IsSubsequence

\* A frame that is put into the ring of a viewer.
LEMMA SubsequenceGrows ==
    ASSUME NEW S, NEW s \in Seq(S), NEW p \in Seq(S), NEW x \in S, IsSubsequence(s, p)
    PROVE  IsSubsequence(Append(s, x), Append(p, x))
<1>1. PICK at \in [DOMAIN s -> DOMAIN p] :
         /\ \A i, j \in DOMAIN s : i < j => at[i] < at[j]
         /\ \A i \in DOMAIN s : s[i] = p[at[i]]
  BY DEF IsSubsequence
<1>2. /\ DOMAIN p = 1 .. Len(p) /\ DOMAIN Append(p, x) = 1 .. Len(p) + 1 /\ Len(p) \in Nat
      /\ DOMAIN s = 1 .. Len(s) /\ DOMAIN Append(s, x) = 1 .. Len(s) + 1 /\ Len(s) \in Nat
  OBVIOUS
<1>3. /\ \A k \in DOMAIN p : k \in DOMAIN Append(p, x) /\ Append(p, x)[k] = p[k]
      /\ \A k \in DOMAIN s : Append(s, x)[k] = s[k]
      /\ Append(p, x)[Len(p) + 1] = x /\ Append(s, x)[Len(s) + 1] = x
  BY <1>2
<1> DEFINE on == [i \in DOMAIN Append(s, x) |-> IF i = Len(s) + 1 THEN Len(p) + 1 ELSE at[i]]
<1>4. \A i \in DOMAIN Append(s, x) : i = Len(s) + 1 \/ (i \in DOMAIN s /\ i # Len(s) + 1)
  BY <1>2
<1>5. \A i \in DOMAIN s : at[i] \in 1 .. Len(p) /\ at[i] < Len(p) + 1 /\ i < Len(s) + 1
  BY <1>1, <1>2
<1>6. on \in [DOMAIN Append(s, x) -> DOMAIN Append(p, x)]
  BY <1>2, <1>4, <1>5
<1>7. ASSUME NEW i \in DOMAIN Append(s, x), NEW j \in DOMAIN Append(s, x), i < j
      PROVE  on[i] < on[j]
  <2>1. i \in DOMAIN s /\ on[i] = at[i]
    BY <1>7, <1>2
  <2>2. CASE j = Len(s) + 1
    BY <2>1, <2>2, <1>5
  <2>3. CASE j \in DOMAIN s /\ j # Len(s) + 1
    BY <2>1, <2>3, <1>1, <1>7
  <2> QED BY <2>2, <2>3, <1>4
<1>8. ASSUME NEW i \in DOMAIN Append(s, x)
      PROVE  Append(s, x)[i] = Append(p, x)[on[i]]
  <2>1. CASE i = Len(s) + 1
    BY <2>1, <1>3
  <2>2. CASE i \in DOMAIN s /\ i # Len(s) + 1
    <3>1. on[i] = at[i] /\ at[i] \in DOMAIN p
      BY <2>2, <1>1
    <3> QED BY <3>1, <2>2, <1>1, <1>3
  <2> QED BY <2>1, <2>2, <1>4
<1> HIDE DEF on
<1> QED BY <1>6, <1>7, <1>8 DEF IsSubsequence

\* Appending behind a concatenation.
LEMMA ConcatAppend ==
    ASSUME NEW S, NEW a \in Seq(S), NEW b \in Seq(S), NEW x \in S
    PROVE  a \o Append(b, x) = Append(a \o b, x)
<1>1. <<x>> \in Seq(S) /\ a \o b \in Seq(S)
  OBVIOUS
<1>2. Append(b, x) = b \o <<x>> /\ Append(a \o b, x) = (a \o b) \o <<x>>
  BY <1>1, AppendIsConcat
<1>3. (a \o b) \o <<x>> = a \o (b \o <<x>>)
  BY <1>1, ConcatAssociative
<1> QED BY <1>2, <1>3

\* Moving the head of the ring to what was read keeps the two together.
LEMMA HeadMoves ==
    ASSUME NEW S, NEW a \in Seq(S), NEW b \in Seq(S), b # << >>
    PROVE  Append(a, Head(b)) \o Tail(b) = a \o b
<1>1. Head(b) \in S /\ Tail(b) \in Seq(S) /\ b = <<Head(b)>> \o Tail(b) /\ <<Head(b)>> \in Seq(S)
  OBVIOUS
<1>2. Append(a, Head(b)) = a \o <<Head(b)>>
  BY <1>1, AppendIsConcat
<1>3. (a \o <<Head(b)>>) \o Tail(b) = a \o (<<Head(b)>> \o Tail(b))
  BY <1>1, ConcatAssociative
<1> QED BY <1>1, <1>2, <1>3

\* A published frame is one more offered to whoever subscribed before.
LEMMA OfferedGrows ==
    ASSUME NEW p \in Seq(MFrame), NEW x \in MFrame, NEW k \in Nat, k <= Len(p)
    PROVE  /\ SubSeq(p, k + 1, Len(p)) \in Seq(MFrame)
           /\ SubSeq(Append(p, x), k + 1, Len(p) + 1) = Append(SubSeq(p, k + 1, Len(p)), x)
           /\ Len(SubSeq(p, k + 1, Len(p))) = Len(p) - k
<1>1. Len(p) \in Nat /\ Len(Append(p, x)) = Len(p) + 1 /\ Append(p, x) \in Seq(MFrame)
      /\ \A i \in 1 .. Len(p) + 1 : Append(p, x)[i] = IF i = Len(p) + 1 THEN x ELSE p[i]
  OBVIOUS
<1> DEFINE a == SubSeq(p, k + 1, Len(p))
           b == SubSeq(Append(p, x), k + 1, Len(p) + 1)
<1>2. a \in Seq(MFrame) /\ Len(a) = Len(p) - k /\ \A i \in 1 .. Len(p) - k : a[i] = p[k + i]
  BY <1>1
<1>3. /\ b \in Seq(MFrame) /\ Len(b) = Len(p) + 1 - k
      /\ \A i \in 1 .. Len(p) + 1 - k : b[i] = Append(p, x)[k + i]
  BY <1>1
<1> HIDE DEF a, b
<1>4. Len(Append(a, x)) = Len(p) + 1 - k /\ Append(a, x) \in Seq(MFrame)
  BY <1>1, <1>2
<1>5. ASSUME NEW i \in 1 .. Len(p) + 1 - k PROVE b[i] = Append(a, x)[i]
  <2>a. k + i \in 1 .. Len(p) + 1 /\ Len(a) = Len(p) - k
    BY <1>1, <1>2
  <2>b. b[i] = Append(p, x)[k + i]
    BY <1>3, Zenon
  <2>0. k + i \in 1 .. Len(p) + 1 /\ b[i] = Append(p, x)[k + i] /\ Len(a) = Len(p) - k
    BY <2>a, <2>b
  <2>1. CASE i = Len(p) + 1 - k
    <3>1. k + i = Len(p) + 1 /\ i = Len(a) + 1
      BY <2>0, <2>1, <1>1
    <3>2. Append(a, x)[Len(a) + 1] = x
      BY <1>2
    <3> QED BY <3>1, <3>2, <2>0, <1>1
  <2>2. CASE i # Len(p) + 1 - k
    <3>1. k + i # Len(p) + 1 /\ i \in 1 .. Len(a) /\ i \in 1 .. Len(p) - k
      BY <2>0, <2>2, <1>1
    <3>2. Append(a, x)[i] = a[i]
      BY <1>2, <3>1
    <3>3. Append(p, x)[k + i] = p[k + i]
      BY <1>1, <2>0, <3>1
    <3> QED BY <3>1, <3>2, <3>3, <2>0, <1>2
  <2> QED BY <2>1, <2>2
<1>6. b = Append(a, x)
  BY <1>3, <1>4, <1>5, SeqEqual
<1> QED BY <1>2, <1>6 DEF a, b

\* publish (sfu.rs): the frame is in the ring of the viewer, or counted as
\* missed when the ring is full.
LEMMA FanPublish ==
    ASSUME NEW w \in ViewState, NEW p \in Seq(MFrame), NEW f \in MFrame, Fan(w, p), w.held
    PROVE  /\ Fan([w EXCEPT !.ring = Append(@, f)], Append(p, f))
           /\ Fan([w EXCEPT !.missed = @ + 1], Append(p, f))
<1> DEFINE seen == w.got \o w.ring
           offered == SubSeq(p, w.since + 1, Len(p))
<1>1. /\ w.got \in Seq(MFrame) /\ w.ring \in Seq(MFrame) /\ w.since \in Nat /\ w.missed \in Nat
      /\ w.since <= Len(p)
  BY DEF ViewState, Fan
<1>2. Len(seen) + w.missed = Len(offered) /\ IsSubsequence(seen, offered)
  BY DEF Fan
<1>3. seen \in Seq(MFrame) /\ Len(p) \in Nat /\ Len(Append(p, f)) = Len(p) + 1
  BY <1>1
<1>4. /\ offered \in Seq(MFrame) /\ Len(offered) = Len(p) - w.since
      /\ SubSeq(Append(p, f), w.since + 1, Len(p) + 1) = Append(offered, f)
  <2>1. PICK k \in Nat : k = w.since
    BY <1>1
  <2>2. k <= Len(p)
    BY <1>1, <2>1
  <2>3. /\ SubSeq(p, k + 1, Len(p)) \in Seq(MFrame)
        /\ SubSeq(Append(p, f), k + 1, Len(p) + 1) = Append(SubSeq(p, k + 1, Len(p)), f)
        /\ Len(SubSeq(p, k + 1, Len(p))) = Len(p) - k
    BY <2>2, OfferedGrows
  <2> QED BY <2>1, <2>3
<1>5. w.got \o Append(w.ring, f) = Append(seen, f)
  <2>1. PICK g \in Seq(MFrame), r \in Seq(MFrame) : g = w.got /\ r = w.ring
    BY <1>1, Zenon
  <2>2. g \o Append(r, f) = Append(g \o r, f)
    BY ConcatAppend
  <2> QED BY <2>1, <2>2
<1> HIDE DEF seen, offered
<1>6. /\ Len(Append(offered, f)) = Len(offered) + 1 /\ Len(seen) \in Nat /\ Len(offered) \in Nat
      /\ Len(Append(seen, f)) = Len(seen) + 1
  BY <1>3, <1>4
<1>7. IsSubsequence(Append(seen, f), Append(offered, f)) /\ IsSubsequence(seen, Append(offered, f))
  BY <1>2, <1>3, <1>4, SubsequenceGrows, SubsequenceSkips
<1>8. /\ [w EXCEPT !.ring = Append(@, f)].got = w.got /\ [w EXCEPT !.ring = Append(@, f)].ring = Append(w.ring, f)
      /\ [w EXCEPT !.ring = Append(@, f)].since = w.since /\ [w EXCEPT !.ring = Append(@, f)].missed = w.missed
      /\ [w EXCEPT !.missed = @ + 1].got = w.got /\ [w EXCEPT !.missed = @ + 1].ring = w.ring
      /\ [w EXCEPT !.missed = @ + 1].since = w.since /\ [w EXCEPT !.missed = @ + 1].missed = w.missed + 1
  BY DEF ViewState
<1>9. w.since <= Len(Append(p, f)) /\ Len(Append(seen, f)) + w.missed = Len(Append(offered, f))
      /\ Len(seen) + (w.missed + 1) = Len(Append(offered, f))
  BY <1>1, <1>2, <1>3, <1>5, <1>6
<1>10. Fan([w EXCEPT !.ring = Append(@, f)], Append(p, f))
  BY <1>3, <1>4, <1>5, <1>7, <1>8, <1>9 DEF Fan, seen
<1>11. Fan([w EXCEPT !.missed = @ + 1], Append(p, f))
  BY <1>3, <1>4, <1>7, <1>8, <1>9 DEF Fan, seen
<1> QED BY <1>10, <1>11

\* A viewer that pops its ring has seen the same frames.
LEMMA FanView ==
    ASSUME NEW w \in ViewState, NEW p \in Seq(MFrame), Fan(w, p), w.ring # << >>
    PROVE  /\ Fan([w EXCEPT !.got = Append(@, Head(w.ring)), !.ring = Tail(@)], p)
           /\ [w EXCEPT !.got = Append(@, Head(w.ring)), !.ring = Tail(@)] \in ViewState
<1> DEFINE x == [w EXCEPT !.got = Append(@, Head(w.ring)), !.ring = Tail(@)]
<1>1. /\ w.got \in Seq(MFrame) /\ w.ring \in Seq(MFrame) /\ Head(w.ring) \in MFrame
      /\ Append(w.got, Head(w.ring)) \in Seq(MFrame) /\ Tail(w.ring) \in Seq(MFrame)
  BY DEF ViewState
<1>2. /\ x.got = Append(w.got, Head(w.ring)) /\ x.ring = Tail(w.ring)
      /\ x.since = w.since /\ x.missed = w.missed /\ x.held = w.held
  BY DEF ViewState
<1>3. x \in ViewState
  BY <1>1 DEF ViewState
<1>4. Append(w.got, Head(w.ring)) \o Tail(w.ring) = w.got \o w.ring
  BY <1>1, HeadMoves, Zenon
<1> HIDE DEF x
<1>5. Fan(x, p)
  BY <1>2, <1>4 DEF Fan
<1> QED BY <1>3, <1>5 DEF x

\* A viewer that subscribes has been offered nothing yet.
LEMMA FanNew ==
    ASSUME NEW p \in Seq(MFrame)
    PROVE  LET w == [NoView EXCEPT !.held = TRUE, !.since = Len(p)]
           IN  w \in ViewState /\ Fan(w, p)
<1> DEFINE w == [NoView EXCEPT !.held = TRUE, !.since = Len(p)]
<1>p. Len(p) \in Nat
  OBVIOUS
<1>1. w.held /\ w.ring = << >> /\ w.got = << >> /\ w.since = Len(p) /\ w.missed = 0
  BY DEF NoView
<1>2. w \in ViewState
  <2>0. << >> \in Seq(MFrame)
    OBVIOUS
  <2>2. PICK n \in Nat : n = Len(p)
    BY <1>p
  <2>3. NoView \in ViewState
    BY <2>0 DEF NoView, ViewState
  <2>4. ASSUME NEW x \in ViewState PROVE [x EXCEPT !.held = TRUE, !.since = n] \in ViewState
    BY DEF ViewState
  <2> QED BY <2>2, <2>3, <2>4
<1> HIDE DEF w
<1>3. SubSeq(p, Len(p) + 1, Len(p)) = << >> /\ w.got \o w.ring = << >>
  BY <1>1, <1>p
<1>4. IsSubsequence(<< >>, << >>)
  <2>1. DOMAIN << >> = {}
    OBVIOUS
  <2>2. [i \in {} |-> i] \in [DOMAIN << >> -> DOMAIN << >>]
    BY <2>1
  <2> QED BY <2>1, <2>2 DEF IsSubsequence
<1>6. Len(<< >>) + 0 = Len(<< >>)
  OBVIOUS
<1>5. Fan(w, p)
  <2>1. w.since <= Len(p)
    BY <1>1, <1>p
  <2>2. SubSeq(p, w.since + 1, Len(p)) = << >>
    BY <1>1, <1>3
  <2> QED BY <1>1, <1>3, <1>4, <1>6, <2>1, <2>2 DEF Fan
<1> QED BY <1>2, <1>5 DEF w

\* Steps that touch no ring and no frame keep the fan-out, if no viewer is
\* added.
LEMMA ViewsKeep ==
    ASSUME FanInv, CommandInv', views' = views, published' = published,
           \A u \in Unit : \/ ~Known(u)'
                           \/ /\ Known(u) /\ units'[u].subs \subseteq units[u].subs
                              /\ units'[u].next = units[u].next
                           \/ units'[u].subs = {}
    PROVE  FanInv'
<1>1. ViewTypes'
  BY DEF FanInv, ViewTypes
<1>2. ASSUME NEW u \in Unit, Known(u)', NEW v \in units'[u].subs
      PROVE  v < units'[u].next /\ Fan(views'[u][v], published'[u])
  <2>1. /\ Known(u) /\ units'[u].subs \subseteq units[u].subs
        /\ units'[u].next = units[u].next
    BY <1>2
  <2>2. v < units[u].next /\ Fan(views[u][v], published[u])
    BY <2>1 DEF FanInv, Fanned
  <2> QED BY <2>1, <2>2
<1> QED BY <1>1, <1>2 DEF FanInv, Fanned, Known

\* Every operation of the fleet keeps the fan-out.
LEMMA FanStep ==
    ASSUME FanInv, FleetNext
    PROVE  FanInv'
<1>0. CommandInv' /\ CommandInv
  BY FleetStep DEF FanInv
<1>t. /\ views \in [Unit -> [Viewer -> ViewState]] /\ published \in [Unit -> Seq(MFrame)]
      /\ units \in [Unit -> Session \cup {Nobody}] /\ units' \in [Unit -> Session \cup {Nobody}]
  BY <1>0 DEF FanInv, ViewTypes, CommandInv, FleetTypes
<1>s. \A u \in Unit : Known(u) => units[u] \in Session /\ units[u].subs \subseteq Viewer /\ units[u].next \in Nat
  BY <1>t DEF Known, Session
<1>n. NoView \in ViewState
  <2>1. << >> \in Seq(MFrame)
    OBVIOUS
  <2> QED BY <2>1 DEF NoView, ViewState
<1>1. CASE Restart
  <2>1. \A u \in Unit : ~Known(u)'
    BY <1>1 DEF Restart, Known
  <2>2. ViewTypes'
    <3>1. << >> \in Seq(MFrame)
      OBVIOUS
    <3> QED BY <1>1, <1>n, <3>1 DEF Restart, ViewTypes
  <2> QED BY <1>0, <2>1, <2>2 DEF FanInv, Fanned
<1>2. ASSUME NEW u \in Unit, NEW rec \in RecorderKind, RegisterUnit(u, rec) PROVE FanInv'
  <2>1. /\ units' = [units EXCEPT ![u] = NewUnit(rec)] /\ views' = views /\ published' = published
        /\ NewUnit(rec).subs = {}
    BY <1>2 DEF RegisterUnit, NewUnit
  <2>2. ASSUME NEW w \in Unit
        PROVE  \/ ~Known(w)'
               \/ Known(w) /\ units'[w].subs \subseteq units[w].subs /\ units'[w].next = units[w].next
               \/ units'[w].subs = {}
    BY <2>1, <1>t DEF Known
  <2> QED BY <2>1, <2>2, <1>0, ViewsKeep
<1>3. ASSUME NEW u \in Unit, NEW op \in FleetOperator, Assign(u, op) PROVE FanInv'
  <2>1. /\ units' = [units EXCEPT ![u] = [units[u] EXCEPT !.operator = op]]
        /\ views' = views /\ published' = published /\ Known(u)
    BY <1>3 DEF Assign
  <2>2. units'[u].subs = units[u].subs /\ units'[u].next = units[u].next
    BY <2>1, <1>t, <1>s DEF Session
  <2>3. ASSUME NEW w \in Unit
        PROVE  \/ ~Known(w)'
               \/ Known(w) /\ units'[w].subs \subseteq units[w].subs /\ units'[w].next = units[w].next
               \/ units'[w].subs = {}
    BY <2>1, <2>2, <1>t DEF Known
  <2> QED BY <2>1, <2>3, <1>0, ViewsKeep
<1>4. ASSUME NEW u \in Unit, NEW t \in Mode, SetMode(u, t) PROVE FanInv'
  <2>1. /\ \E n, m : units' = [units EXCEPT ![u] = [units[u] EXCEPT !.cmdSeq = n, !.mode = m]]
        /\ views' = views /\ published' = published /\ Known(u)
    <3> DEFINE path == PathVia(units[u].mode, t)
    <3>1. PICK k \in 0 .. Len(path) :
              units' = [units EXCEPT ![u].cmdSeq = units[u].cmdSeq + k,
                                     ![u].mode = IF k = 0 THEN @ ELSE path[k]]
      BY <1>4 DEF SetMode, SendOutcome
    <3> HIDE DEF path
    <3>2. units' = [units EXCEPT ![u] = [units[u] EXCEPT !.cmdSeq = units[u].cmdSeq + k,
                                            !.mode = IF k = 0 THEN units[u].mode ELSE path[k]]]
      BY <3>1, <1>t, <1>s
    <3>3. views' = views /\ published' = published /\ Known(u)
      BY <1>4 DEF SetMode
    <3> QED BY <3>2, <3>3
  <2>2. units'[u].subs = units[u].subs /\ units'[u].next = units[u].next
    BY <2>1, <1>t, <1>s DEF Session
  <2>3. ASSUME NEW w \in Unit
        PROVE  \/ ~Known(w)'
               \/ Known(w) /\ units'[w].subs \subseteq units[w].subs /\ units'[w].next = units[w].next
               \/ units'[w].subs = {}
    BY <2>1, <2>2, <1>t DEF Known
  <2> QED BY <2>1, <2>3, <1>0, ViewsKeep
<1>5. ASSUME NEW u \in Unit, NEW f \in UnitFrame, IngestFails(u, f) PROVE FanInv'
  <2>1. /\ units' = [units EXCEPT ![u] = Provisioned(u, "file")]
        /\ views' = views /\ published' = published
    BY <1>5 DEF IngestFails
  <2>2. (Known(u) /\ Provisioned(u, "file") = units[u]) \/ Provisioned(u, "file").subs = {}
    BY DEF Provisioned, NewUnit
  <2>3. ASSUME NEW w \in Unit
        PROVE  \/ ~Known(w)'
               \/ Known(w) /\ units'[w].subs \subseteq units[w].subs /\ units'[w].next = units[w].next
               \/ units'[w].subs = {}
    BY <2>1, <2>2, <1>t DEF Known
  <2> QED BY <2>1, <2>3, <1>0, ViewsKeep
<1>6. ASSUME NEW u \in Unit, NEW v \in Viewer, Unsubscribe(u, v) PROVE FanInv'
  <2>1. /\ units' = [units EXCEPT ![u] = [units[u] EXCEPT !.subs = @ \ {v}]]
        /\ views' = views /\ published' = published /\ Known(u)
    BY <1>6 DEF Unsubscribe
  <2>2. units'[u].subs \subseteq units[u].subs /\ units'[u].next = units[u].next
    BY <2>1, <1>t, <1>s DEF Session
  <2>3. ASSUME NEW w \in Unit
        PROVE  \/ ~Known(w)'
               \/ Known(w) /\ units'[w].subs \subseteq units[w].subs /\ units'[w].next = units[w].next
               \/ units'[w].subs = {}
    BY <2>1, <2>2, <1>t DEF Known
  <2> QED BY <2>1, <2>3, <1>0, ViewsKeep
<1>7. ASSUME NEW u \in Unit, NEW f \in UnitFrame, Ingest(u, f) PROVE FanInv'
  <2>1. PICK rec \in RecorderKind :
           /\ units' = [units EXCEPT ![u] = [Provisioned(u, rec) EXCEPT
                           !.frames = @ + 1, !.subs = {v \in @ : views[u][v].held}]]
           /\ views' = [views EXCEPT ![u] = Published(u, Provisioned(u, rec).subs, MediaFrame(f))]
           /\ published' = [published EXCEPT ![u] = Append(@, MediaFrame(f))]
    BY <1>7 DEF Ingest
  <2> DEFINE g == MediaFrame(f)
             s == Provisioned(u, rec)
  <2>2. g \in MFrame
    <3>1. f.seq \in FrameSeq /\ f.len \in PayLen /\ f.len \in Nat /\ MaxPayload \in Nat
      BY FleetAssumption DEF UnitFrame
    <3> QED BY <3>1 DEF MediaFrame, MFrame, UnitFrame
  <2>3. s \in Session /\ s.subs \subseteq Viewer
    BY <1>s, NewSession DEF Provisioned, Session
  <2>4. /\ units'[u].subs = {v \in s.subs : views[u][v].held} /\ units'[u].next = s.next
        /\ published'[u] = Append(published[u], g)
    BY <2>1, <2>3, <1>t DEF Session
  <2>5. /\ s.subs # {} => Known(u) /\ s = units[u]
    BY DEF Provisioned, NewUnit
  <2> HIDE DEF g, s
  <2>6. ASSUME NEW v \in Viewer
        PROVE  /\ views'[u][v] \in ViewState
               /\ views[u][v].held /\ v \in s.subs =>
                     \/ views'[u][v] = [views[u][v] EXCEPT !.ring = Append(@, g)]
                     \/ views'[u][v] = [views[u][v] EXCEPT !.missed = @ + 1]
    <3>0. views'[u][v] = (IF v \notin s.subs \/ ~views[u][v].held THEN views[u][v]
              ELSE IF Len(views[u][v].ring) < ViewCap THEN [views[u][v] EXCEPT !.ring = Append(@, g)]
              ELSE [views[u][v] EXCEPT !.missed = @ + 1])
      BY <2>1, <1>t DEF Published, g, s
    <3>1. PICK x \in ViewState : x = views[u][v]
      BY <1>t
    <3>2. [x EXCEPT !.ring = Append(@, g)] \in ViewState
      <4>1. Append(x.ring, g) \in Seq(MFrame)
        BY <2>2 DEF ViewState
      <4>2. ASSUME NEW r \in Seq(MFrame) PROVE [x EXCEPT !.ring = r] \in ViewState
        BY DEF ViewState
      <4> QED BY <4>1, <4>2
    <3>3. [x EXCEPT !.missed = @ + 1] \in ViewState
      BY DEF ViewState
    <3>4. /\ v \notin s.subs \/ ~views[u][v].held => views'[u][v] = x
          /\ v \in s.subs /\ views[u][v].held =>
               \/ views'[u][v] = [x EXCEPT !.ring = Append(@, g)]
               \/ views'[u][v] = [x EXCEPT !.missed = @ + 1]
      BY <3>0, <3>1
    <3> HIDE <3>0
    <3> QED BY <3>1, <3>2, <3>3, <3>4
  <2>7. ViewTypes'
    <3>1. views' \in [Unit -> [Viewer -> ViewState]]
      <4>1. views'[u] = Published(u, s.subs, g) /\ \A w \in Unit : w # u => views'[w] = views[w]
        BY <2>1, <1>t DEF g, s
      <4>2. Published(u, s.subs, g) \in [Viewer -> {views'[u][v] : v \in Viewer}]
        BY <4>1 DEF Published
      <4>3. views'[u] \in [Viewer -> ViewState]
        BY <4>1, <4>2, <2>6
      <4>4. views' \in [Unit -> {views'[w] : w \in Unit}]
        BY <2>1, <1>t
      <4> QED BY <4>1, <4>3, <4>4, <1>t
    <3>2. Append(published[u], g) \in Seq(MFrame)
      BY <2>2, <1>t
    <3>3. published' \in [Unit -> Seq(MFrame)]
      BY <2>1, <3>2, <1>t DEF g
    <3> QED BY <3>1, <3>3 DEF ViewTypes
  <2>8. ASSUME NEW v \in units'[u].subs
        PROVE  v < units'[u].next /\ Fan(views'[u][v], published'[u])
    <3>1. v \in s.subs /\ views[u][v].held /\ v \in Viewer /\ Known(u) /\ s = units[u]
      BY <2>3, <2>4, <2>5
    <3>2. v < units[u].next /\ Fan(views[u][v], published[u])
      BY <3>1 DEF FanInv, Fanned
    <3>3. PICK x \in ViewState, p \in Seq(MFrame) : x = views[u][v] /\ p = published[u]
      BY <3>1, <1>t, Zenon
    <3>4. /\ Fan([x EXCEPT !.ring = Append(@, g)], Append(p, g))
          /\ Fan([x EXCEPT !.missed = @ + 1], Append(p, g))
      <4>1. PICK h \in MFrame : h = g
        BY <2>2
      <4>2. Fan(x, p) /\ x.held
        BY <3>1, <3>2, <3>3
      <4> QED BY <4>1, <4>2, FanPublish
    <3>5. \/ views'[u][v] = [x EXCEPT !.ring = Append(@, g)]
          \/ views'[u][v] = [x EXCEPT !.missed = @ + 1]
      BY <2>6, <3>1, <3>3
    <3> QED BY <3>1, <3>2, <3>3, <3>4, <3>5, <2>4
  <2>9. ASSUME NEW w \in Unit PROVE Fanned(w)'
    <3>1. CASE w = u
      BY <3>1, <2>8 DEF Fanned
    <3>2. CASE w # u
      <4>1. units'[w] = units[w] /\ views'[w] = views[w] /\ published'[w] = published[w]
        BY <3>2, <2>1, <1>t
      <4> QED BY <4>1 DEF FanInv, Fanned, Known
    <3> QED BY <3>1, <3>2
  <2> QED BY <1>0, <2>7, <2>9 DEF FanInv
<1>8. ASSUME NEW u \in Unit, AttachSubscriber(u) PROVE FanInv'
  <2>1. /\ Known(u) /\ units[u].next \in Viewer /\ published' = published
        /\ units' = [units EXCEPT ![u] = [units[u] EXCEPT !.subs = @ \cup {units[u].next}, !.next = @ + 1]]
        /\ views' = [views EXCEPT ![u][units[u].next] =
                        [NoView EXCEPT !.held = TRUE, !.since = Len(published[u])]]
    BY <1>8 DEF AttachSubscriber
  <2>2. PICK x \in Session, p \in Seq(MFrame) : x = units[u] /\ p = published[u]
    BY <2>1, <1>t, <1>s, Zenon
  <2> DEFINE w == [NoView EXCEPT !.held = TRUE, !.since = Len(p)]
  <2>3. w \in ViewState /\ Fan(w, p)
    BY FanNew
  <2>4. /\ units'[u].subs = x.subs \cup {x.next} /\ units'[u].next = x.next + 1
    BY <2>1, <2>2, <1>t, SessionGains
  <2>5. /\ views'[u] = [views[u] EXCEPT ![x.next] = w]
        /\ \A y \in Unit : y # u => views'[y] = views[y] /\ units'[y] = units[y]
        /\ views' \in [Unit -> {views'[y] : y \in Unit}]
    BY <2>1, <2>2, <1>t
  <2> HIDE DEF w
  <2>6. views'[u] \in [Viewer -> ViewState]
    BY <2>1, <2>2, <2>3, <2>5, <1>t
  <2>7. ViewTypes'
    BY <2>1, <2>5, <2>6, <1>t DEF ViewTypes
  <2>8. ASSUME NEW v \in units'[u].subs
        PROVE  v < units'[u].next /\ Fan(views'[u][v], published'[u])
    <3>1. x.next \in Nat /\ x.subs \subseteq Viewer /\ Viewer \subseteq Nat /\ x.next \in Viewer
      BY <2>1, <2>2, FleetAssumption DEF Session, Viewer
    <3>2. CASE v \in x.subs
      <4>1. v < x.next /\ Fan(views[u][v], p) /\ v \in Nat
        BY <3>1, <3>2, <2>1, <2>2 DEF FanInv, Fanned
      <4>2. v # x.next /\ views'[u][v] = views[u][v]
        BY <4>1, <3>1, <3>2, <2>5, <1>t
      <4> QED BY <4>1, <4>2, <2>1, <2>2, <2>4, <3>1
    <3>3. CASE v = x.next
      <4>1. views'[u][v] = w
        BY <3>1, <3>3, <2>5, <1>t
      <4> QED BY <4>1, <3>1, <3>3, <2>1, <2>2, <2>3, <2>4
    <3> QED BY <3>2, <3>3, <2>4
  <2>9. ASSUME NEW y \in Unit PROVE Fanned(y)'
    <3>1. CASE y = u
      BY <3>1, <2>8 DEF Fanned
    <3>2. CASE y # u
      BY <3>2, <2>1, <2>5 DEF FanInv, Fanned, Known
    <3> QED BY <3>1, <3>2
  <2> QED BY <1>0, <2>7, <2>9 DEF FanInv
\* One view changes, and what it has of the frames stays true.
<1>9. ASSUME NEW u \in Unit, NEW v \in Viewer, NEW x \in ViewState,
             views' = [views EXCEPT ![u][v] = x], units' = units, published' = published,
             Fan(views[u][v], published[u]) => Fan(x, published[u])
      PROVE  FanInv'
  <2>1. /\ \A w \in Unit, y \in Viewer : views'[w][y] = IF w = u /\ y = v THEN x ELSE views[w][y]
        /\ views' \in [Unit -> [Viewer -> ViewState]]
    BY <1>9, <1>t
  <2>2. ASSUME NEW w \in Unit PROVE Fanned(w)'
    <3> SUFFICES ASSUME Known(w), NEW y \in units[w].subs
        PROVE  y < units[w].next /\ Fan(views'[w][y], published[w])
      BY <1>9 DEF Fanned, Known
    <3>1. y < units[w].next /\ Fan(views[w][y], published[w]) /\ y \in Viewer
      BY <1>s DEF FanInv, Fanned
    <3> QED BY <3>1, <2>1, <1>9
  <2> QED BY <1>0, <1>t, <1>9, <2>1, <2>2 DEF FanInv, ViewTypes
<1>10. ASSUME NEW u \in Unit, NEW v \in Viewer, LetGo(u, v) PROVE FanInv'
  <2>1. PICK w \in ViewState, p \in Seq(MFrame) : w = views[u][v] /\ p = published[u]
    BY <1>t, Zenon
  <2>2. /\ views' = [views EXCEPT ![u][v] = [w EXCEPT !.held = FALSE]]
        /\ units' = units /\ published' = published
    BY <1>10, <2>1, <1>t DEF LetGo
  <2>3. [w EXCEPT !.held = FALSE] \in ViewState /\ (Fan(w, p) => Fan([w EXCEPT !.held = FALSE], p))
    <3>1. [w EXCEPT !.held = FALSE] \in ViewState /\ ~[w EXCEPT !.held = FALSE].held
          /\ [w EXCEPT !.held = FALSE].since = w.since
      BY DEF ViewState
    <3> QED BY <3>1 DEF Fan
  <2> QED BY <2>1, <2>2, <2>3, <1>9
<1>11. ASSUME NEW u \in Unit, NEW v \in Viewer, View(u, v) PROVE FanInv'
  <2>1. PICK w \in ViewState, p \in Seq(MFrame) : w = views[u][v] /\ p = published[u]
    BY <1>t, Zenon
  <2> DEFINE x == [w EXCEPT !.got = Append(@, Head(w.ring)), !.ring = Tail(@)]
  <2>2. /\ views' = [views EXCEPT ![u][v] = x] /\ w.ring # << >>
        /\ units' = units /\ published' = published
    BY <1>11, <2>1, <1>t DEF View
  <2>3. Fan(w, p) => Fan(x, p) /\ x \in ViewState
    BY <2>2, FanView
  <2>4. x \in ViewState
    <3>1. w.got \in Seq(MFrame) /\ w.ring \in Seq(MFrame)
      BY DEF ViewState
    <3>2. Append(w.got, Head(w.ring)) \in Seq(MFrame) /\ Tail(w.ring) \in Seq(MFrame)
      BY <3>1, <2>2
    <3>3. ASSUME NEW g \in Seq(MFrame), NEW r \in Seq(MFrame)
          PROVE  [w EXCEPT !.got = g, !.ring = r] \in ViewState
      BY DEF ViewState
    <3> QED BY <3>2, <3>3
  <2> HIDE DEF x
  <2> QED BY <2>1, <2>2, <2>3, <2>4, <1>9
<1>12. ASSUME NEW u \in Unit, CreateFails(u) PROVE FanInv'
  <2>1. units' = units /\ views' = views /\ published' = published
    BY <1>12 DEF CreateFails
  <2>2. ASSUME NEW w \in Unit
        PROVE  \/ ~Known(w)'
               \/ Known(w) /\ units'[w].subs \subseteq units[w].subs /\ units'[w].next = units[w].next
               \/ units'[w].subs = {}
    BY <2>1 DEF Known
  <2> QED BY <2>1, <2>2, <1>0, ViewsKeep
<1> QED BY <1>1, <1>2, <1>3, <1>4, <1>5, <1>6, <1>7, <1>8, <1>10, <1>11, <1>12 DEF FleetNext

\* For any number of viewers and any capacity of their rings: what a viewer
\* popped and what its ring holds are the frames published since it subscribed
\* without those counted as missed, in their order and once (sfu.rs).
THEOREM FanOutExactAlways == FleetSpec => []FanOutExact
<1>1. FleetInit => FanInv
  <2> SUFFICES ASSUME FleetInit PROVE FanInv
    OBVIOUS
  <2>1. FleetTypes
    BY DEF FleetInit, FleetTypes
  <2>2. CommandInv
    BY <2>1 DEF FleetInit, CommandInv, SessionReplays, Known
  <2>3. << >> \in Seq(MFrame)
    OBVIOUS
  <2>4. NoView \in ViewState
    BY <2>3 DEF NoView, ViewState
  <2>5. ViewTypes
    BY <2>3, <2>4 DEF FleetInit, ViewTypes
  <2>6. \A u \in Unit : ~Known(u)
    BY DEF FleetInit, Known
  <2> QED BY <2>2, <2>5, <2>6 DEF FanInv, Fanned
<1>2. FanInv /\ [FleetNext]_fleetVars => FanInv'
  <2>1. FanInv /\ UNCHANGED fleetVars => FanInv'
    BY DEF FanInv, CommandInv, FleetTypes, SessionReplays, Known, fleetVars, ViewTypes, Fanned
  <2> QED BY <2>1, FanStep
<1>3. FanInv => FanOutExact
  <2> SUFFICES ASSUME FanInv, NEW u \in Unit, Known(u), NEW v \in units[u].subs, views[u][v].held
      PROVE  LET w == views[u][v]
                 seen == w.got \o w.ring
                 offered == SubSeq(published[u], w.since + 1, Len(published[u]))
             IN  /\ Len(seen) + w.missed = Len(offered)
                 /\ IsSubsequence(seen, offered)
    BY DEF FanOutExact
  <2>1. Fan(views[u][v], published[u])
    BY DEF FanInv, Fanned
  <2> QED BY <2>1 DEF Fan
<1> QED BY <1>1, <1>2, <1>3, PTL DEF FleetSpec

-----------------------------------------------------------------------------
(* The recordings.                                                         *)

\* The least-number principle, for a set.
LEMMA LeastOf ==
  ASSUME NEW T, T \subseteq Nat, T # {}
  PROVE  \E x \in T : \A y \in T : x <= y
<1>1. PICK x \in T : \A y \in T : ~(<<y, x>> \in OpToRel(<, Nat))
  BY NatLessThanWellFounded, WFMin
<1>2. ASSUME NEW a \in Nat, NEW b \in Nat, a < b
      PROVE  <<a, b>> \in OpToRel(<, Nat)
  BY <1>2, Zenon DEF OpToRel
<1>3. ASSUME NEW y \in T
      PROVE  x <= y
  <2>1. ~(y < x)
    BY <1>1, <1>2, Zenon
  <2> QED BY <2>1
<1> QED BY <1>3

\* What a recording is made of.
Cell == UnitFrame \cup {FileHeader, Payload}

\* A reading g of a file, from the cell at j on: read_frames (recorder.rs) as
\* an equation.
Reading(file, j, g) ==
    g = [i \in j .. Len(file) + 1 |->
          IF i > Len(file) THEN << >>
          ELSE IF file[i] \notin UnitFrame \/ i + file[i].len > Len(file) THEN ReadError
          ELSE <<file[i]>> \o g[i + 1 + file[i].len]]

\* Every file has a reading from its end, and one from j - 1 if it has one from j.
LEMMA ReadingExtends ==
    ASSUME NEW file \in Seq(Cell), NEW j \in 2 .. Len(file) + 1, NEW g, Reading(file, j, g)
    PROVE  \E h : Reading(file, j - 1, h)
<1> DEFINE n == Len(file)
           val(f, i) == IF i > n THEN << >>
                        ELSE IF file[i] \notin UnitFrame \/ i + file[i].len > n THEN ReadError
                        ELSE <<file[i]>> \o f[i + 1 + file[i].len]
           h == [i \in j - 1 .. n + 1 |-> IF i = j - 1 THEN val(g, i) ELSE g[i]]
<1>1. n \in Nat /\ j \in Nat /\ j >= 2 /\ j <= n + 1
  OBVIOUS
<1>2. \A i \in 1 .. n : file[i] \in UnitFrame => file[i].len \in Nat
  BY FleetAssumption DEF UnitFrame
<1>3. \A i \in j .. n + 1 : g[i] = val(g, i)
  BY DEF Reading
<1>4. \A i \in j .. n + 1 : h[i] = g[i]
  BY <1>1
<1>a. h[j - 1] = val(g, j - 1)
  BY <1>1
<1>b. h = [i \in j - 1 .. n + 1 |-> h[i]]
  OBVIOUS
<1> HIDE DEF h
<1>5. ASSUME NEW i \in j - 1 .. n + 1
      PROVE  val(h, i) = val(g, i)
  <2>1. CASE i > n \/ file[i] \notin UnitFrame \/ i + file[i].len > n
    BY <2>1
  <2>2. CASE ~(i > n) /\ file[i] \in UnitFrame /\ ~(i + file[i].len > n)
    <3>1. i \in 1 .. n /\ file[i].len \in Nat
      BY <1>1, <1>2, <2>2
    <3>2. i + 1 + file[i].len \in j .. n + 1
      <4> DEFINE l == file[i].len
      <4>1. l \in Nat /\ ~(i + l > n)
        BY <3>1, <2>2
      <4> HIDE DEF l
      <4>2. i + 1 + l \in j .. n + 1
        BY <4>1, <3>1, <1>1
      <4> QED BY <4>2 DEF l
    <3>3. h[i + 1 + file[i].len] = g[i + 1 + file[i].len]
      BY <1>4, <3>2, Zenon
    <3> QED BY <3>3, Zenon
  <2> QED BY <2>1, <2>2
<1>6. ASSUME NEW i \in j - 1 .. n + 1
      PROVE  h[i] = val(h, i)
  <2>1. CASE i = j - 1
    BY <2>1, <1>a, <1>5
  <2>2. CASE i # j - 1
    <3>1. i \in j .. n + 1
      BY <2>2, <1>1
    <3>2. h[i] = val(g, i)
      BY <3>1, <1>3, <1>4
    <3> QED BY <3>2, <1>5
  <2> QED BY <2>1, <2>2
<1>7. h = [i \in j - 1 .. n + 1 |-> val(h, i)]
  <2> HIDE DEF val
  <2> QED BY <1>b, <1>6
<1>8. Reading(file, j - 1, h)
  BY <1>7 DEF Reading
<1> QED BY <1>8

\* Every file has a reading: the equation of read_frames defines it.
LEMMA ReadingExists ==
    ASSUME NEW file \in Seq(Cell)
    PROVE  \E g : Reading(file, 1, g)
<1> DEFINE n == Len(file)
           S == {k \in 1 .. n + 1 : \E g : Reading(file, k, g)}
<1>1. n \in Nat
  OBVIOUS
<1>2. n + 1 \in S
  <2> DEFINE e == [i \in n + 1 .. n + 1 |-> << >>]
  <2>1. Reading(file, n + 1, e)
    BY <1>1 DEF Reading
  <2> QED BY <2>1, <1>1
<1>3. S \subseteq Nat
  OBVIOUS
<1> HIDE DEF S
<1>4. PICK m \in S : \A k \in S : m <= k
  BY <1>2, <1>3, LeastOf
<1>5. m \in 1 .. n + 1 /\ \E g : Reading(file, m, g)
  BY <1>4 DEF S
<1>6. CASE m = 1
  BY <1>5, <1>6
<1>7. CASE m # 1
  <2>1. m \in 2 .. n + 1
    BY <1>5, <1>7, <1>1
  <2>2. \E h : Reading(file, m - 1, h)
    BY <1>5, <2>1, ReadingExtends
  <2>3. m - 1 \in S
    BY <2>1, <2>2, <1>1 DEF S
  <2>4. m <= m - 1
    BY <1>4, <2>3
  <2> QED BY <2>4, <2>1
<1> QED BY <1>6, <1>7

\* ReadFrames is the value at the second cell of such a reading.
LEMMA ReadFramesReads ==
    ASSUME NEW file \in Seq(Cell), file # << >>, file[1] = FileHeader
    PROVE  \E g : Reading(file, 1, g) /\ ReadFrames(file) = g[2]
<1> DEFINE g == CHOOSE g : Reading(file, 1, g)
<1>1. Reading(file, 1, g)
  BY ReadingExists
<1>2. ReadFrames(file) = g[2]
  BY Zenon DEF ReadFrames, Reading
<1> QED BY <1>1, <1>2

\* Where the frames s are in a file: at[k] is the cell of the header of the
\* k-th, and they follow one another from the file's header to its end.
Laid(file, s, at) ==
    /\ at \in [1 .. Len(s) + 1 -> 2 .. Len(file) + 1]
    /\ at[1] = 2 /\ at[Len(s) + 1] = Len(file) + 1
    /\ \A k \in 1 .. Len(s) : file[at[k]] = s[k] /\ at[k + 1] = at[k] + 1 + s[k].len

\* The frames s are what an untorn file holds.
Holds(file, s) ==
    IF Len(file) = 0 THEN s = << >> ELSE file[1] = FileHeader /\ \E at : Laid(file, s, at)

\* Reading walks from header to header, from the last frame back to the first.
LEMMA LaidReads ==
    ASSUME NEW file \in Seq(Cell), NEW s \in Seq(UnitFrame), NEW at, Laid(file, s, at),
           NEW g, Reading(file, 1, g)
    PROVE  g[2] = s
<1> DEFINE n == Len(s)
           S == {k \in 1 .. n + 1 : g[at[k]] = SubSeq(s, k, n)}
<1>1. n \in Nat /\ Len(file) \in Nat
  OBVIOUS
<1>2. n + 1 \in S
  <2>1. n + 1 \in 1 .. n + 1 /\ SubSeq(s, n + 1, n) = << >>
    BY <1>1
  <2>2. at[n + 1] = Len(file) + 1
    BY DEF Laid
  <2>3. g[Len(file) + 1] = << >>
    BY <1>1 DEF Reading
  <2> QED BY <2>1, <2>2, <2>3
<1>3. S \subseteq Nat
  OBVIOUS
<1>4. ASSUME NEW k \in S PROVE k \in 1 .. n + 1 /\ g[at[k]] = SubSeq(s, k, n)
  OBVIOUS
<1>4a. ASSUME NEW k \in 1 .. n + 1, g[at[k]] = SubSeq(s, k, n) PROVE k \in S
  BY <1>4a
<1> HIDE DEF S
<1>5. PICK m \in S : \A k \in S : m <= k
  BY <1>2, <1>3, LeastOf
<1>6. CASE m # 1
  <2>1. m \in 2 .. n + 1 /\ m - 1 \in 1 .. n /\ (m - 1) + 1 = m
    BY <1>4, <1>5, <1>6, <1>1
  <2>2. /\ file[at[m - 1]] = s[m - 1] /\ at[m] = at[m - 1] + 1 + s[m - 1].len
        /\ at[m - 1] \in 2 .. Len(file) + 1 /\ at[m] \in 2 .. Len(file) + 1
    <3>1. file[at[m - 1]] = s[m - 1] /\ at[(m - 1) + 1] = at[m - 1] + 1 + s[m - 1].len
      BY <2>1, Zenon DEF Laid
    <3>2. m \in 1 .. n + 1 /\ m - 1 \in 1 .. n + 1
      BY <2>1, <1>1
    <3>3. at[m - 1] \in 2 .. Len(file) + 1 /\ at[m] \in 2 .. Len(file) + 1
      BY <3>2, Zenon DEF Laid
    <3> QED BY <3>1, <3>3, <2>1, Zenon
  <2>3. PICK f \in UnitFrame : f = s[m - 1]
    BY <2>1
  <2>4. PICK i \in 2 .. Len(file) + 1 : i = at[m - 1]
    BY <2>2
  <2>5. f.len \in Nat
    BY FleetAssumption DEF UnitFrame
  <2>6. i \in 1 .. Len(file) /\ ~(i > Len(file)) /\ ~(i + f.len > Len(file)) /\ file[i] = f /\ at[m] = i + 1 + f.len
    <3>1. PICK l \in Nat, c \in Nat, e \in 2 .. Len(file) + 1 : l = f.len /\ c = Len(file) /\ e = at[m]
      BY <2>2, <2>5, <1>1, Zenon
    <3>2. e = i + 1 + l /\ i \in 2 .. c + 1
      BY <2>2, <2>3, <2>4, <3>1, Zenon
    <3>3. i \in 1 .. c /\ ~(i > c) /\ ~(i + l > c)
      BY <3>1, <3>2
    <3> QED BY <3>1, <3>2, <3>3, <2>2, <2>3, <2>4, Zenon
  <2>7. g[i] = <<f>> \o g[i + 1 + f.len]
    <3>1. i \in 1 .. Len(file) + 1 /\ file[i] \in UnitFrame
      BY <2>6, <1>1
    <3> QED BY <3>1, <2>6 DEF Reading
  <2>8. g[i] = <<s[m - 1]>> \o SubSeq(s, m, n)
    BY <2>7, <2>6, <2>3, <1>4, <1>5
  <2>9. <<s[m - 1]>> \o SubSeq(s, m, n) = SubSeq(s, m - 1, n)
    <3>1. PICK p \in 1 .. n : p = m - 1 /\ m = p + 1
      BY <2>1
    <3>2. <<s[p]>> \o SubSeq(s, p + 1, n) = SubSeq(s, p, n)
      <4> DEFINE a == <<s[p]>> \o SubSeq(s, p + 1, n)
                 b == SubSeq(s, p, n)
      <4>1. a \in Seq(UnitFrame) /\ b \in Seq(UnitFrame) /\ Len(a) = Len(b)
        BY <1>1
      <4>2. \A q \in 1 .. Len(a) : a[q] = b[q]
        BY <1>1
      <4> QED BY <4>1, <4>2, SeqEqual
    <3> QED BY <3>1, <3>2
  <2>10. m - 1 \in S
    <3>1. m - 1 \in 1 .. n + 1
      BY <2>1, <1>1
    <3>2. g[at[m - 1]] = SubSeq(s, m - 1, n)
      BY <2>4, <2>8, <2>9, Zenon
    <3> QED BY <3>1, <3>2, <1>4a, Zenon
  <2> QED BY <2>10, <2>1, <1>5
<1>7. CASE m = 1
  <2>1. g[at[1]] = SubSeq(s, 1, n)
    BY <1>4, <1>5, <1>7
  <2>2. at[1] = 2
    BY DEF Laid
  <2>3. SubSeq(s, 1, n) = s
    BY <1>1
  <2> QED BY <2>1, <2>2, <2>3
<1> QED BY <1>6, <1>7

\* A file that holds frames reads back as them.
LEMMA HoldsReads ==
    ASSUME NEW file \in Seq(Cell), NEW s \in Seq(UnitFrame), Holds(file, s)
    PROVE  ReadFrames(file) = s
<1>1. CASE Len(file) = 0
  <2>1. file = << >>
    BY <1>1
  <2> QED BY <1>1, <2>1 DEF Holds, ReadFrames
<1>2. CASE Len(file) # 0
  <2>1. file # << >>
    BY <1>2
  <2>2. PICK at : file[1] = FileHeader /\ Laid(file, s, at)
    BY <1>2 DEF Holds
  <2>3. PICK g : Reading(file, 1, g) /\ ReadFrames(file) = g[2]
    BY <2>1, <2>2, ReadFramesReads
  <2> QED BY <2>2, <2>3, LaidReads
<1> QED BY <1>1, <1>2

\* FileRecorder::create keeps what a file holds, and the file has a header.
LEMMA HoldsCreated ==
    ASSUME NEW file \in Seq(Cell), NEW s \in Seq(UnitFrame)
    PROVE  /\ Created(file) \in Seq(Cell) /\ Len(Created(file)) > 0
           /\ Holds(file, s) => Holds(Created(file), s)
<1>1. CASE Len(file) = 0
  <2>1. file = << >>
    BY <1>1
  <2>2. Created(file) = <<FileHeader>> /\ FileHeader \in Cell
    BY <2>1 DEF Created, Cell
  <2>3. Created(file) \in Seq(Cell) /\ Len(Created(file)) = 1 /\ Created(file)[1] = FileHeader
    BY <2>2
  <2>4. ASSUME Holds(file, s) PROVE Holds(Created(file), s)
    <3>1. s = << >>
      BY <1>1, <2>4 DEF Holds
    <3> DEFINE at == [k \in 1 .. 1 |-> 2]
    <3>2. Laid(Created(file), << >>, at)
      BY <2>3 DEF Laid
    <3> QED BY <3>1, <3>2, <2>3 DEF Holds
  <2> QED BY <2>3, <2>4
<1>2. CASE Len(file) # 0
  <2>1. file # << >>
    BY <1>2
  <2> QED BY <1>2, <2>1 DEF Created
<1> QED BY <1>1, <1>2

\* What record() writes of a frame: one cell, and as many as its payload has.
LEMMA EncodedCells ==
    ASSUME NEW f \in UnitFrame
    PROVE  /\ f.len \in Nat /\ Encoded(f) \in Seq(Cell) /\ Len(Encoded(f)) = f.len + 1
           /\ Encoded(f)[1] = f
<1>1. f.len \in Nat /\ f \in Cell /\ Payload \in Cell
  BY FleetAssumption DEF UnitFrame, Cell
<1> DEFINE p == [i \in 1 .. f.len |-> Payload]
<1>2. p \in [1 .. f.len -> Cell]
  BY <1>1
<1> HIDE DEF p
<1>3. p \in Seq(Cell) /\ Len(p) = f.len
  BY <1>1, <1>2
<1>4. Encoded(f) = <<f>> \o p
  BY DEF Encoded, p
<1> QED BY <1>1, <1>3, <1>4

\* record() of a whole frame, after a header, adds it to what the file holds.
LEMMA HoldsMore ==
    ASSUME NEW file \in Seq(Cell), NEW s \in Seq(UnitFrame), NEW f \in UnitFrame, Len(file) > 0, Holds(file, s)
    PROVE  Holds(file \o Encoded(f), Append(s, f)) /\ Len(file \o Encoded(f)) > 0
<1>1. PICK e \in Seq(Cell) : e = Encoded(f) /\ Len(e) = f.len + 1 /\ e[1] = f /\ f.len \in Nat
  BY EncodedCells
<1>2. PICK at : file[1] = FileHeader /\ Laid(file, s, at)
  BY DEF Holds
<1>3. PICK n \in Nat, c \in Nat, l \in Nat : n = Len(s) /\ c = Len(file) /\ l = f.len
  BY <1>1
<1> DEFINE more == file \o e
           t == Append(s, f)
           at2 == [k \in 1 .. n + 2 |-> IF k = n + 2 THEN c + 2 + l ELSE at[k]]
<1>4. /\ more \in Seq(Cell) /\ Len(more) = c + l + 1 /\ more[c + 1] = f
      /\ \A i \in 1 .. c : more[i] = file[i]
  <2>1. Len(e) = l + 1 /\ e[1] = f
    BY <1>1, <1>3
  <2>2. more \in Seq(Cell) /\ Len(more) = c + Len(e)
        /\ \A i \in 1 .. c + Len(e) : more[i] = IF i <= c THEN file[i] ELSE e[i - c]
    BY <1>3
  <2>3. c + 1 \in 1 .. c + (l + 1) /\ ~(c + 1 <= c) /\ (c + 1) - c = 1
    BY <1>3
  <2>4. more[c + 1] = e[1]
    BY <2>1, <2>2, <2>3
  <2>5. c + (l + 1) = c + l + 1 /\ \A i \in 1 .. c : i \in 1 .. c + (l + 1) /\ i <= c
    BY <1>3
  <2> QED BY <2>1, <2>2, <2>4, <2>5
<1>5. /\ t \in Seq(UnitFrame) /\ Len(t) = n + 1 /\ t[n + 1] = f
      /\ \A k \in 1 .. n : t[k] = s[k]
  BY <1>3
<1>6. /\ at \in [1 .. n + 1 -> 2 .. c + 1] /\ at[1] = 2 /\ at[n + 1] = c + 1
      /\ \A k \in 1 .. n : file[at[k]] = s[k] /\ at[k + 1] = at[k] + 1 + s[k].len
  BY <1>2, <1>3 DEF Laid
<1>7. \A k \in 1 .. n : s[k].len \in Nat
  <2>1. \A k \in 1 .. n : s[k] \in UnitFrame
    BY <1>3
  <2> QED BY <2>1, FleetAssumption DEF UnitFrame
<1>8. \A k \in 1 .. n : at[k] \in 1 .. c
  <2> SUFFICES ASSUME NEW k \in 1 .. n PROVE at[k] \in 1 .. c
    OBVIOUS
  <2>1. PICK q \in Nat : q = s[k].len
    BY <1>7
  <2>2. at[k] \in 2 .. c + 1 /\ at[k + 1] \in 2 .. c + 1 /\ at[k + 1] = at[k] + 1 + q
    <3>1. k \in 1 .. n + 1 /\ k + 1 \in 1 .. n + 1
      BY <1>3
    <3> QED BY <3>1, <1>6, <2>1, Zenon
  <2>3. ASSUME NEW a \in 2 .. c + 1, NEW b \in 2 .. c + 1, b = a + 1 + q PROVE a \in 1 .. c
    BY <2>3, <1>3
  <2> QED BY <2>2, <2>3, Zenon
<1>9. /\ at2 \in [1 .. n + 2 -> 2 .. c + l + 2] /\ at2[n + 2] = c + 2 + l
      /\ \A k \in 1 .. n + 1 : at2[k] = at[k]
  <2>1. \A k \in 1 .. n + 1 : at[k] \in 2 .. c + 1
    BY <1>6, Zenon
  <2>2. \A k \in 1 .. n + 2 : k = n + 2 \/ k \in 1 .. n + 1
    BY <1>3
  <2>3. c + 2 + l \in 2 .. c + l + 2 /\ \A x \in 2 .. c + 1 : x \in 2 .. c + l + 2
    BY <1>3
  <2>4. \A k \in 1 .. n + 1 : k \in 1 .. n + 2 /\ k # n + 2
    BY <1>3
  <2>5. n + 2 \in 1 .. n + 2
    BY <1>3
  <2> QED BY <2>1, <2>2, <2>3, <2>4, <2>5
<1> HIDE DEF more, t, at2
<1>10. ASSUME NEW k \in 1 .. n + 1
       PROVE  more[at2[k]] = t[k] /\ at2[k + 1] = at2[k] + 1 + t[k].len
  <2>1. CASE k \in 1 .. n
    <3>1. more[at2[k]] = t[k]
      <4>1. more[at[k]] = file[at[k]] /\ file[at[k]] = s[k] /\ t[k] = s[k] /\ at2[k] = at[k]
        BY <2>1, <1>4, <1>5, <1>6, <1>8, <1>9, Zenon
      <4> QED BY <4>1, Zenon
    <3>a. k + 1 \in 1 .. n + 1
      BY <2>1, <1>3
    <3>2. at2[k + 1] = at[k + 1] /\ at2[k] = at[k] /\ t[k] = s[k]
      BY <2>1, <3>a, <1>5, <1>9, Zenon
    <3> QED BY <3>1, <3>2, <2>1, <1>6, Zenon
  <2>2. CASE k = n + 1
    <3>1. at2[k] = c + 1 /\ t[k] = f
      BY <2>2, <1>5, <1>6, <1>9
    <3>2. at2[k + 1] = c + 2 + l
      BY <2>2, <1>9, <1>3
    <3> QED BY <3>1, <3>2, <1>3, <1>4
  <2> QED BY <2>1, <2>2, <1>3
<1>11. /\ (n + 1) + 1 = n + 2 /\ (c + l + 1) + 1 = c + l + 2 /\ c + l + 2 = c + 2 + l
       /\ ~(c + l + 1 = 0) /\ c + l + 1 > 0 /\ 1 \in 1 .. n + 1
  <2>1. (n + 1) + 1 = n + 2 /\ 1 \in 1 .. n + 1
    OBVIOUS
  <2>2. (c + l + 1) + 1 = c + l + 2 /\ c + l + 2 = c + 2 + l
    OBVIOUS
  <2>3. c + l + 1 > 0 /\ ~(c + l + 1 = 0)
    OBVIOUS
  <2> QED BY <2>1, <2>2, <2>3
<1>12. Laid(more, t, at2)
  <2>1. at2[1] = 2
    BY <1>6, <1>9, <1>11
  <2> QED BY <1>4, <1>5, <1>9, <1>10, <1>11, <2>1 DEF Laid
<1>13. Holds(more, t)
  <2>1. 1 \in 1 .. c
    BY <1>3
  <2>2. more[1] = FileHeader
    BY <2>1, <1>2, <1>4
  <2> QED BY <2>2, <1>12, <1>4, <1>11 DEF Holds
<1> QED BY <1>13, <1>1, <1>4, <1>11 DEF more, t

\* Recordings are cells and frames.
FileTypes ==
    /\ disk \in [Unit -> Seq(Cell)] /\ stored \in [Unit -> Seq(UnitFrame)]
    /\ torn \in [Unit -> BOOLEAN]

\* A unit whose session records has a file with a header, and the file holds
\* what was recorded.
Records(u) ==
    /\ Known(u) /\ units[u].rec = "file" => Len(disk[u]) > 0
    /\ Holds(disk[u], stored[u])

\* The inductive invariant for RecordingReadsBack.
RecordInv ==
    /\ CommandInv /\ FileTypes
    /\ \A u \in Unit : ~torn[u] => Records(u)

\* A step on one unit that leaves it recording.
LEMMA RecordsStep ==
    ASSUME RecordInv, CommandInv', NEW u \in Unit,
           NEW file \in Seq(Cell), NEW s \in Seq(UnitFrame), NEW b \in BOOLEAN,
           disk' = [disk EXCEPT ![u] = file], stored' = [stored EXCEPT ![u] = s],
           torn' = [torn EXCEPT ![u] = b],
           \A w \in Unit : w # u => units'[w] = units[w],
           ~b => Holds(file, s),
           ~b /\ units'[u] # Nobody /\ units'[u].rec = "file" => Len(file) > 0
    PROVE  RecordInv'
<1>1. FileTypes'
  BY DEF RecordInv, FileTypes
<1>2. disk'[u] = file /\ stored'[u] = s /\ torn'[u] = b
  BY DEF RecordInv, FileTypes
<1>3. ASSUME NEW w \in Unit, w # u
      PROVE  disk'[w] = disk[w] /\ stored'[w] = stored[w] /\ torn'[w] = torn[w]
  BY <1>3 DEF RecordInv, FileTypes
<1>4. ASSUME NEW w \in Unit, ~torn'[w]
      PROVE  Records(w)'
  <2>1. CASE w = u
    <3>1. ~b /\ Holds(disk'[u], stored'[u])
      BY <1>2, <1>4, <2>1
    <3>2. Known(u)' /\ units'[u].rec = "file" => Len(disk'[u]) > 0
      BY <3>1, <1>2 DEF Known
    <3>3. Holds(disk[u], stored[u])'
      BY <3>1 DEF Holds, Laid
    <3> QED BY <3>2, <3>3, <2>1, Zenon DEF Records
  <2>2. CASE w # u
    <3>1. Records(w)
      BY <1>3, <1>4, <2>2 DEF RecordInv
    <3>2. units'[w] = units[w] /\ disk'[w] = disk[w] /\ stored'[w] = stored[w]
      BY <1>3, <2>2
    <3>3. Known(w)' /\ units'[w].rec = "file" => Len(disk'[w]) > 0
      BY <3>1, <3>2 DEF Records, Known
    <3>4. Holds(disk'[w], stored'[w])
      BY <3>1, <3>2 DEF Records
    <3>5. Holds(disk[w], stored[w])'
      BY <3>4 DEF Holds, Laid
    <3> QED BY <3>3, <3>5, Zenon DEF Records
  <2> QED BY <2>1, <2>2
<1> QED BY <1>1, <1>4 DEF RecordInv

\* A step that leaves the files alone, and no unit with a new recording.
LEMMA RecordsKeep ==
    ASSUME RecordInv, CommandInv', disk' = disk, stored' = stored, torn' = torn,
           \A u \in Unit : \/ units'[u] = Nobody
                           \/ units'[u].rec # "file"
                           \/ Known(u) /\ units'[u].rec = units[u].rec
    PROVE  RecordInv'
<1>1. FileTypes'
  BY DEF RecordInv, FileTypes
<1>2. ASSUME NEW u \in Unit, ~torn'[u]
      PROVE  Records(u)'
  <2>1. Records(u)
    BY <1>2 DEF RecordInv
  <2>2. Known(u)' /\ units'[u].rec = "file" => Len(disk'[u]) > 0
    BY <2>1 DEF Records, Known
  <2>3. Holds(disk[u], stored[u])'
    BY <2>1 DEF Records, Holds, Laid
  <2> QED BY <2>2, <2>3 DEF Records
<1> QED BY <1>1, <1>2 DEF RecordInv

\* Every operation of the fleet, a restart included, keeps the recordings.
LEMMA RecordStep ==
    ASSUME RecordInv, FleetNext
    PROVE  RecordInv'
<1>0. CommandInv' /\ CommandInv
  BY FleetStep DEF RecordInv
<1>t. /\ disk \in [Unit -> Seq(Cell)] /\ stored \in [Unit -> Seq(UnitFrame)] /\ torn \in [Unit -> BOOLEAN]
      /\ units \in [Unit -> Session \cup {Nobody}] /\ units' \in [Unit -> Session \cup {Nobody}]
  BY <1>0 DEF RecordInv, FileTypes, CommandInv, FleetTypes
<1>s. \A u \in Unit : Known(u) => units[u] \in Session
  BY <1>t DEF Known
<1>h. ASSUME NEW u \in Unit
      PROVE  /\ disk[u] \in Seq(Cell) /\ stored[u] \in Seq(UnitFrame) /\ torn[u] \in BOOLEAN
             /\ disk = [disk EXCEPT ![u] = disk[u]] /\ stored = [stored EXCEPT ![u] = stored[u]]
             /\ torn = [torn EXCEPT ![u] = torn[u]]
             /\ ~torn[u] => Holds(disk[u], stored[u])
             /\ ~torn[u] /\ Known(u) /\ units[u].rec = "file" => Len(disk[u]) > 0
  BY <1>t DEF RecordInv, Records
<1>1. CASE Restart
  <2>1. \A u \in Unit : units'[u] = Nobody
    BY <1>1 DEF Restart
  <2>2. disk' = disk /\ stored' = stored /\ torn' = torn
    BY <1>1 DEF Restart
  <2> QED BY <1>0, <2>1, <2>2, RecordsKeep
<1>2. ASSUME NEW u \in Unit, NEW rec \in RecorderKind, RegisterUnit(u, rec) PROVE RecordInv'
  <2>1. /\ units' = [units EXCEPT ![u] = NewUnit(rec)] /\ stored' = stored /\ torn' = torn
        /\ disk' = IF rec = "file" THEN [disk EXCEPT ![u] = Created(disk[u])] ELSE disk
        /\ NewUnit(rec).rec = rec
    BY <1>2, <1>t DEF RegisterUnit, NewUnit
  <2>2. units'[u] = NewUnit(rec) /\ \A w \in Unit : w # u => units'[w] = units[w]
    BY <2>1, <1>t
  <2>3. CASE rec = "file"
    <3>1. /\ Created(disk[u]) \in Seq(Cell) /\ Len(Created(disk[u])) > 0
          /\ ~torn[u] => Holds(Created(disk[u]), stored[u])
      BY <1>h, HoldsCreated
    <3>2. PICK file \in Seq(Cell) : file = Created(disk[u])
      BY <3>1
    <3>3. /\ disk' = [disk EXCEPT ![u] = file] /\ stored' = [stored EXCEPT ![u] = stored[u]]
          /\ torn' = [torn EXCEPT ![u] = torn[u]]
      BY <2>1, <2>3, <3>2, <1>h
    <3>4. Len(file) > 0 /\ (~torn[u] => Holds(file, stored[u]))
      BY <3>1, <3>2
    <3> QED BY <2>2, <3>3, <3>4, <1>h, <1>0, RecordsStep
  <2>4. CASE rec # "file"
    <3>1. ~torn[u] /\ units'[u] # Nobody /\ units'[u].rec = "file" => Len(disk[u]) > 0
      BY <2>1, <2>2, <2>4
    <3> QED BY <2>1, <2>2, <2>4, <3>1, <1>h, <1>0, RecordsStep
  <2> QED BY <2>3, <2>4
<1>3. ASSUME NEW u \in Unit, Known(u), units'[u].rec = units[u].rec,
             \A w \in Unit : w # u => units'[w] = units[w],
             disk' = disk, stored' = stored, torn' = torn
      PROVE  RecordInv'
  <2>1. ASSUME NEW w \in Unit
        PROVE  \/ units'[w] = Nobody \/ units'[w].rec # "file"
               \/ Known(w) /\ units'[w].rec = units[w].rec
    BY <1>3 DEF Known
  <2> QED BY <1>3, <2>1, <1>0, RecordsKeep
<1>4. ASSUME NEW u \in Unit, NEW op \in FleetOperator, Assign(u, op) PROVE RecordInv'
  <2>1. /\ Known(u) /\ units' = [units EXCEPT ![u] = [units[u] EXCEPT !.operator = op]]
        /\ disk' = disk /\ stored' = stored /\ torn' = torn
    BY <1>4 DEF Assign
  <2>2. units'[u].rec = units[u].rec /\ \A w \in Unit : w # u => units'[w] = units[w]
    BY <2>1, <1>t, <1>s DEF Session
  <2> QED BY <2>1, <2>2, <1>3
<1>5. ASSUME NEW u \in Unit, NEW t \in Mode, SetMode(u, t) PROVE RecordInv'
  <2>1. /\ \E n, m : units' = [units EXCEPT ![u] = [units[u] EXCEPT !.cmdSeq = n, !.mode = m]]
        /\ disk' = disk /\ stored' = stored /\ torn' = torn /\ Known(u)
    <3> DEFINE path == PathVia(units[u].mode, t)
    <3>1. PICK k \in 0 .. Len(path) :
              units' = [units EXCEPT ![u].cmdSeq = units[u].cmdSeq + k,
                                     ![u].mode = IF k = 0 THEN @ ELSE path[k]]
      BY <1>5 DEF SetMode, SendOutcome
    <3> HIDE DEF path
    <3>2. units' = [units EXCEPT ![u] = [units[u] EXCEPT !.cmdSeq = units[u].cmdSeq + k,
                                            !.mode = IF k = 0 THEN units[u].mode ELSE path[k]]]
      BY <3>1, <1>t, <1>s
    <3>3. disk' = disk /\ stored' = stored /\ torn' = torn /\ Known(u)
      BY <1>5 DEF SetMode
    <3> QED BY <3>2, <3>3
  <2>2. units'[u].rec = units[u].rec /\ \A w \in Unit : w # u => units'[w] = units[w]
    BY <2>1, <1>t, <1>s DEF Session
  <2> QED BY <2>1, <2>2, <1>3
<1>6. ASSUME NEW u \in Unit, NEW f \in UnitFrame, Ingest(u, f) PROVE RecordInv'
  <2>1. PICK rec \in RecorderKind, half \in BOOLEAN :
          LET s == Provisioned(u, rec)
              file == IF half THEN HalfHeader
                      ELSE IF s.rec = "file" /\ ~Known(u) THEN Created(disk[u]) ELSE disk[u]
          IN  /\ half => ~Known(u) /\ rec = "null"
              /\ units' = [units EXCEPT ![u] = [s EXCEPT !.frames = @ + 1,
                                                     !.subs = {v \in @ : views[u][v].held}]]
              /\ disk' = [disk EXCEPT ![u] = IF s.rec = "file" THEN file \o Encoded(f) ELSE file]
              /\ stored' = IF s.rec = "file" THEN [stored EXCEPT ![u] = Append(stored[u], f)] ELSE stored
              /\ torn' = [torn EXCEPT ![u] = torn[u] \/ half]
    BY <1>6, <1>t DEF Ingest
  <2>2. PICK s \in Session : /\ s = Provisioned(u, rec)
                             /\ Known(u) => s = units[u]
    <3>1. CASE Known(u)
      BY <3>1, <1>s DEF Provisioned
    <3>2. CASE ~Known(u)
      BY <3>2, NewSession DEF Provisioned
    <3> QED BY <3>1, <3>2
  <2>3. PICK file : file = IF half THEN HalfHeader
                           ELSE IF s.rec = "file" /\ ~Known(u) THEN Created(disk[u]) ELSE disk[u]
    OBVIOUS
  <2>b. PICK b \in BOOLEAN : b = (torn[u] \/ half)
    BY <1>h
  <2>4. /\ file \in Seq(Cell)
        /\ ~b => ~torn[u] /\ ~half
        /\ ~b => Holds(file, stored[u])
        /\ ~b /\ s.rec = "file" => Len(file) > 0
    <3>0. ~b => ~torn[u] /\ ~half
      BY <2>b, <1>h
    <3>1. CASE ~half /\ s.rec = "file" /\ ~Known(u)
      BY <3>0, <3>1, <2>3, <1>h, HoldsCreated
    <3>2. CASE ~half /\ ~(s.rec = "file" /\ ~Known(u))
      <4>1. file = disk[u]
        BY <3>2, <2>3
      <4> QED BY <4>1, <3>0, <3>2, <2>2, <1>h
    <3>3. CASE half
      <4>1. file \in Seq(Cell)
        BY <3>3, <2>3 DEF HalfHeader, Cell
      <4> QED BY <4>1, <3>0, <3>3
    <3> QED BY <3>1, <3>2, <3>3
  <2>5. /\ units'[u].rec = s.rec
        /\ \A w \in Unit : w # u => units'[w] = units[w]
    <3>1. units' = [units EXCEPT ![u] = [s EXCEPT !.frames = @ + 1, !.subs = {v \in @ : views[u][v].held}]]
      BY <2>1, <2>2
    <3> QED BY <3>1, <1>t DEF Session
  <2>6. CASE s.rec = "file"
    <3>1. /\ disk' = [disk EXCEPT ![u] = file \o Encoded(f)]
          /\ stored' = [stored EXCEPT ![u] = Append(stored[u], f)]
          /\ torn' = [torn EXCEPT ![u] = b]
      BY <2>1, <2>2, <2>3, <2>b, <2>6, <1>h
    <3>2. /\ file \o Encoded(f) \in Seq(Cell) /\ Append(stored[u], f) \in Seq(UnitFrame)
      BY <2>4, <1>h, EncodedCells
    <3>3. ~b => Holds(file \o Encoded(f), Append(stored[u], f)) /\ Len(file \o Encoded(f)) > 0
      BY <2>4, <2>6, <1>h, HoldsMore
    <3> QED BY <3>1, <3>2, <3>3, <2>5, <1>h, <1>0, RecordsStep
  <2>7. CASE s.rec # "file"
    <3>1. /\ disk' = [disk EXCEPT ![u] = file]
          /\ stored' = [stored EXCEPT ![u] = stored[u]]
          /\ torn' = [torn EXCEPT ![u] = b]
      BY <2>1, <2>2, <2>3, <2>b, <2>7, <1>h
    <3> QED BY <3>1, <2>4, <2>5, <2>7, <1>h, <1>0, RecordsStep
  <2> QED BY <2>6, <2>7
<1>7. ASSUME NEW u \in Unit, NEW f \in UnitFrame, IngestFails(u, f) PROVE RecordInv'
  <2>1. PICK file : file = IF Known(u) THEN disk[u] ELSE Created(disk[u])
    OBVIOUS
  <2>2. PICK k \in Nat :
          /\ disk' = [disk EXCEPT ![u] = file \o SubSeq(Encoded(f), 1, k)]
          /\ torn' = [torn EXCEPT ![u] = torn[u] \/ k > 0]
          /\ k <= f.len
    <3>1. PICK k \in 0 .. (IF f.len > MaxPayload THEN 0 ELSE f.len) :
              /\ disk' = [disk EXCEPT ![u] = file \o SubSeq(Encoded(f), 1, k)]
              /\ torn' = [torn EXCEPT ![u] = @ \/ k > 0]
      BY <1>7, <2>1 DEF IngestFails
    <3>2. k \in Nat /\ k <= f.len
      BY <3>1, EncodedCells
    <3> QED BY <3>1, <3>2, <1>t
  <2>3. /\ units' = [units EXCEPT ![u] = Provisioned(u, "file")] /\ stored' = stored
        /\ Provisioned(u, "file").rec = "file"
    BY <1>7 DEF IngestFails
  <2>4. Known(u) => units[u].rec = "file"
    BY <2>3 DEF Provisioned
  <2>5. /\ file \in Seq(Cell)
        /\ ~torn[u] => Holds(file, stored[u])
        /\ ~torn[u] => Len(file) > 0
    <3>1. CASE Known(u)
      BY <3>1, <2>1, <2>4, <1>h
    <3>2. CASE ~Known(u)
      BY <3>2, <2>1, <1>h, HoldsCreated
    <3> QED BY <3>1, <3>2
  <2>6. PICK e \in Seq(Cell) : e = Encoded(f) /\ Len(e) = f.len + 1 /\ f.len \in Nat
    BY EncodedCells
  <2>7. /\ file \o SubSeq(e, 1, k) \in Seq(Cell)
        /\ ~(k > 0) => file \o SubSeq(e, 1, k) = file
    <3>1. SubSeq(e, 1, k) \in Seq(Cell) /\ (~(k > 0) => SubSeq(e, 1, k) = << >>)
      BY <2>2, <2>6
    <3> QED BY <3>1, <2>5
  <2>8. PICK b \in BOOLEAN : b = (torn[u] \/ k > 0)
    BY <1>h
  <2>9. PICK more \in Seq(Cell) : more = file \o SubSeq(e, 1, k)
    BY <2>7
  <2>10. /\ ~b => ~torn[u] /\ more = file
    BY <2>7, <2>8, <2>9
  <2>11. ~b => Holds(more, stored[u]) /\ Len(more) > 0
    BY <2>10, <2>5
  <2>12. /\ disk' = [disk EXCEPT ![u] = more] /\ torn' = [torn EXCEPT ![u] = b]
         /\ stored' = [stored EXCEPT ![u] = stored[u]]
    BY <2>2, <2>3, <2>6, <2>8, <2>9, <1>h
  <2>13. \A w \in Unit : w # u => units'[w] = units[w]
    BY <2>3, <1>t
  <2> QED BY <2>11, <2>12, <2>13, <1>h, <1>0, RecordsStep
<1>8. ASSUME NEW u \in Unit, AttachSubscriber(u) PROVE RecordInv'
  <2>1. /\ Known(u) /\ disk' = disk /\ stored' = stored /\ torn' = torn
        /\ units' = [units EXCEPT ![u] = [units[u] EXCEPT !.subs = @ \cup {units[u].next}, !.next = @ + 1]]
    BY <1>8 DEF AttachSubscriber
  <2>2. units'[u].rec = units[u].rec /\ \A w \in Unit : w # u => units'[w] = units[w]
    BY <2>1, <1>t, <1>s DEF Session
  <2> QED BY <2>1, <2>2, <1>3
<1>9. ASSUME NEW u \in Unit, NEW v \in Viewer, Unsubscribe(u, v) PROVE RecordInv'
  <2>1. /\ Known(u) /\ disk' = disk /\ stored' = stored /\ torn' = torn
        /\ units' = [units EXCEPT ![u] = [units[u] EXCEPT !.subs = @ \ {v}]]
    BY <1>9 DEF Unsubscribe
  <2>2. units'[u].rec = units[u].rec /\ \A w \in Unit : w # u => units'[w] = units[w]
    BY <2>1, <1>t, <1>s DEF Session
  <2> QED BY <2>1, <2>2, <1>3
<1>10. ASSUME NEW u \in Unit, NEW v \in Viewer, LetGo(u, v) \/ View(u, v) PROVE RecordInv'
  <2>1. units' = units /\ disk' = disk /\ stored' = stored /\ torn' = torn
    BY <1>10 DEF LetGo, View
  <2>2. ASSUME NEW w \in Unit
        PROVE  units'[w] = Nobody \/ units'[w].rec # "file" \/ (Known(w) /\ units'[w].rec = units[w].rec)
    BY <2>1 DEF Known
  <2> QED BY <2>1, <2>2, <1>0, RecordsKeep
<1>11. ASSUME NEW u \in Unit, CreateFails(u) PROVE RecordInv'
  <2>1. HalfHeader \in Seq(Cell)
    BY DEF HalfHeader, Cell
  <2>2. /\ disk' = [disk EXCEPT ![u] = HalfHeader] /\ torn' = [torn EXCEPT ![u] = TRUE]
        /\ stored' = stored /\ units' = units
    BY <1>11 DEF CreateFails
  <2> QED BY <2>1, <2>2, <1>h, <1>0, RecordsStep
<1> QED BY <1>1, <1>2, <1>4, <1>5, <1>6, <1>7, <1>8, <1>9, <1>10, <1>11 DEF FleetNext

\* For any units, frames and payloads, over restarts that append to a file,
\* payloads that are refused and disks that take nothing of a frame: what
\* read_frames (recorder.rs) reads of a recording that no half-written frame
\* tore is exactly the frames that were recorded, in their order.
THEOREM RecordingReadsBackAlways == FleetSpec => []RecordingReadsBack
<1>1. FleetInit => RecordInv
  <2> SUFFICES ASSUME FleetInit PROVE RecordInv
    OBVIOUS
  <2>1. FleetTypes
    BY DEF FleetInit, FleetTypes
  <2>2. CommandInv
    BY <2>1 DEF FleetInit, CommandInv, SessionReplays, Known
  <2>3. << >> \in Seq(Cell) /\ << >> \in Seq(UnitFrame) /\ Len(<< >>) = 0
    OBVIOUS
  <2>4. FileTypes
    BY <2>3 DEF FleetInit, FileTypes
  <2>5. ASSUME NEW u \in Unit PROVE Records(u)
    <3>1. ~Known(u) /\ disk[u] = << >> /\ stored[u] = << >>
      BY DEF FleetInit, Known
    <3> QED BY <3>1, <2>3 DEF Records, Holds
  <2> QED BY <2>2, <2>4, <2>5 DEF RecordInv
<1>2. RecordInv /\ [FleetNext]_fleetVars => RecordInv'
  <2>1. RecordInv /\ UNCHANGED fleetVars => RecordInv'
    <3> SUFFICES ASSUME RecordInv, UNCHANGED fleetVars PROVE RecordInv'
      OBVIOUS
    <3>1. CommandInv'
      BY DEF RecordInv, CommandInv, FleetTypes, SessionReplays, Known, fleetVars
    <3>2. units' = units /\ disk' = disk /\ stored' = stored /\ torn' = torn
      BY DEF fleetVars
    <3>3. ASSUME NEW w \in Unit
          PROVE  units'[w] = Nobody \/ units'[w].rec # "file" \/ (Known(w) /\ units'[w].rec = units[w].rec)
      BY <3>2 DEF Known
    <3> QED BY <3>1, <3>2, <3>3, RecordsKeep
  <2> QED BY <2>1, RecordStep
<1>3. RecordInv => RecordingReadsBack
  <2> SUFFICES ASSUME RecordInv, NEW u \in Unit, ~torn[u]
      PROVE  ReadFrames(disk[u]) = stored[u]
    BY DEF RecordingReadsBack
  <2>1. disk[u] \in Seq(Cell) /\ stored[u] \in Seq(UnitFrame) /\ Holds(disk[u], stored[u])
    BY DEF RecordInv, FileTypes, Records
  <2> QED BY <2>1, HoldsReads
<1> QED BY <1>1, <1>2, <1>3, PTL DEF FleetSpec

-----------------------------------------------------------------------------
(* The server.                                                             *)

\* A step of the server is a step of the fleet, or leaves it alone.
LEMMA ServerStepsFleet ==
    ASSUME ServerNext
    PROVE  FleetNext \/ UNCHANGED fleetVars
<1>1. ASSUME NEW tool, NEW u \in Unit, Perform(tool, u) PROVE FleetNext \/ UNCHANGED fleetVars
  <2>1. "Auto" \in Mode /\ "FullTeleop" \in Mode
    BY DEF Mode
  <2> QED BY <1>1, <2>1 DEF Perform, FleetNext
<1>2. ASSUME NEW c \in Client, ServeConn(c) PROVE FleetNext \/ UNCHANGED fleetVars
  <2>1. CASE ServeDrop(c) \/ ServePartial(c) \/ Refused(c) \/ \E u \in Unit, cred \in Cred : Handshake(c, u, cred)
    BY <2>1 DEF ServeDrop, ServePartial, Refused, Handshake
  <2>2. ASSUME NEW u \in Unit, NEW cred, NEW tool, ApiCall(c, tool, u, cred) \/ McpCall(c, tool, u, cred)
        PROVE  FleetNext \/ UNCHANGED fleetVars
    BY <2>2, <1>1 DEF ApiCall, McpCall
  <2> QED BY <1>2, <2>1, <2>2 DEF ServeConn
<1>3. ASSUME NEW u \in Unit, Register(u) PROVE FleetNext
  BY <1>3 DEF Register, FleetNext, RecorderKind
<1>4. Dispatch \/ Pump \/ RegisterAndSweep \/ Tick => UNCHANGED fleetVars
  BY DEF Dispatch, Pump, RegisterAndSweep, Tick
<1>5. ASSUME NEW c \in Client, Connect(c) \/ SendPiece(c) \/ HangUp(c) PROVE UNCHANGED fleetVars
  BY <1>5 DEF Connect, SendPiece, HangUp
<1> QED BY <1>2, <1>3, <1>4, <1>5 DEF ServerNext, Server

\* The server is an implementation of the fleet: whatever the requests of its
\* clients are and in whatever order their connections are served, it drives the
\* fleet by the fleet's own operations only, so what is proved of FleetSpec holds
\* under it.
THEOREM ServerImplementsFleet == ServerSpec => FleetSpec
<1>1. ServerInit => FleetInit
  BY DEF ServerInit
<1>2. [ServerNext]_allVars => [FleetNext]_fleetVars
  BY ServerStepsFleet DEF allVars
<1> QED BY <1>1, <1>2, PTL DEF ServerSpec, FleetSpec

\* Who passes the gate is enrolled with a role that grants the permission.
LEMMA GatePasses ==
    ASSUME NEW tool \in ApiAction \cup McpTool, NEW cred, gated,
           RequireAuth(cred, tool) = 200 \/ (Authenticated(cred) /\ Authorized(cred, tool))
    PROVE  /\ cred \in DOMAIN Enrolled
           /\ Enrolled[cred] \in DOMAIN Grants
           /\ DispatchPermission[tool] \in Grants[Enrolled[cred]]
<1>1. Authorized(cred, tool)
  BY DEF RequireAuth
<1> QED BY <1>1, RoleAssumption DEF Authorized, Authenticated, Verified, PrincipalRole

\* Which roles grant what (auth.rs).
LEMMA GateRoles ==
    ASSUME NEW role \in DOMAIN Grants
    PROVE  /\ "ManageFleet" \in Grants[role] => role = "Admin"
           /\ \A p \in {"EngageAutonomy", "TakeManualControl", "SendControl"} :
                 p \in Grants[role] => role \in {"Operator", "AiAgent", "Admin"}
           /\ "TakeManualControl" \in Grants[role] => role # "AiAgent"
<1>1. role \in {"Guest", "Observer", "Operator", "AiAgent", "Admin"}
  BY DEF Grants
<1>2. /\ Grants["Guest"] = {} /\ Grants["Observer"] = {"ViewTelemetry", "AuditLog"}
      /\ Grants["Operator"] = {"ViewTelemetry", "SendControl", "EngageAutonomy", "TakeManualControl"}
      /\ Grants["AiAgent"] = {"ViewTelemetry", "SendControl", "EngageAutonomy"}
  BY DEF Grants
<1>3. CASE role = "Guest"
  BY <1>2, <1>3
<1>4. CASE role = "Observer"
  BY <1>2, <1>4
<1>5. CASE role = "Operator"
  BY <1>2, <1>5
<1>6. CASE role = "AiAgent"
  BY <1>2, <1>6
<1> QED BY <1>1, <1>3, <1>4, <1>5, <1>6

\* With authentication on, a request changes the mode of a unit only for an
\* enrolled operator, agent or administrator, and its operator only for an
\* administrator, on every path to a mutation: the HTTP routes and the tools
\* of the MCP endpoint (server.rs, mcp.rs, auth.rs).  An agent takes manual
\* control by none of them but POST /command.
THEOREM GatedMutationAlways == ServerSpec => GatedMutation
<1> DEFINE Gate == gated =>
          \A u \in {w \in Unit : Known(w)} :
             /\ units'[u].mode # units[u].mode =>
                   /\ served'.by \in DOMAIN Enrolled
                   /\ Enrolled[served'.by] \in {"Operator", "AiAgent", "Admin"}
                   /\ units'[u].mode = "FullTeleop" /\ served'.tool # "send_control" =>
                         Enrolled[served'.by] # "AiAgent"
             /\ units'[u].operator # units[u].operator =>
                   served'.by \in DOMAIN Enrolled /\ Enrolled[served'.by] = "Admin"
<1>1. FleetSpec => []CommandInv
  <2>1. FleetInit => CommandInv
    <3> SUFFICES ASSUME FleetInit PROVE CommandInv
      OBVIOUS
    <3>1. FleetTypes
      BY DEF FleetInit, FleetTypes
    <3> QED BY <3>1 DEF FleetInit, CommandInv, SessionReplays, Known
  <2>2. CommandInv /\ [FleetNext]_fleetVars => CommandInv'
    <3>1. CommandInv /\ UNCHANGED fleetVars => CommandInv'
      BY DEF CommandInv, FleetTypes, SessionReplays, Known, fleetVars
    <3> QED BY <3>1, FleetStep
  <2> QED BY <2>1, <2>2, PTL DEF FleetSpec
<1>2. CommandInv /\ ServerNext => Gate
  <2> SUFFICES ASSUME CommandInv, ServerNext, gated, NEW w \in Unit, Known(w)
      PROVE  /\ units'[w].mode # units[w].mode =>
                   /\ served'.by \in DOMAIN Enrolled
                   /\ Enrolled[served'.by] \in {"Operator", "AiAgent", "Admin"}
                   /\ units'[w].mode = "FullTeleop" /\ served'.tool # "send_control" =>
                         Enrolled[served'.by] # "AiAgent"
             /\ units'[w].operator # units[w].operator =>
                   served'.by \in DOMAIN Enrolled /\ Enrolled[served'.by] = "Admin"
    OBVIOUS
  <2>t. units \in [Unit -> Session \cup {Nobody}] /\ units[w] \in Session
    BY DEF CommandInv, FleetTypes, Known
  <2>1. CASE UNCHANGED fleetVars
    BY <2>1 DEF fleetVars
  <2>2. ASSUME NEW u \in Unit, Register(u) PROVE units'[w] = units[w]
    BY <2>2, <2>t DEF Register, RegisterUnit, Known
  <2>3. ASSUME NEW c \in Client, NEW u \in Unit, NEW cred, NEW tool \in ApiAction \cup McpTool,
               RequireAuth(cred, tool) = 200 \/ (Authenticated(cred) /\ Authorized(cred, tool)),
               Perform(tool, u), served' = [by |-> cred, tool |-> tool]
        PROVE  /\ units'[w].mode # units[w].mode =>
                       /\ served'.by \in DOMAIN Enrolled
                       /\ Enrolled[served'.by] \in {"Operator", "AiAgent", "Admin"}
                       /\ units'[w].mode = "FullTeleop" /\ served'.tool # "send_control" =>
                           Enrolled[served'.by] # "AiAgent"
               /\ units'[w].operator # units[w].operator =>
                     served'.by \in DOMAIN Enrolled /\ Enrolled[served'.by] = "Admin"
    <3>0. served'.by = cred /\ served'.tool = tool
      BY <2>3
    <3>1. /\ cred \in DOMAIN Enrolled
          /\ Enrolled[cred] \in DOMAIN Grants
          /\ DispatchPermission[tool] \in Grants[Enrolled[cred]]
      BY <2>3, GatePasses
    <3>2. /\ "ManageFleet" \in Grants[Enrolled[cred]] => Enrolled[cred] = "Admin"
          /\ \A p \in {"EngageAutonomy", "TakeManualControl", "SendControl"} :
                p \in Grants[Enrolled[cred]] => Enrolled[cred] \in {"Operator", "AiAgent", "Admin"}
          /\ "TakeManualControl" \in Grants[Enrolled[cred]] => Enrolled[cred] # "AiAgent"
      BY <3>1, GateRoles
    <3>3. CASE tool = "list_units"
      BY <2>3, <3>3 DEF Perform, fleetVars
    <3>4. CASE tool = "assign_unit"
      <4>1. Enrolled[cred] = "Admin"
        BY <3>1, <3>2, <3>4 DEF DispatchPermission
      <4>2. PICK op \in FleetOperator : units' = [units EXCEPT ![u].operator = op]
        BY <2>3, <3>4 DEF Perform, Assign
      <4>3. units'[w].mode = units[w].mode
        <5>1. CASE w = u BY <4>2, <5>1, <2>t DEF Session
        <5>2. CASE w # u BY <4>2, <5>2, <2>t
        <5> QED BY <5>1, <5>2
      <4> QED BY <4>1, <4>3, <3>0, <3>1
    <3>5. CASE tool \in {"engage_autonomy", "take_manual_control", "send_control"}
      <4>1. Enrolled[cred] \in {"Operator", "AiAgent", "Admin"}
        BY <3>1, <3>2, <3>5 DEF DispatchPermission
      <4>2. PICK t \in Mode : /\ SetMode(u, t)
                              /\ tool = "engage_autonomy" => t = "Auto"
        BY <2>3, <3>5 DEF Perform, Mode
      <4>3. PICK n, m : /\ units' = [units EXCEPT ![u] = [units[u] EXCEPT !.cmdSeq = n, !.mode = m]]
                        /\ m \in {units[u].mode, "Assist", t}
        <5> DEFINE path == PathVia(units[u].mode, t)
        <5>1. PICK k \in 0 .. Len(path) :
                  units' = [units EXCEPT ![u].cmdSeq = units[u].cmdSeq + k,
                                         ![u].mode = IF k = 0 THEN @ ELSE path[k]]
          BY <4>2 DEF SetMode, SendOutcome
        <5>3. k # 0 => path[k] \in {"Assist", t}
          BY <5>1 DEF PathVia
        <5> HIDE DEF path
        <5>2. units' = [units EXCEPT ![u] = [units[u] EXCEPT !.cmdSeq = units[u].cmdSeq + k,
                                                !.mode = IF k = 0 THEN units[u].mode ELSE path[k]]]
          <6>1. units[u] \in Session
            BY <2>t, <4>2 DEF SetMode, Known
          <6> QED BY <5>1, <6>1, <2>t
        <5> QED BY <5>2, <5>3
      <4>4. units'[w].operator = units[w].operator
        <5>1. CASE w = u BY <4>3, <5>1, <2>t DEF Session
        <5>2. CASE w # u BY <4>3, <5>2, <2>t
        <5> QED BY <5>1, <5>2
      <4>5. ASSUME units'[w].mode # units[w].mode, units'[w].mode = "FullTeleop",
                   tool # "send_control"
            PROVE  Enrolled[cred] # "AiAgent"
        <5>1. CASE tool = "take_manual_control"
          BY <5>1, <3>1, <3>2 DEF DispatchPermission
        <5>2. CASE tool = "engage_autonomy"
          <6>1. w = u
            BY <4>5, <4>3, <2>t
          <6>2. units'[w].mode \in {units[w].mode, "Assist", "Auto"}
            BY <6>1, <5>2, <4>2, <4>3, <2>t DEF Session
          <6> QED BY <6>2, <4>5
        <5> QED BY <5>1, <5>2, <4>5, <3>5
      <4> QED BY <4>1, <4>4, <4>5, <3>0, <3>1
    <3> QED BY <3>3, <3>4, <3>5 DEF ApiAction, McpTool
  <2>4. ASSUME NEW c \in Client, ServeConn(c)
        PROVE  \/ UNCHANGED fleetVars
               \/ \E u \in Unit, cred \in Cred \cup {NoCred}, tool \in ApiAction \cup McpTool :
                     /\ RequireAuth(cred, tool) = 200 \/ (Authenticated(cred) /\ Authorized(cred, tool))
                     /\ Perform(tool, u) /\ served' = [by |-> cred, tool |-> tool]
    <3>1. CASE ServeDrop(c) \/ ServePartial(c) \/ Refused(c) \/ \E u \in Unit, cred \in Cred : Handshake(c, u, cred)
      BY <3>1 DEF ServeDrop, ServePartial, Refused, Handshake
    <3>2. CASE \E u \in Unit, cred \in Cred \cup {NoCred} :
                  \/ \E tool \in ApiAction : ApiCall(c, tool, u, cred)
                  \/ \E tool \in McpTool : McpCall(c, tool, u, cred)
      BY <3>2 DEF ApiCall, McpCall
    <3> QED BY <2>4, <3>1, <3>2 DEF ServeConn
  <2>5. Dispatch \/ Pump \/ RegisterAndSweep \/ Tick => UNCHANGED fleetVars
    BY DEF Dispatch, Pump, RegisterAndSweep, Tick
  <2>6. ASSUME NEW c \in Client, Connect(c) \/ SendPiece(c) \/ HangUp(c) PROVE UNCHANGED fleetVars
    BY <2>6 DEF Connect, SendPiece, HangUp
  <2> QED BY <2>1, <2>2, <2>3, <2>4, <2>5, <2>6 DEF ServerNext, Server
<1>3. CommandInv /\ [ServerNext]_allVars => [Gate]_allVars
  BY <1>2
<1> QED BY <1>1, <1>3, ServerImplementsFleet, PTL DEF ServerSpec, GatedMutation

-----------------------------------------------------------------------------
(* The connections.                                                        *)

\* A client as the server's socket sees it, and an entry of the table.
ClientState ==
    [st : {"idle", "queued", "open", "answered", "closed"}, sent : Nat, unread : Nat, eof : BOOLEAN]
Conn == [got : Nat, age : Nat, registered : BOOLEAN, open : BOOLEAN]

\* The clients, the table of connections and the kernel's backlog.
ServerTypes ==
    /\ client \in [Client -> ClientState]
    /\ conns \in [Client -> Conn]
    /\ backlog \in Seq(Client)

\* The kernel holds a client once, and the clients it holds are the queued ones.
BacklogOnce ==
    /\ \A i, j \in 1 .. Len(backlog) : backlog[i] = backlog[j] => i = j
    /\ \A c \in Client : client[c].st = "queued" <=> \E i \in 1 .. Len(backlog) : backlog[i] = c

\* The table holds the open clients.
TableOpen == \A c \in Client : conns[c].open <=> client[c].st = "open"

\* The limit on open connections holds.
WithinCap == IsFiniteSet(Open) /\ (MaxConns > 0 => Cardinality(Open) <= MaxConns)

\* The inductive invariant for ConnsAccounted.
ConnInv == ServerTypes /\ BacklogOnce /\ TableOpen /\ WithinCap

\* The first n elements of a sequence are at most n.
LEMMA TakenBound ==
    ASSUME NEW S, NEW s \in Seq(S), NEW n \in Nat, n <= Len(s)
    PROVE  /\ IsFiniteSet({s[i] : i \in 1 .. n})
           /\ Cardinality({s[i] : i \in 1 .. n}) <= n
<1> DEFINE T == {s[i] : i \in 1 .. n}
           f == [i \in 1 .. n |-> s[i]]
<1>1. f \in Surjection(1 .. n, T)
  BY DEF Surjection
<1>2. IsFiniteSet(1 .. n) /\ Cardinality(1 .. n) = n
  <2>1. IsFiniteSet(1 .. n) /\ Cardinality(1 .. n) = IF 1 > n THEN 0 ELSE n - 1 + 1
    BY FS_Interval
  <2> QED BY <2>1
<1> HIDE DEF T, f
<1>3. IsFiniteSet(T) /\ Cardinality(T) <= Cardinality(1 .. n)
  BY <1>1, <1>2, FS_Surjection
<1> QED BY <1>2, <1>3 DEF T

\* Fewer are open: the cap still holds.
LEMMA FewerOpen ==
    ASSUME WithinCap, {c \in Client : conns'[c].open} \subseteq Open
    PROVE  WithinCap'
<1>1. Open' = {c \in Client : conns'[c].open}
  BY DEF Open
<1>2. PICK S, T : S = Open /\ T = Open'
  OBVIOUS
<1>3. IsFiniteSet(S) /\ T \in SUBSET S
  BY <1>1, <1>2 DEF WithinCap
<1>4. IsFiniteSet(T) /\ Cardinality(T) <= Cardinality(S)
  BY <1>3, FS_Subset
<1>5. Cardinality(S) \in Nat /\ Cardinality(T) \in Nat
  BY <1>3, <1>4, FS_CardinalityType
<1>6. MaxConns > 0 => Cardinality(S) <= MaxConns
  BY <1>2 DEF WithinCap
<1>7. MaxConns > 0 => Cardinality(T) <= MaxConns
  BY <1>4, <1>5, <1>6, ServerAssumption
<1> QED BY <1>2, <1>4, <1>7 DEF WithinCap

\* try_accept takes clients off the backlog up to the limit, and closes the one
\* beyond it.
LEMMA Accepting ==
    ASSUME ConnInv, TryAccept
    PROVE  ConnInv'
<1> DEFINE taken == {backlog[i] : i \in 1 .. Room}
           refused == {backlog[i] : i \in {Room + 1} \cap DOMAIN backlog}
<1>t. /\ client \in [Client -> ClientState] /\ conns \in [Client -> Conn]
      /\ backlog \in Seq(Client) /\ Len(backlog) \in Nat /\ DOMAIN backlog = 1 .. Len(backlog)
  BY DEF ConnInv, ServerTypes
<1>c. Cardinality(Open) \in Nat /\ IsFiniteSet(Open)
  BY FS_CardinalityType DEF ConnInv, WithinCap
<1>r. /\ Room \in Nat /\ Room <= Len(backlog)
      /\ MaxConns > 0 => Cardinality(Open) + Room <= MaxConns
  BY <1>t, <1>c, ServerAssumption DEF Room, ConnInv, WithinCap
<1>1. /\ conns' = [c \in Client |-> IF c \in taken THEN [NoConn EXCEPT !.open = TRUE] ELSE conns[c]]
      /\ client' = [c \in Client |->
              IF c \in taken THEN [client[c] EXCEPT !.st = "open"]
              ELSE IF c \in refused THEN [client[c] EXCEPT !.st = "closed"] ELSE client[c]]
      /\ backlog' = SubSeq(backlog, Room + 2, Len(backlog))
  BY DEF TryAccept
<1>2. PICK r \in Nat : r = Room /\ r <= Len(backlog)
  BY <1>r
<1>3. /\ backlog' \in Seq(Client) /\ Len(backlog') = IF r + 2 <= Len(backlog) THEN Len(backlog) - r - 1 ELSE 0
      /\ \A i \in 1 .. Len(backlog') : backlog'[i] = backlog[r + 1 + i]
  <2>1. PICK b \in Seq(Client) : b = backlog
    BY <1>t
  <2>2. Len(b) \in Nat /\ r + 2 \in Int /\ \A i \in r + 2 .. Len(b) : b[i] \in Client
    <3>1. \A i \in r + 2 .. Len(b) : i \in 1 .. Len(b)
      BY <1>t, <2>1
    <3> QED BY <3>1, <1>t, <2>1, ElementOfSeq
  <2>3. /\ SubSeq(b, r + 2, Len(b)) \in Seq(Client)
        /\ Len(SubSeq(b, r + 2, Len(b))) = IF r + 2 <= Len(b) THEN Len(b) - (r + 2) + 1 ELSE 0
        /\ \A i \in 1 .. Len(b) - (r + 2) + 1 : SubSeq(b, r + 2, Len(b))[i] = b[(r + 2) + i - 1]
    BY <2>2, SubSeqProperties
  <2>4. PICK d : d = SubSeq(b, r + 2, Len(b))
    OBVIOUS
  <2>5. /\ d \in Seq(Client) /\ Len(d) = IF r + 2 <= Len(b) THEN Len(b) - r - 1 ELSE 0
        /\ \A i \in 1 .. Len(b) - (r + 2) + 1 : d[i] = b[(r + 2) + i - 1]
    BY <2>2, <2>3, <2>4
  <2>6. ASSUME NEW i \in 1 .. Len(d) PROVE d[i] = b[r + 1 + i]
    <3>1. i \in 1 .. Len(b) - (r + 2) + 1 /\ (r + 2) + i - 1 = r + 1 + i
      BY <2>2, <2>5
    <3> QED BY <3>1, <2>5
  <2>7. backlog' = d
    BY <1>1, <1>2, <2>1, <2>4
  <2> QED BY <2>1, <2>5, <2>6, <2>7
<1>4. ASSUME NEW i \in 1 .. Len(backlog') PROVE r + 1 + i \in 1 .. Len(backlog)
  <2>1. PICK n, l : n = Len(backlog) /\ l = Len(backlog')
    OBVIOUS
  <2>2. n \in Nat /\ l = (IF r + 2 <= n THEN n - r - 1 ELSE 0) /\ i \in 1 .. l
    BY <2>1, <1>3, <1>t
  <2>3. r + 1 + i \in 1 .. n
    BY <2>2
  <2> QED BY <2>1, <2>3
<1>5. /\ taken = {backlog[i] : i \in 1 .. r} /\ taken \subseteq Client
      /\ \A c \in refused : r + 1 \in 1 .. Len(backlog) /\ c = backlog[r + 1]
      /\ r + 1 \in 1 .. Len(backlog) => backlog[r + 1] \in refused
  <2>1. \A i \in 1 .. r : backlog[i] \in Client
    <3>1. \A i \in 1 .. r : i \in 1 .. Len(backlog)
      BY <1>2, <1>t
    <3> QED BY <3>1, <1>t, ElementOfSeq
  <2> QED BY <1>2, <1>t, <2>1
<1>6. \A c \in Client : /\ c \in taken => client[c].st = "queued"
                        /\ c \in refused => client[c].st = "queued"
  <2>1. \A i \in 1 .. r : i \in 1 .. Len(backlog)
    BY <1>2, <1>t
  <2> QED BY <1>5, <2>1 DEF ConnInv, BacklogOnce
<1> HIDE DEF taken, refused
<1>7. [NoConn EXCEPT !.open = TRUE] \in Conn /\ [NoConn EXCEPT !.open = TRUE].open
  <2>1. NoConn \in Conn
    BY DEF NoConn, Conn
  <2>2. ASSUME NEW x \in Conn PROVE [x EXCEPT !.open = TRUE] \in Conn /\ [x EXCEPT !.open = TRUE].open
    BY DEF Conn
  <2> QED BY <2>1, <2>2
<1>8. ASSUME NEW c \in Client
      PROVE  /\ client'[c] \in ClientState /\ conns'[c] \in Conn
             /\ client'[c].st = IF c \in taken THEN "open" ELSE IF c \in refused THEN "closed" ELSE client[c].st
             /\ conns'[c].open <=> c \in taken \/ conns[c].open
  <2>1. client'[c] = IF c \in taken THEN [client[c] EXCEPT !.st = "open"]
              ELSE IF c \in refused THEN [client[c] EXCEPT !.st = "closed"] ELSE client[c]
    BY <1>1
  <2>2. client[c] \in ClientState
    BY <1>t
  <2>3. ASSUME NEW x \in ClientState, NEW z \in {"open", "closed"}
        PROVE  [x EXCEPT !.st = z] \in ClientState /\ [x EXCEPT !.st = z].st = z
    BY DEF ClientState
  <2>4. /\ client'[c] \in ClientState
        /\ client'[c].st = IF c \in taken THEN "open" ELSE IF c \in refused THEN "closed" ELSE client[c].st
    BY <2>1, <2>2, <2>3
  <2>5. conns'[c] = IF c \in taken THEN [NoConn EXCEPT !.open = TRUE] ELSE conns[c]
    BY <1>1
  <2>6. conns'[c] \in Conn /\ (conns'[c].open <=> c \in taken \/ conns[c].open)
    BY <2>5, <1>7, <1>t, Zenon
  <2> QED BY <2>4, <2>6
<1>9. ServerTypes'
  <2>1. client' \in [Client -> {client'[c] : c \in Client}] /\ conns' \in [Client -> {conns'[c] : c \in Client}]
    BY <1>1
  <2> QED BY <2>1, <1>8, <1>3 DEF ServerTypes
<1>10. TableOpen'
  <2>1. ASSUME NEW c \in Client PROVE conns'[c].open <=> client'[c].st = "open"
    <3>1. conns[c].open <=> client[c].st = "open"
      BY DEF ConnInv, TableOpen
    <3> QED BY <3>1, <1>6, <1>8
  <2> QED BY <2>1 DEF TableOpen
<1>11. BacklogOnce'
  <2>1. ASSUME NEW i \in 1 .. Len(backlog'), NEW j \in 1 .. Len(backlog'), backlog'[i] = backlog'[j]
        PROVE  i = j
    <3>1. backlog[r + 1 + i] = backlog[r + 1 + j]
      BY <1>3, <2>1
    <3>2. r + 1 + i = r + 1 + j
      BY <3>1, <1>4 DEF ConnInv, BacklogOnce
    <3>3. Len(backlog') \in Nat
      BY <1>3
    <3> QED BY <3>2, <3>3
  <2>2. ASSUME NEW c \in Client
        PROVE  client'[c].st = "queued" <=> \E i \in 1 .. Len(backlog') : backlog'[i] = c
    <3>1. client'[c].st = "queued" <=> c \notin taken /\ c \notin refused /\ client[c].st = "queued"
      BY <1>8
    <3>2. ASSUME client[c].st = "queued", c \notin taken, c \notin refused
          PROVE  \E i \in 1 .. Len(backlog') : backlog'[i] = c
      <4>1. PICK k \in 1 .. Len(backlog) : backlog[k] = c
        BY <3>2 DEF ConnInv, BacklogOnce
      <4>2. k \notin 1 .. r /\ k # r + 1
        BY <3>2, <4>1, <1>5
      <4>3. k - r - 1 \in 1 .. Len(backlog') /\ r + 1 + (k - r - 1) = k
        <5>1. k \in Nat /\ k >= r + 2 /\ k <= Len(backlog) /\ r + 2 <= Len(backlog)
          BY <4>2, <1>t
        <5>2. Len(backlog') = Len(backlog) - r - 1
          BY <5>1, <1>3
        <5> QED BY <5>1, <5>2, <1>t
      <4>4. backlog'[k - r - 1] = c
        BY <4>1, <4>3, <1>3
      <4> QED BY <4>3, <4>4
    <3>3. ASSUME NEW i \in 1 .. Len(backlog'), backlog'[i] = c
          PROVE  client[c].st = "queued" /\ c \notin taken /\ c \notin refused
      <4>1. r + 1 + i \in 1 .. Len(backlog) /\ backlog[r + 1 + i] = c
        BY <3>3, <1>3, <1>4
      <4>2. client[c].st = "queued"
        BY <4>1 DEF ConnInv, BacklogOnce
      <4>3. ASSUME NEW k \in 1 .. r + 1, k \in 1 .. Len(backlog), backlog[k] = c PROVE FALSE
        <5>1. k = r + 1 + i
          BY <4>1, <4>3 DEF ConnInv, BacklogOnce
        <5>2. Len(backlog') \in Nat
          BY <1>3
        <5> QED BY <5>1, <5>2
      <4>4. \A k \in 1 .. r : k \in 1 .. r + 1 /\ k \in 1 .. Len(backlog)
        BY <1>2, <1>t
      <4>5. r + 1 \in 1 .. r + 1
        OBVIOUS
      <4> QED BY <4>2, <4>3, <4>4, <4>5, <1>5
    <3> QED BY <3>1, <3>2, <3>3
  <2> QED BY <2>1, <2>2 DEF BacklogOnce
<1>12. WithinCap'
  <2>1. Open' = Open \cup taken
    BY <1>5, <1>8 DEF Open
  <2>2. PICK S, T : S = Open /\ T = taken
    OBVIOUS
  <2>3. IsFiniteSet(T) /\ Cardinality(T) <= r
    <3>1. PICK b \in Seq(Client) : b = backlog
      BY <1>t
    <3>2. T = {b[i] : i \in 1 .. r} /\ r <= Len(b)
      BY <2>2, <3>1, <1>2, <1>5
    <3> QED BY <3>2, TakenBound
  <2>4. IsFiniteSet(S) /\ Cardinality(S) \in Nat /\ Cardinality(T) \in Nat
    BY <1>c, <2>2, <2>3, FS_CardinalityType
  <2>5. /\ IsFiniteSet(S \cup T) /\ IsFiniteSet(S \cap T)
        /\ Cardinality(S \cup T) = Cardinality(S) + Cardinality(T) - Cardinality(S \cap T)
    <3>1. IsFiniteSet(S \cap T)
      BY <2>4, FS_Subset
    <3>2. IsFiniteSet(S \cup T) /\ Cardinality(S \cup T) = Cardinality(S) + Cardinality(T) - Cardinality(S \cap T)
      BY <2>3, <2>4, FS_Union
    <3> QED BY <3>1, <3>2
  <2>6. Cardinality(S \cap T) \in Nat
    BY <2>5, FS_CardinalityType
  <2>7. MaxConns > 0 => Cardinality(S \cup T) <= MaxConns
    <3>1. PICK a, b, m : a = Cardinality(S) /\ b = Cardinality(T) /\ m = Cardinality(S \cap T)
      OBVIOUS
    <3>2. /\ a \in Nat /\ b \in Nat /\ m \in Nat /\ b <= r /\ Cardinality(S \cup T) = a + b - m
          /\ MaxConns > 0 => a + r <= MaxConns
      BY <3>1, <2>2, <2>3, <2>4, <2>5, <2>6, <1>r, <1>2
    <3> QED BY <3>2, ServerAssumption
  <2> QED BY <2>1, <2>2, <2>5, <2>7 DEF WithinCap
<1> QED BY <1>9, <1>10, <1>11, <1>12 DEF ConnInv

\* Some connections end, and their clients with them; the backlog is not touched.
LEMMA ConnsEnd ==
    ASSUME ConnInv, backlog' = backlog,
           client' \in [Client -> ClientState], conns' \in [Client -> Conn],
           \A c \in Client :
              \/ client'[c].st = client[c].st /\ (conns'[c].open <=> conns[c].open)
              \/ /\ client[c].st = "open" /\ client'[c].st \in {"answered", "closed"}
                 /\ ~conns'[c].open
    PROVE  ConnInv'
<1>1. ServerTypes'
  BY DEF ConnInv, ServerTypes
<1>2. \A c \in Client : client'[c].st = "queued" <=> client[c].st = "queued"
  OBVIOUS
<1>3. BacklogOnce'
  BY <1>2 DEF ConnInv, BacklogOnce
<1>4. \A c \in Client : conns'[c].open <=> client'[c].st = "open"
  BY DEF ConnInv, TableOpen
<1>5. {c \in Client : conns'[c].open} \subseteq Open
  BY DEF Open
<1>6. WithinCap'
  BY <1>5, FewerOpen DEF ConnInv
<1> QED BY <1>1, <1>3, <1>4, <1>6 DEF ConnInv, TableOpen

\* Closing one connection, answered or not.
LEMMA ClosesOne ==
    ASSUME ConnInv, NEW c \in Client, conns[c].open, NEW how \in {"answered", "closed"},
           Close(c, how), backlog' = backlog
    PROVE  ConnInv'
<1>t. /\ client \in [Client -> ClientState] /\ conns \in [Client -> Conn] /\ client[c].st = "open"
  BY DEF ConnInv, ServerTypes, TableOpen
<1>1. NoConn \in Conn /\ ~NoConn.open
  BY DEF NoConn, Conn
<1>2. PICK x \in ClientState : x = client[c]
  BY <1>t
<1>3. [x EXCEPT !.st = how, !.unread = 0] \in ClientState /\ [x EXCEPT !.st = how, !.unread = 0].st = how
  BY DEF ClientState
<1>4. /\ client' = [client EXCEPT ![c] = [x EXCEPT !.st = how, !.unread = 0]]
      /\ conns' = [conns EXCEPT ![c] = NoConn]
  BY <1>2, <1>t DEF Close
<1>5. /\ client' \in [Client -> ClientState] /\ conns' \in [Client -> Conn]
      /\ client'[c].st = how /\ conns'[c] = NoConn
      /\ \A d \in Client : d # c => client'[d] = client[d] /\ conns'[d] = conns[d]
  BY <1>1, <1>3, <1>4, <1>t
<1>6. ASSUME NEW d \in Client
      PROVE  \/ client'[d].st = client[d].st /\ (conns'[d].open <=> conns[d].open)
             \/ /\ client[d].st = "open" /\ client'[d].st \in {"answered", "closed"}
                /\ ~conns'[d].open
  BY <1>1, <1>5, <1>t
<1> QED BY <1>5, <1>6, ConnsEnd

\* Every event of the server and of its clients keeps the table exact.
LEMMA ConnStep ==
    ASSUME ConnInv, ServerNext
    PROVE  ConnInv'
<1>t. /\ client \in [Client -> ClientState] /\ conns \in [Client -> Conn]
      /\ backlog \in Seq(Client) /\ Len(backlog) \in Nat
  BY DEF ConnInv, ServerTypes
<1>0. ASSUME client' = client, conns' = conns, backlog' = backlog PROVE ConnInv'
  BY <1>0 DEF ConnInv, ServerTypes, BacklogOnce, TableOpen, WithinCap, Open
<1>1. CASE Dispatch
  BY <1>1, <1>0, Accepting DEF Dispatch
<1>2. CASE Pump
  BY <1>2, Accepting DEF Pump
<1>3. CASE RegisterAndSweep
  <2>1. PICK failed \in SUBSET {c \in Open : ~conns[c].registered} :
          conns' = [c \in Client |->
             IF ~conns[c].open THEN conns[c]
             ELSE IF Idle(c) THEN NoConn
             ELSE [conns[c] EXCEPT !.registered = c \notin failed]]
    BY <1>3 DEF RegisterAndSweep
  <2>2. /\ client' = [c \in Client |->
              IF conns[c].open /\ ~conns'[c].open THEN [client[c] EXCEPT !.st = "closed"] ELSE client[c]]
        /\ backlog' = backlog
    BY <1>3 DEF RegisterAndSweep
  <2>3. NoConn \in Conn /\ ~NoConn.open
    BY DEF NoConn, Conn
  <2>4. ASSUME NEW c \in Client PROVE conns'[c] \in Conn /\ (conns'[c].open => conns[c].open)
    <3>1. PICK x \in Conn : x = conns[c]
      BY <1>t
    <3>2. ASSUME NEW z \in BOOLEAN
          PROVE  [x EXCEPT !.registered = z] \in Conn /\ ([x EXCEPT !.registered = z].open <=> x.open)
      BY DEF Conn
    <3>3. (c \notin failed) \in BOOLEAN
      OBVIOUS
    <3>4. conns'[c] = IF ~x.open THEN x ELSE IF Idle(c) THEN NoConn
                      ELSE [x EXCEPT !.registered = c \notin failed]
      BY <2>1, <3>1
    <3>5. [x EXCEPT !.registered = c \notin failed] \in Conn /\ ([x EXCEPT !.registered = c \notin failed].open <=> x.open)
      BY <3>2, <3>3
    <3> QED BY <3>1, <3>4, <3>5, <2>3, Zenon
  <2>5. ASSUME NEW c \in Client
        PROVE  /\ client'[c] \in ClientState
               /\ \/ client'[c].st = client[c].st /\ (conns'[c].open <=> conns[c].open)
                  \/ /\ client[c].st = "open" /\ client'[c].st \in {"answered", "closed"}
                     /\ ~conns'[c].open
    <3>1. PICK x \in ClientState : x = client[c]
      BY <1>t
    <3>2. [x EXCEPT !.st = "closed"] \in ClientState /\ [x EXCEPT !.st = "closed"].st = "closed"
      BY DEF ClientState
    <3>3. client'[c] = IF conns[c].open /\ ~conns'[c].open THEN [x EXCEPT !.st = "closed"] ELSE x
      BY <2>2, <3>1
    <3>4. conns[c].open <=> x.st = "open"
      BY <3>1 DEF ConnInv, TableOpen
    <3>5. CASE conns[c].open /\ ~conns'[c].open
      BY <3>1, <3>2, <3>3, <3>4, <3>5
    <3>6. CASE ~(conns[c].open /\ ~conns'[c].open)
      BY <3>1, <3>3, <3>6, <2>4, <1>t
    <3> QED BY <3>5, <3>6
  <2>6. client' \in [Client -> {client'[c] : c \in Client}] /\ conns' \in [Client -> {conns'[c] : c \in Client}]
    BY <2>1, <2>2
  <2>7. client' \in [Client -> ClientState] /\ conns' \in [Client -> Conn]
    BY <2>4, <2>5, <2>6
  <2> QED BY <2>2, <2>5, <2>7, ConnsEnd
<1>4. ASSUME NEW c \in Client, ServeConn(c) PROVE ConnInv'
  <2>1. CASE ServeDrop(c)
    BY <2>1, ClosesOne DEF ServeDrop
  <2>2. ASSUME Answer(c) PROVE ConnInv'
    BY <2>2, ClosesOne DEF Answer
  <2>3. CASE ServePartial(c)
    <3>1. PICK x \in ClientState, y \in Conn : x = client[c] /\ y = conns[c]
      BY <1>t, Zenon
    <3>2. PICK n \in Nat, a \in Nat : n = y.got + x.unread /\ a = IF x.unread > 0 THEN 0 ELSE y.age
      BY DEF ClientState, Conn
    <3>3. /\ conns' = [conns EXCEPT ![c] = [y EXCEPT !.got = n, !.age = a]]
          /\ client' = [client EXCEPT ![c] = [x EXCEPT !.unread = 0]]
          /\ backlog' = backlog
      BY <2>3, <3>1, <3>2, <1>t DEF ServePartial, ServeRead
    <3>4. /\ [y EXCEPT !.got = n, !.age = a] \in Conn
          /\ [y EXCEPT !.got = n, !.age = a].open <=> y.open
      BY DEF Conn
    <3>5. [x EXCEPT !.unread = 0] \in ClientState /\ [x EXCEPT !.unread = 0].st = x.st
      BY DEF ClientState
    <3>6. /\ client' \in [Client -> ClientState] /\ conns' \in [Client -> Conn]
          /\ client'[c] = [x EXCEPT !.unread = 0] /\ conns'[c] = [y EXCEPT !.got = n, !.age = a]
          /\ \A d \in Client : d # c => client'[d] = client[d] /\ conns'[d] = conns[d]
      BY <3>3, <3>4, <3>5, <1>t
    <3>7. ASSUME NEW d \in Client
          PROVE  client'[d].st = client[d].st /\ (conns'[d].open <=> conns[d].open)
      BY <3>1, <3>4, <3>5, <3>6
    <3> QED BY <3>3, <3>6, <3>7, ConnsEnd
  <2>4. CASE Refused(c) \/ \E u \in Unit, cred \in Cred : Handshake(c, u, cred)
    BY <2>2, <2>4 DEF Refused, Handshake
  <2>5. CASE \E u \in Unit, cred \in Cred \cup {NoCred} :
                \/ \E tool \in ApiAction : ApiCall(c, tool, u, cred)
                \/ \E tool \in McpTool : McpCall(c, tool, u, cred)
    BY <2>2, <2>5 DEF ApiCall, McpCall
  <2> QED BY <1>4, <2>1, <2>3, <2>4, <2>5 DEF ServeConn
<1>5. CASE Tick
  <2>1. /\ conns' = [c \in Client |-> IF conns[c].open /\ conns[c].age <= IdleTimeout
                                      THEN [conns[c] EXCEPT !.age = @ + 1] ELSE conns[c]]
        /\ client' = client /\ backlog' = backlog
    BY <1>5 DEF Tick
  <2>2. ASSUME NEW c \in Client PROVE conns'[c] \in Conn /\ (conns'[c].open <=> conns[c].open)
    <3>1. PICK x \in Conn : x = conns[c]
      BY <1>t
    <3>2. [x EXCEPT !.age = @ + 1] \in Conn /\ ([x EXCEPT !.age = @ + 1].open <=> x.open)
      BY DEF Conn
    <3>3. conns'[c] = x \/ conns'[c] = [x EXCEPT !.age = @ + 1]
      BY <2>1, <3>1
    <3> QED BY <3>1, <3>2, <3>3
  <2>3. conns' \in [Client -> {conns'[c] : c \in Client}]
    BY <2>1
  <2>4. conns' \in [Client -> Conn] /\ client' \in [Client -> ClientState]
    BY <2>1, <2>2, <2>3, <1>t
  <2> QED BY <2>1, <2>2, <2>4, ConnsEnd
<1>6. ASSUME NEW c \in Client, NEW x \in ClientState, client' = [client EXCEPT ![c] = x], x.st = client[c].st,
             conns' = conns, backlog' = backlog
      PROVE  ConnInv'
  <2>1. client' \in [Client -> ClientState] /\ \A d \in Client : client'[d].st = client[d].st
    BY <1>6, <1>t
  <2> QED BY <2>1, <1>6, <1>t, ConnsEnd
<1>7. ASSUME NEW c \in Client, SendPiece(c) \/ HangUp(c) PROVE ConnInv'
  <2>1. PICK x \in ClientState : x = client[c]
    BY <1>t
  <2>2. /\ [x EXCEPT !.sent = @ + 1, !.unread = @ + 1] \in ClientState
        /\ [x EXCEPT !.sent = @ + 1, !.unread = @ + 1].st = x.st
        /\ [x EXCEPT !.eof = TRUE] \in ClientState /\ [x EXCEPT !.eof = TRUE].st = x.st
    <3>1. [x EXCEPT !.eof = TRUE] \in ClientState /\ [x EXCEPT !.eof = TRUE].st = x.st
      BY DEF ClientState
    <3>2. ASSUME NEW m \in Nat, NEW n \in Nat
          PROVE  [x EXCEPT !.sent = m, !.unread = n] \in ClientState /\ [x EXCEPT !.sent = m, !.unread = n].st = x.st
      BY DEF ClientState
    <3>3. x.sent + 1 \in Nat /\ x.unread + 1 \in Nat
      BY DEF ClientState
    <3> QED BY <3>1, <3>2, <3>3
  <2>3. /\ \/ client' = [client EXCEPT ![c] = [x EXCEPT !.sent = @ + 1, !.unread = @ + 1]]
           \/ client' = [client EXCEPT ![c] = [x EXCEPT !.eof = TRUE]]
        /\ conns' = conns /\ backlog' = backlog
    <3>1. CASE SendPiece(c)
      BY <3>1, <2>1, <1>t DEF SendPiece
    <3>2. CASE HangUp(c)
      BY <3>2, <2>1, <1>t DEF HangUp
    <3> QED BY <1>7, <3>1, <3>2
  <2> QED BY <2>1, <2>2, <2>3, <1>6
<1>8. ASSUME NEW c \in Client, Connect(c) PROVE ConnInv'
  <2>1. PICK x \in ClientState, b \in Seq(Client) : x = client[c] /\ b = backlog
    BY <1>t, Zenon
  <2>2. [x EXCEPT !.st = "queued"] \in ClientState /\ [x EXCEPT !.st = "queued"].st = "queued"
    BY DEF ClientState
  <2>3. /\ client' = [client EXCEPT ![c] = [x EXCEPT !.st = "queued"]] /\ x.st = "idle"
        /\ conns' = conns /\ backlog' = Append(b, c)
    BY <1>8, <2>1, <1>t DEF Connect
  <2>4. /\ client' \in [Client -> ClientState] /\ client'[c].st = "queued"
        /\ \A d \in Client : d # c => client'[d] = client[d]
    BY <2>2, <2>3, <1>t
  <2>5. /\ Append(b, c) \in Seq(Client) /\ Len(Append(b, c)) = Len(b) + 1 /\ Len(b) \in Nat
        /\ \A i \in 1 .. Len(b) : Append(b, c)[i] = b[i]
        /\ Append(b, c)[Len(b) + 1] = c
    BY AppendProperties
  <2>6. \A i \in 1 .. Len(b) : b[i] # c
    BY <2>1, <2>3 DEF ConnInv, BacklogOnce
  <2>7. \A i \in 1 .. Len(b) + 1 : i \in 1 .. Len(b) \/ i = Len(b) + 1
    BY <2>5
  <2>8. \A i \in 1 .. Len(b) : i \in 1 .. Len(b) + 1
    BY <2>5
  <2>9. ServerTypes'
    BY <2>3, <2>4, <2>5, <1>t DEF ServerTypes
  <2>10. BacklogOnce'
    <3>1. ASSUME NEW i \in 1 .. Len(b) + 1, NEW j \in 1 .. Len(b) + 1, Append(b, c)[i] = Append(b, c)[j]
          PROVE  i = j
      <4>1. \A k, l \in 1 .. Len(b) : b[k] = b[l] => k = l
        BY <2>1 DEF ConnInv, BacklogOnce
      <4> QED BY <3>1, <4>1, <2>5, <2>6, <2>7
    <3>2. ASSUME NEW d \in Client
          PROVE  client'[d].st = "queued" <=> \E i \in 1 .. Len(b) + 1 : Append(b, c)[i] = d
      <4>1. CASE d = c
        <5>1. Len(b) + 1 \in 1 .. Len(b) + 1
          BY <2>5
        <5> QED BY <4>1, <5>1, <2>4, <2>5
      <4>2. CASE d # c
        <5>1. client[d].st = "queued" <=> \E i \in 1 .. Len(b) : b[i] = d
          BY <2>1 DEF ConnInv, BacklogOnce
        <5>2. (\E i \in 1 .. Len(b) : b[i] = d) <=> \E i \in 1 .. Len(b) + 1 : Append(b, c)[i] = d
          BY <4>2, <2>5, <2>7, <2>8
        <5> QED BY <4>2, <5>1, <5>2, <2>4
      <4> QED BY <4>1, <4>2
    <3> QED BY <3>1, <3>2, <2>3, <2>5 DEF BacklogOnce
  <2>11. TableOpen'
    <3>1. ASSUME NEW d \in Client PROVE conns'[d].open <=> client'[d].st = "open"
      BY <2>1, <2>3, <2>4 DEF ConnInv, TableOpen
    <3> QED BY <3>1 DEF TableOpen
  <2>12. WithinCap'
    BY <2>3 DEF ConnInv, WithinCap, Open
  <2> QED BY <2>9, <2>10, <2>11, <2>12 DEF ConnInv
<1>9. ASSUME NEW u \in Unit, Register(u) PROVE ConnInv'
  BY <1>9, <1>0 DEF Register, serverVars
<1> QED BY <1>1, <1>2, <1>3, <1>4, <1>5, <1>7, <1>8, <1>9 DEF ServerNext, Server

\* For any clients and any limit: a client is queued exactly while the backlog
\* has it, once, and open exactly while the table has it, and the table never
\* exceeds the limit, through accepts at the limit, answers, hang-ups, sweeps
\* and events that come after a close (server.rs).
THEOREM ConnsAccountedAlways == ServerSpec => []ConnsAccounted
<1>1. ServerInit => ConnInv
  <2> SUFFICES ASSUME ServerInit PROVE ConnInv
    OBVIOUS
  <2>1. NoConn \in Conn /\ ~NoConn.open /\ << >> \in Seq(Client) /\ Len(<< >>) = 0
    BY DEF NoConn, Conn
  <2>2. [st |-> "idle", sent |-> 0, unread |-> 0, eof |-> FALSE] \in ClientState
    BY DEF ClientState
  <2>3. ServerTypes
    BY <2>1, <2>2 DEF ServerInit, ServerTypes
  <2>4. Open = {}
    BY <2>1 DEF ServerInit, Open
  <2>5. IsFiniteSet({}) /\ Cardinality({}) = 0
    BY FS_EmptySet
  <2>6. WithinCap
    BY <2>4, <2>5, ServerAssumption DEF WithinCap
  <2>7. BacklogOnce /\ TableOpen
    BY <2>1 DEF ServerInit, BacklogOnce, TableOpen
  <2> QED BY <2>3, <2>6, <2>7 DEF ConnInv
<1>2. ConnInv /\ [ServerNext]_allVars => ConnInv'
  <2>1. ConnInv /\ UNCHANGED allVars => ConnInv'
    BY DEF ConnInv, ServerTypes, BacklogOnce, TableOpen, WithinCap, Open, allVars, serverVars
  <2> QED BY <2>1, ConnStep
<1>3. ConnInv => ConnsAccounted
  <2> SUFFICES ASSUME ConnInv PROVE ConnsAccounted
    OBVIOUS
  <2>1. Open = {c \in Client : client[c].st = "open"}
    BY DEF ConnInv, TableOpen, Open
  <2>2. DOMAIN backlog = 1 .. Len(backlog) /\ \A i \in 1 .. Len(backlog) : backlog[i] \in Client
    <3>1. PICK b \in Seq(Client) : b = backlog
      BY DEF ConnInv, ServerTypes
    <3>2. DOMAIN b = 1 .. Len(b)
      OBVIOUS
    <3>3. \A i \in 1 .. Len(b) : b[i] \in Client
      BY ElementOfSeq
    <3> QED BY <3>1, <3>2, <3>3
  <2>3. {backlog[i] : i \in DOMAIN backlog} = {c \in Client : client[c].st = "queued"}
    <3>1. \A c \in Client : client[c].st = "queued" <=> \E i \in 1 .. Len(backlog) : backlog[i] = c
      BY DEF ConnInv, BacklogOnce
    <3> QED BY <2>2, <3>1, Zenon
  <2> QED BY <2>1, <2>3 DEF ConnInv, WithinCap, ConnsAccounted
<1> QED BY <1>1, <1>2, <1>3, PTL DEF ServerSpec

=============================================================================
