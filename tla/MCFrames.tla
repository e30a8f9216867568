----------------------------- MODULE MCFrames -----------------------------
(***************************************************************************)
(* What carries commands, sensor data and documents, each on its own: the  *)
(* sealed sessions, the multiplexed datagrams, the routing of commands to  *)
(* the safety loop, the operator's controller, the co-pilot hub, a ring in *)
(* shared memory, the event loops and the HTTP messages.  They share no    *)
(* state, so a behaviour is one of a single part, chosen at the start.     *)
(***************************************************************************)
EXTENDS SecureLink, LinkMux, CommandRoute, OperatorInput, CoPilot,
        SharedRing, EventLoop, HttpCodec

\* Both peers prefer the first suite.
MCSuites == <<"Aes256Gcm", "ChaCha20Poly1305">>

\* A peer offers both suites or the second alone; one that supports the first
\* alone has nothing in common with the latter.
MCOffers == {{"ChaCha20Poly1305"}, {"Aes256Gcm", "ChaCha20Poly1305"}}
MCSupported == {MCSuites, <<"Aes256Gcm">>}
MCPeers == Permutations(Peer)

\* A stick, a throttle and a rudder, two of them one-sided.
MCAbsRange == "Y" :> <<-1, 1>> @@ "THROTTLE" :> <<0, 1>> @@ "RZ" :> <<0, 1>>
MCDefaultRange == <<-2, 2>>

\* Strings of every kind of character, numbers with a sign, a fraction,
\* trailing zeros or no bound, and containers of two levels with brackets in strings.
MCStrings == SeqOf({"a", "u", "\"", "\\", "\n", "BS", "SOH", "e'"}, 2)
MCLeaf == {JNull, JBool(FALSE), JNum(-15, -1), JStr(<<"\\">>), JStr(<<"]", "}">>)}
MCField == {<<k, v>> : k \in {<<>>, <<"\"">>, <<"{", ",">>}, v \in MCLeaf}
MCInner == {JArr(s) : s \in SeqOf(MCLeaf, 2)} \cup {JObj(s) : s \in SeqOf(MCField, 1)}
MCHttpDocs ==
    {JBool(TRUE), JNum(-105, 0), JNum(0, 0), JNum(5, -2), JNum(12, 3), JNum(1, 999)}
    \cup MCLeaf \cup {JStr(s) : s \in MCStrings} \cup MCInner
    \cup {JArr(<<JNull, y>>) : y \in MCInner}
    \cup {JObj(<<f, <<<<"a">>, JArr(<<JBool(FALSE)>>)>>>>) : f \in MCField}
MCHeaderOrders == {<<"length">>, <<"host", "length">>, <<"length", "host">>}

VARIABLE part

\* The choices of the other parts are fixed.
FramesInit ==
    /\ part \in {"sealed", "mux", "route", "input", "copilot", "segment", "events", "http"}
    /\ LinkInit /\ MuxInit /\ RouteInit /\ InputInit /\ HubInit
    /\ SharedInit /\ LoopInit /\ HttpInit
    /\ part # "input" => pressed = {} /\ \A c \in AbsCode : stick[c] = AbsRange[c][1]
    /\ part # "segment" => region = Max(RegionLen)
    /\ part # "events" => backend = "epoll"
    /\ part # "http" => message = [kind |-> "response", headers |-> <<>>, doc |-> JNull]

Sealed ==
    /\ part = "sealed" /\ LinkNext
    /\ UNCHANGED <<part, muxVars, routeVars, inputVars,
                   hubVars, sharedVars, loopVars, httpVars>>

Muxed ==
    /\ part = "mux" /\ MuxNext
    /\ UNCHANGED <<part, linkVars, routeVars, inputVars,
                   hubVars, sharedVars, loopVars, httpVars>>

Routed ==
    /\ part = "route" /\ RouteNext
    /\ UNCHANGED <<part, linkVars, muxVars, inputVars,
                   hubVars, sharedVars, loopVars, httpVars>>

Steered ==
    /\ part = "input" /\ InputNext
    /\ UNCHANGED <<part, linkVars, muxVars, routeVars,
                   hubVars, sharedVars, loopVars, httpVars>>

Arbitrated ==
    /\ part = "copilot" /\ HubNext
    /\ UNCHANGED <<part, linkVars, muxVars, routeVars,
                   inputVars, sharedVars, loopVars, httpVars>>

Exchanged ==
    /\ part = "segment" /\ SharedNext
    /\ UNCHANGED <<part, linkVars, muxVars, routeVars,
                   inputVars, hubVars, loopVars, httpVars>>

Polled ==
    /\ part = "events" /\ LoopNext
    /\ UNCHANGED <<part, linkVars, muxVars, routeVars,
                   inputVars, hubVars, sharedVars, httpVars>>

Served ==
    /\ part = "http" /\ HttpNext
    /\ UNCHANGED <<part, linkVars, muxVars, routeVars,
                   inputVars, hubVars, sharedVars, loopVars>>

FramesNext ==
    \/ Sealed \/ Muxed \/ Routed \/ Steered \/ Arbitrated
    \/ Exchanged \/ Polled \/ Served

FramesSpec ==
    FramesInit /\ [][FramesNext]_<<part, linkVars, muxVars, routeVars,
                                  inputVars, hubVars, sharedVars, loopVars, httpVars>>
=============================================================================
