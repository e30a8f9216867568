---------------------------- MODULE MCSafetyLoop ----------------------------
(* Instances of SafetyLoop for TLC.                                        *)
EXTENDS SafetyLoop

\* The ground, the altitude from which a fast climb passes the ceiling, the
\* ceiling and a metre above it; and the edge of the fence.
MCPoses ==
    [z : {0, 3, 4, 5}, at : {"Inside"}] \cup [z : {3}, at : {"SoftWarn", "HardBreach"}]

\* Hostile full-scale commands.
MCCommands == {[lat |-> 3, thr |-> 3, stop |-> FALSE],
               [lat |-> -3, thr |-> 0, stop |-> FALSE]}

MCBaselines == {[lat |-> 1, thr |-> 2, stop |-> FALSE]}
=============================================================================
