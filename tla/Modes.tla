------------------------------- MODULE Modes -------------------------------
(***************************************************************************)
(* Control-authority modes and the table of legal transitions              *)
(* (src/crates/tpt-t-core/src/mode.rs), shared by the mode machine and the *)
(* safety loop.                                                            *)
(***************************************************************************)
Mode == {"Auto", "Assist", "FullTeleop", "EmergencyStop"}

\* TransitionTable::spec_default() and allows.
Allows(f, t) ==
    <<f, t>> \in
       {<<"Auto", "Assist">>, <<"Assist", "Auto">>,
        <<"Assist", "FullTeleop">>, <<"FullTeleop", "Assist">>,
        <<"EmergencyStop", "Assist">>}
       \cup {<<m, "EmergencyStop">> : m \in Mode}

Transition == [from : Mode, to : Mode]
=============================================================================
