----------------------------- MODULE RunStates -----------------------------
(***************************************************************************)
(* The run states of a front-end board (FEB) and what a FEB promises about *)
(* the order in which it shows them to the rest of its firmware: the       *)
(* abstract specification that StateController implements.                 *)
(*                                                                         *)
(* The edges are the ones listed in FEB_common/README.md, as far as the    *)
(* code has them, and the abort edges.                                     *)
(***************************************************************************)
CONSTANTS
    FEB,            \* the front-end boards on one reset link
    MayRestart      \* a board may lose its link and restart in IDLE

RunState == {"IDLE", "PREP", "SYNC", "RUNNING", "TERMINATING",
             "LINK_TEST", "SYNC_TEST", "RESET", "OUT_OF_DAQ"}

RunEdges ==
    {<<"IDLE", "PREP">>, <<"PREP", "SYNC">>, <<"SYNC", "RUNNING">>,
     <<"RUNNING", "TERMINATING">>, <<"TERMINATING", "IDLE">>}
AbortEdges == {"PREP", "SYNC", "RUNNING"} \X {"IDLE"}
TestEdges  == ({"IDLE"} \X {"LINK_TEST", "SYNC_TEST"})
                \cup ({"LINK_TEST", "SYNC_TEST"} \X {"IDLE"})
ResetEdges == ((RunState \ {"RESET", "OUT_OF_DAQ"}) \X {"RESET"})
                \cup {<<"RESET", "IDLE">>}
DaqEdges   == ((RunState \ {"IDLE", "OUT_OF_DAQ"}) \X {"OUT_OF_DAQ"})
                \cup {<<"OUT_OF_DAQ", "IDLE">>}

Edges == RunEdges \cup AbortEdges \cup TestEdges \cup ResetEdges \cup DaqEdges

VARIABLE shown          \* shown[f]: the run state FEB f shows

Init == shown = [f \in FEB |-> "IDLE"]

(* Every board moves along an edge, or restarts, or keeps its state;       *)
(* boards on one link may move together.                                   *)
Move == /\ shown' \in [FEB -> RunState]
        /\ \A f \in FEB : \/ shown'[f] = shown[f]
                          \/ <<shown[f], shown'[f]>> \in Edges
                          \/ MayRestart /\ shown'[f] = "IDLE"

Spec == Init /\ [][Move]_shown
=============================================================================
