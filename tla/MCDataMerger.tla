---------------------------- MODULE MCDataMerger ----------------------------
(* The data merger for TLC: small FIFOs, and the run states of each run.   *)
EXTENDS DataMerger

RunOnly == {"IDLE", "PREP", "SYNC", "RUNNING", "TERMINATING"}
AllStates == Run!RunState
=============================================================================
