\* Three calls, with timeouts, failing slow control and a Nios that restarts.
\* After the last call and the last restart nothing happens any more.
SPECIFICATION NRSpec
CONSTANTS
    MaxCalls = 3
    MaxChunks = 2
    MaxPolls = 3
    MaxFailures = 1
    MaxReboots = 2
INVARIANTS NRTypeOK OwnStatus PayloadWhole RunsOnce
CHECK_DEADLOCK FALSE
