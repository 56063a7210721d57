\* A run aborted by an operator before MIDAS stops it.
SPECIFICATION CBSpec
CONSTANTS
    f1 = f1
    f2 = f2
    s1 = s1
    s2 = s2
    FEB <- MCFEB
    SWB <- MCSWB
    ActiveSWB <- MCSWB
    ActiveFEB <- MCFEB
    Boards <- MCBoards
    Addr <- MCAddr
    Byte <- MCByte
    RunBytes <- MCOneRun
    MaxRuns = 1
    PayloadField <- MCPayload
    MaxLine = 4
    FullVersion = FALSE
    AckTimeout = FALSE
    LinkLoss = FALSE
    Buttons = {20}
    Disturbances <- MCOnePress
PROPERTIES StopSucceeds
