\* Two runs started and stopped by MIDAS, undisturbed, or disturbed by an
\* operator who aborts or by the loss of reset links.
SPECIFICATION CBSpec
CONSTANTS
    f1 = f1
    f2 = f2
    s1 = s1
    s2 = s2
    FEB <- MCFEB
    SWB <- MCSWB
    ActiveSWB <- MCSWB
    ActiveFEB <- MCFEB
    Boards <- MCBoards
    Addr <- MCAddr
    Byte <- MCByte
    RunBytes <- MCRunBytes
    MaxRuns = 2
    PayloadField <- MCPayload
    MaxLine = 4
    FullVersion = FALSE
    AckTimeout = FALSE
    LinkLoss = TRUE
    Buttons = {20}
    Disturbances <- MCDisturbances
INVARIANTS CBTypeOK RunNumberHeld FramingKept StoppedMeansEnded
PROPERTIES RunStarts RunEnds
