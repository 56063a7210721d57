\* Two runs, undisturbed, with register writes far apart.
SPECIFICATION RLSpec
CONSTANTS
    f1 = f1
    f2 = f2
    FEB <- MCFEB
    Addr <- MCAddr
    Output <- MCOutput
    Byte <- MCByte
    RunBytes <- MCRunBytes
    MaxRuns = 2
    MaxDisturbed = 0
    Spacings <- MCFarApart
    FullVersion = FALSE
    LinkLoss = FALSE
INVARIANT RunNumberFromMidas
