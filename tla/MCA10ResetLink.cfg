\* Two runs, disturbed or not, with register writes at any distance.
SPECIFICATION RLSpec
CONSTANTS
    f1 = f1
    f2 = f2
    FEB <- MCFEB
    Addr <- MCAddr
    Output <- MCOutput
    Byte <- MCByte
    RunBytes <- MCRunBytes
    MaxRuns = 2
    MaxDisturbed = 2
    Spacings <- MCSpacings
    FullVersion = FALSE
    LinkLoss = FALSE
INVARIANTS CommandsObeyed BytesArrive
PROPERTY RunStarts
