\* The full version of the controller: a FULL_VERSION_g build with link loss.
SPECIFICATION Spec
CONSTANTS
    FEB = {f1}
    Addr <- MCAddr
    Byte <- MCByteFull
    FullVersion = TRUE
    LinkLoss = TRUE
CONSTRAINT SmallPayload
INVARIANTS TypeOK FramingOK
PROPERTY ShowsRunStates
