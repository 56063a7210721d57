\* A DMA that is always in time, and a thread that gives up waiting for a buffer.
SPECIFICATION ROSpec
CONSTANTS
    Page = 2
    Request = 2
    UseTimeout = TRUE
    DmaLags = FALSE
INVARIANT CopiesWrittenWords
