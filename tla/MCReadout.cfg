\* Runs that start, pause and stop while the thread reads; a DMA that may lag.
SPECIFICATION ROSpec
CONSTANTS
    Page = 2
    Request = 1
    UseTimeout = TRUE
    DmaLags = TRUE
INVARIANTS ROTypeOK CopiesWholeBuffer DmaOffWhenStopped
PROPERTY KeepsReading
