--------------------------- MODULE MCEventBuilder ---------------------------
(* Events of two or three blocks in a small RAM.                           *)
EXTENDS EventBuilder
MCRequests == {0, 2}

(* A software that enables the DMA only when the reader has caught up with *)
(* what came while it padded, for paddings as long as that of the code.    *)
PatientNext ==
    EBNext /\ (~wen /\ wen' => tags = <<>> /\ reader.state # "write_4kb_padding")
PatientSpec == EBInit /\ [][PatientNext]_vars /\ WF_vars(PatientNext)
=============================================================================
