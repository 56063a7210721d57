----------------------------- MODULE MCReadout -----------------------------
(* Pages of two blocks, so that an event ends in the middle of a page.     *)
EXTENDS Readout
=============================================================================
