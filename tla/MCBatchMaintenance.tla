------------------------- MODULE MCBatchMaintenance -------------------------
(* A small batch, for TLC. *)
EXTENDS BatchMaintenance
=============================================================================
