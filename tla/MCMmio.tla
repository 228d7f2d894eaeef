------------------------------- MODULE MCMmio -------------------------------
(* The hardware abstraction on a SPI block with a short FIFO. *)
EXTENDS MmioHal
=============================================================================
