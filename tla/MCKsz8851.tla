------------------------------ MODULE MCKsz8851 ------------------------------
(***************************************************************************)
(* Ksz8851 for TLC.                                                        *)
(***************************************************************************)
EXTENDS Ksz8851
=============================================================================
