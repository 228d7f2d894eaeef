-------------------------------- MODULE MCUsb --------------------------------
(* The USB drivers on a small number of packet buffers. *)
EXTENDS UsbdevDriver
=============================================================================
