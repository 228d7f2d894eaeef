------------------------------ MODULE MCSdCard ------------------------------
(* Cards with blocks of two bytes.  The data hold the bytes that have a      *)
(* meaning elsewhere: a start token, the first byte of a command, zero.      *)
EXTENDS SdCard

MCData == {<<254, 64>>, <<0, 253>>}
MCFill == <<88, 254>>
=============================================================================
