------------------------------- MODULE MCSpi -------------------------------
(***************************************************************************)
(* SpiSystem with bytes of three bits: values that differ from their       *)
(* reversal, from each other and from the idle level.                      *)
(***************************************************************************)
EXTENDS SpiSystem

MCSendBytes == {<<0, 1, 1>>}
MCSendTwo == {<<0, 1, 1>>, <<1, 0, 0>>}
MCAnswerBytes == {<<1, 0, 0>>, <<1, 1, 0>>}
=============================================================================
