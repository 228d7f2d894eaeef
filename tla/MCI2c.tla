-------------------------------- MODULE MCI2c --------------------------------
(* The I2C driver and the simulated bus, with an EEPROM of four bytes. *)
EXTENDS I2cDriver

\* "R-Pi", with which the identification of a HAT begins.
Signature == [i \in 0 .. 3 |-> <<82, 45, 80, 105>>[i + 1]]
\* Inside the memory, over its end, and beyond it.
SomeAddresses == {<<0, 1>>, <<1, 3>>}
=============================================================================
