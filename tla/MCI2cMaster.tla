----------------------------- MODULE MCI2cMaster ------------------------------
(***************************************************************************)
(* Instances of I2cMaster for TLC: an EEPROM of three bytes, so that the   *)
(* word address wraps, writes of up to three bytes, and reads of up to     *)
(* three bytes and of none.                                                *)
(***************************************************************************)
EXTENDS I2cMaster

MCData == {<<1>>, <<2, 1>>, <<1, 2, 2>>}
MCLens == 0..3
MCJunk == -1
===============================================================================
