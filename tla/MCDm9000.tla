------------------------------- MODULE MCDm9000 -------------------------------
(***************************************************************************)
(* Instance of Dm9000 for TLC: one packet received waits in the chip, and  *)
(* two in a row are many.                                                  *)
(***************************************************************************)
EXTENDS Dm9000
===============================================================================
