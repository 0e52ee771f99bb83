------------------------------- MODULE MCTouch --------------------------------
(***************************************************************************)
(* Instance of Touch for TLC: reports of two conversions, two positions,   *)
(* one cross whose point sums at most two reports.                         *)
(***************************************************************************)
EXTENDS Touch
===============================================================================
