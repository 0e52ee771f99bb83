------------------------------ MODULE MCButtons -------------------------------
(***************************************************************************)
(* Instance of Buttons for TLC: two processes, one of which opens with     *)
(* O_NONBLOCK and reads with two threads like the other, and two keys.     *)
(***************************************************************************)
EXTENDS Buttons

CONSTANTS p1, p2, t1, t2

MCProcs == {p1, p2}
MCThreads == {t1, t2}
MCNonBlock == {p2}
===============================================================================
