------------------------------- MODULE MCMyMsg --------------------------------
(***************************************************************************)
(* Instances of MyMsg for TLC: a buffer of four bytes, three of them in    *)
(* use at most, two readers, and enough characters to go around twice.     *)
(***************************************************************************)
EXTENDS MyMsg

CONSTANTS p1, p2

MCReaders == {p1, p2}
MCOneReader == {p1}
MCNonBlock == {p2}
MCNone == {}
MCCounts == {1, 3}
===============================================================================
