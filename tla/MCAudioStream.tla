---------------------------- MODULE MCAudioStream -----------------------------
(***************************************************************************)
(* Instance of AudioStream for TLC, two kinds of samples in rings of two   *)
(* fragments of two units and of three of one.                             *)
(***************************************************************************)
EXTENDS AudioStream

MCShapes == {<<2, 2>>, <<3, 1>>}
MCDefault == <<2, 2>>
===============================================================================
