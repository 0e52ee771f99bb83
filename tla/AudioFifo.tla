------------------------------ MODULE AudioFifo -------------------------------
(***************************************************************************)
(* What an audio stream promises: units leave it in the order in which     *)
(* they entered, each once.  Units are dropped only all together, when the *)
(* stream is cleared, or from the end once the DMA refused a fragment.     *)
(***************************************************************************)
EXTENDS Naturals, Sequences

VARIABLES queue,    \* the units in the stream, oldest first
          moved,    \* the units that left it last
          failed    \* the DMA has refused a fragment since it was cleared

Init == queue = <<>> /\ moved = <<>> /\ failed = FALSE

Put == /\ Len(queue') > Len(queue)
       /\ SubSeq(queue', 1, Len(queue)) = queue
       /\ moved' = moved

Get == \E n \in 1..Len(queue) : /\ moved' = SubSeq(queue, 1, n)
                                /\ queue' = SubSeq(queue, n + 1, Len(queue))

Clear == queue' = <<>> /\ moved' = moved /\ failed' = FALSE

Lose == /\ failed'
        /\ \E n \in 0..Len(queue) : queue' = SubSeq(queue, 1, n)
        /\ moved' = moved

Fail == failed' /\ UNCHANGED <<queue, moved>>

Next == \/ /\ Put \/ Get \/ Lose \/ Fail
           /\ failed => failed'
        \/ Clear

Spec == Init /\ [][Next]_<<queue, moved, failed>>
===============================================================================
