----------------------------- MODULE Dm9000Proofs -----------------------------
(***************************************************************************)
(* Proofs about Dm9000, for any number of packets the chip can keep and    *)
(* any CONT_RX_PKT_CNT above it.                                           *)
(*                                                                         *)
(* TypeInv adds to the types what bounds the two counters.  LineInv is     *)
(* about the interrupt line: an enabled event has been seen, but for the   *)
(* handler's first statement, and the mask is off only while a statement   *)
(* that restores it is to come.  RxInv counts the packets of one run of    *)
(* the handler: if none came since ISR was cleared, those read and those   *)
(* left were all in the chip at once.  TxInv relates tx_pkt_cnt to the     *)
(* packets: it is at least their number, or it has been cleared under      *)
(* packets that were sent meanwhile, and the handler that will find them   *)
(* runs, or runs next.                                                     *)
(***************************************************************************)
EXTENDS Dm9000, FiniteSetTheorems, TLAPS

Draining == hpc \in {"breakDrain", "txDrain"}

TypeInv == /\ TypeOK
           /\ ~Draining => tx_pkt_cnt >= 0
           /\ hpc = "loop" => cont_rx_pkt_cnt < CONT_RX_PKT_CNT

LineInv == /\ up /\ hpc # "enter" /\ Line => irq
           /\ up /\ hpc = "none" /\ IMR = "none" => pc \in {"send", "unmask"}
           /\ hpc \notin {"none", "enter"} => IMR # "noRx"
           /\ IMR = "noRx" => cont_rx_pkt_cnt >= CONT_RX_PKT_CNT \/ pc = "enable"

RxInv == up /\ rxq > 0 /\ ~squeezed /\ "RX" \notin ISR =>
             \/ hpc \in {"clear", "link", "rx"} /\ "RX" \in int_status
             \/ hpc = "loop" /\ cont_rx_pkt_cnt + rxq <= RxSlots

(* The packet transmit has counted and not yet given to the chip.          *)
Counted == IF pc \in {"test", "stop", "mask", "send"} THEN 1 ELSE 0

TxInv == /\ up /\ NSR # {} /\ "TX" \notin ISR =>
                /\ hpc \in {"clear", "link", "rx", "loop", "break", "breakDrain", "tx"}
                /\ "TX" \in int_status
         /\ up /\ pc = "clear" => fifo = 0
         /\ pc = "store" => cnt >= tx_pkt_cnt
         /\ up /\ ~cut => \/ Draining
                          \/ tx_pkt_cnt >= fifo + Cardinality(NSR) + Counted
                          \/ /\ fifo = 0 /\ Counted = 0 /\ tx_pkt_cnt = 0
                             /\ irq \/ hpc # "none"
         /\ NoOverrun

-------------------------------------------------------------------------------
(* The bits of IMR in its three values (0xA3, 0xA2, 0x80).                 *)
LEMMA MaskFacts ==
    /\ DOMAIN Masks = {"all", "noRx", "none"}
    /\ Masks["all"] = {"RX", "TX", "LINK"}
    /\ Masks["noRx"] = {"TX", "LINK"}
    /\ Masks["none"] = {}
BY DEF Masks

(* The bits TX1END and TX2END of NSR, and how many packets they stand for. *)
LEMMA NsrFacts ==
    ASSUME NEW S \in SUBSET {1, 2}
    PROVE  /\ Cardinality(S) \in 0..2
           /\ S = {} <=> Cardinality(S) = 0
           /\ \A i \in {1, 2} : Cardinality(S \cup {i}) <= Cardinality(S) + 1
<1>1. IsFiniteSet({1, 2}) /\ Cardinality({1, 2}) = 2
  <2>1. IsFiniteSet({1}) /\ Cardinality({1}) = 1
    BY FS_Singleton
  <2>2. IsFiniteSet({1} \cup {2}) /\ Cardinality({1} \cup {2}) = 2
    BY <2>1, FS_AddElement
  <2>3. {1, 2} = {1} \cup {2}
    OBVIOUS
  <2> QED BY <2>2, <2>3
<1>2. IsFiniteSet(S) /\ Cardinality(S) <= 2 /\ Cardinality(S) \in Nat
  <2>1. IsFiniteSet(S) /\ Cardinality(S) <= Cardinality({1, 2})
    BY <1>1, FS_Subset
  <2>2. Cardinality(S) \in Nat
    BY <2>1, FS_CardinalityType
  <2> QED BY <1>1, <2>1, <2>2
<1>3. S = {} <=> Cardinality(S) = 0
  BY <1>2, FS_EmptySet
<1>4. ASSUME NEW i \in {1, 2}
      PROVE  Cardinality(S \cup {i}) <= Cardinality(S) + 1
  BY <1>2, FS_AddElement
<1> QED BY <1>2, <1>3, <1>4

-------------------------------------------------------------------------------
(* The variables that are true or false.                                   *)
LEMMA FlagsInvariant == Spec => []Flags
<1>1. Init => Flags
  BY Zenon DEF Init, Flags
<1>2. Flags /\ [Next]_vars => Flags'
  <2> SUFFICES ASSUME Flags, [Next]_vars
               PROVE  Flags'
    OBVIOUS
  <2>1. CASE ChipSends
    BY <2>1, Zenon DEF ChipSends, Edge, Flags, chipVars, driverVars, handlerVars
  <2>2. CASE ChipReceives
    BY <2>2, Zenon DEF ChipReceives, Edge, Flags, chipVars, driverVars,
       handlerVars
  <2>3. CASE LinkChanges
    BY <2>3, Zenon DEF LinkChanges, Edge, Flags, chipVars, driverVars,
       handlerVars
  <2>4. CASE dmfe_open
    BY <2>4, Zenon DEF dmfe_open, dmfe_init_dm9000, Flags, chipVars,
       driverVars, handlerVars
  <2>5. CASE OpenLink
    BY <2>5, Zenon DEF OpenLink, Runs, Goto, Flags, chipVars, driverVars,
       handlerVars
  <2>6. CASE dmfe_stop
    BY <2>6, Zenon DEF dmfe_stop, Flags, chipVars, driverVars, handlerVars
  <2>7. CASE Xmit
    BY <2>7, Zenon DEF Xmit, Runs, Goto, Limit, Flags, chipVars, driverVars,
       handlerVars
  <2>8. CASE XmitStore
    BY <2>8, Zenon DEF XmitStore, Runs, Goto, Flags, chipVars, driverVars,
       handlerVars
  <2>9. CASE XmitTest
    BY <2>9, Zenon DEF XmitTest, Runs, Goto, Limit, Flags, chipVars,
       driverVars, handlerVars
  <2>10. CASE XmitStop
    BY <2>10, Zenon DEF XmitStop, Runs, Goto, Flags, chipVars, driverVars,
       handlerVars
  <2>11. CASE XmitMask
    BY <2>11, Zenon DEF XmitMask, Goto, Flags, chipVars, driverVars, handlerVars
  <2>12. CASE XmitSend
    BY <2>12, Zenon DEF XmitSend, Runs, Goto, Flags, chipVars, driverVars,
       handlerVars
  <2>13. CASE XmitUnmask
    BY <2>13, Zenon DEF XmitUnmask, Edge, Runs, Goto, Flags, chipVars,
       driverVars, handlerVars
  <2>14. CASE Timeout
    BY <2>14, Zenon DEF Timeout, Runs, Goto, Flags, chipVars, driverVars,
       handlerVars
  <2>15. CASE TimeoutWait
    BY <2>15, Zenon DEF TimeoutWait, Runs, Goto, Flags, chipVars, driverVars,
       handlerVars
  <2>16. CASE TimeoutClear
    BY <2>16, Zenon DEF TimeoutClear, Runs, Goto, Flags, chipVars, driverVars,
       handlerVars
  <2>17. CASE TimeoutReset
    BY <2>17, Zenon DEF TimeoutReset, Edge, Runs, Goto, dmfe_init_dm9000,
       Flags, chipVars, driverVars, handlerVars
  <2>18. CASE TimeoutRestart
    BY <2>18, Zenon DEF TimeoutRestart, Runs, Goto, Flags, chipVars,
       driverVars, handlerVars
  <2>19. CASE Timer
    BY <2>19, Zenon DEF Timer, Runs, Goto, Flags, chipVars, driverVars,
       handlerVars
  <2>20. CASE TimerEnable
    BY <2>20, Zenon DEF TimerEnable, Edge, Runs, Goto, Flags, chipVars,
       driverVars, handlerVars
  <2>21. CASE Interrupt
    BY <2>21, Zenon DEF Interrupt, Flags, chipVars, driverVars, handlerVars
  <2>22. CASE Enter
    BY <2>22, Zenon DEF Enter, In, Flags, chipVars, driverVars, handlerVars
  <2>23. CASE Clear
    BY <2>23, Zenon DEF Clear, In, Flags, chipVars, driverVars, handlerVars
  <2>24. CASE Link
    BY <2>24, Zenon DEF Link, In, Flags, chipVars, driverVars, handlerVars
  <2>25. CASE RxStart
    BY <2>25, Zenon DEF RxStart, In, Flags, chipVars, driverVars, handlerVars
  <2>26. CASE RxEmpty
    BY <2>26, Zenon DEF RxEmpty, In, Flags, chipVars, driverVars, handlerVars
  <2>27. CASE RxPacket
    BY <2>27, Zenon DEF RxPacket, In, Flags, chipVars, driverVars, handlerVars
  <2>28. CASE RxBad
    BY <2>28, Zenon DEF RxBad, In, Flags, chipVars, driverVars, handlerVars
  <2>29. CASE RxSqueeze
    BY <2>29, Zenon DEF RxSqueeze, In, Flags, chipVars, driverVars, handlerVars
  <2>30. CASE RxError
    BY <2>30, Zenon DEF RxError, Edge, In, Forgets, dmfe_init_dm9000, Flags,
       chipVars, driverVars, handlerVars
  <2>31. CASE TxDone
    BY <2>31, Zenon DEF TxDone, In, dmfe_tx_done, Flags, chipVars, driverVars,
       handlerVars
  <2>32. CASE TxNone
    BY <2>32, Zenon DEF TxNone, In, Flags, chipVars, driverVars, handlerVars
  <2>33. CASE TxDrained
    BY <2>33, Zenon DEF TxDrained, In, Forgets, Flags, chipVars, driverVars,
       handlerVars
  <2>34. CASE Exit
    BY <2>34, Zenon DEF Exit, Edge, In, Flags, chipVars, driverVars, handlerVars
  <2>35. CASE UNCHANGED vars
    BY <2>35, Zenon DEF vars, Flags, chipVars, driverVars, handlerVars
  <2> QED
    BY <2>1, <2>2, <2>3, <2>4, <2>5, <2>6, <2>7, <2>8, <2>9, <2>10, <2>11,
       <2>12, <2>13, <2>14, <2>15, <2>16, <2>17, <2>18, <2>19, <2>20, <2>21,
       <2>22, <2>23, <2>24, <2>25, <2>26, <2>27, <2>28, <2>29, <2>30, <2>31,
       <2>32, <2>33, <2>34, <2>35 DEF Next, Chip, Transmit, Watchdog,
       Handler
<1> QED BY <1>1, <1>2, PTL DEF Spec

-------------------------------------------------------------------------------
(* Every variable keeps its type: the handler's corrections keep the count *)
(* of packets in its bounds.                                               *)
LEMMA TypeInvariant == Spec => []TypeInv
<1> USE Dm9000Assumption, MaskFacts
<1>0. /\ 0 \in (-2)..2 /\ 0 \in 0..2 /\ 0 \in 0..1 /\ 0 \in 0..RxSlots
      /\ 0 \in 0..CONT_RX_PKT_CNT /\ 0 < CONT_RX_PKT_CNT
  OBVIOUS
<1>1. Init /\ Flags => TypeInv
  BY <1>0 DEF Init, TypeInv, TypeOK, Draining
<1>2. TypeInv /\ Flags' /\ [Next]_vars => TypeInv'
  <2> SUFFICES ASSUME TypeInv, Flags', [Next]_vars
               PROVE  TypeInv'
    OBVIOUS
  <2>0. Cardinality(NSR) \in 0..2
    BY NsrFacts DEF TypeInv, TypeOK
  <2>1. CASE ChipSends
    BY <2>1, <1>0, <2>0 DEF ChipSends, Edge, TypeInv, TypeOK, Draining,
       chipVars, driverVars, handlerVars
  <2>2. CASE ChipReceives
    BY <2>2, <1>0, <2>0 DEF ChipReceives, Edge, TypeInv, TypeOK, Draining,
       chipVars, driverVars, handlerVars
  <2>3. CASE LinkChanges
    BY <2>3, <1>0, <2>0 DEF LinkChanges, Edge, TypeInv, TypeOK, Draining,
       chipVars, driverVars, handlerVars
  <2>4. CASE dmfe_open
    BY <2>4, <1>0, <2>0 DEF dmfe_open, dmfe_init_dm9000, TypeInv, TypeOK,
       Draining, chipVars, driverVars, handlerVars
  <2>5. CASE OpenLink
    BY <2>5, <1>0, <2>0 DEF OpenLink, Runs, Goto, TypeInv, TypeOK, Draining,
       chipVars, driverVars, handlerVars
  <2>6. CASE dmfe_stop
    BY <2>6, <1>0, <2>0 DEF dmfe_stop, TypeInv, TypeOK, Draining, chipVars,
       driverVars, handlerVars
  <2>7. CASE Xmit
    BY <2>7, <1>0, <2>0 DEF Xmit, Runs, Goto, Limit, TypeInv, TypeOK,
       Draining, chipVars, driverVars, handlerVars
  <2>8. CASE XmitStore
    BY <2>8, <1>0, <2>0 DEF XmitStore, Runs, Goto, TypeInv, TypeOK, Draining,
       chipVars, driverVars, handlerVars
  <2>9. CASE XmitTest
    BY <2>9, <1>0, <2>0 DEF XmitTest, Runs, Goto, Limit, TypeInv, TypeOK,
       Draining, chipVars, driverVars, handlerVars
  <2>10. CASE XmitStop
    BY <2>10, <1>0, <2>0 DEF XmitStop, Runs, Goto, TypeInv, TypeOK, Draining,
       chipVars, driverVars, handlerVars
  <2>11. CASE XmitMask
    BY <2>11, <1>0, <2>0 DEF XmitMask, Goto, TypeInv, TypeOK, Draining,
       chipVars, driverVars, handlerVars
  <2>12. CASE XmitSend
    BY <2>12, <1>0, <2>0 DEF XmitSend, Runs, Goto, TypeInv, TypeOK, Draining,
       chipVars, driverVars, handlerVars
  <2>13. CASE XmitUnmask
    BY <2>13, <1>0, <2>0 DEF XmitUnmask, Edge, Runs, Goto, TypeInv, TypeOK,
       Draining, chipVars, driverVars, handlerVars
  <2>14. CASE Timeout
    BY <2>14, <1>0, <2>0 DEF Timeout, Runs, Goto, TypeInv, TypeOK, Draining,
       chipVars, driverVars, handlerVars
  <2>15. CASE TimeoutWait
    BY <2>15, <1>0, <2>0 DEF TimeoutWait, Runs, Goto, TypeInv, TypeOK,
       Draining, chipVars, driverVars, handlerVars
  <2>16. CASE TimeoutClear
    BY <2>16, <1>0, <2>0 DEF TimeoutClear, Runs, Goto, TypeInv, TypeOK,
       Draining, chipVars, driverVars, handlerVars
  <2>17. CASE TimeoutReset
    BY <2>17, <1>0, <2>0 DEF TimeoutReset, Edge, Runs, Goto, dmfe_init_dm9000,
       TypeInv, TypeOK, Draining, chipVars, driverVars, handlerVars
  <2>18. CASE TimeoutRestart
    BY <2>18, <1>0, <2>0 DEF TimeoutRestart, Runs, Goto, TypeInv, TypeOK,
       Draining, chipVars, driverVars, handlerVars
  <2>19. CASE Timer
    BY <2>19, <1>0, <2>0 DEF Timer, Runs, Goto, TypeInv, TypeOK, Draining,
       chipVars, driverVars, handlerVars
  <2>20. CASE TimerEnable
    BY <2>20, <1>0, <2>0 DEF TimerEnable, Edge, Runs, Goto, TypeInv, TypeOK,
       Draining, chipVars, driverVars, handlerVars
  <2>21. CASE Interrupt
    BY <2>21, <1>0, <2>0 DEF Interrupt, TypeInv, TypeOK, Draining, chipVars,
       driverVars, handlerVars
  <2>22. CASE Enter
    BY <2>22, <1>0, <2>0 DEF Enter, In, TypeInv, TypeOK, Draining, chipVars,
       driverVars, handlerVars
  <2>23. CASE Clear
    BY <2>23, <1>0, <2>0 DEF Clear, In, TypeInv, TypeOK, Draining, chipVars,
       driverVars, handlerVars
  <2>24. CASE Link
    BY <2>24, <1>0, <2>0 DEF Link, In, TypeInv, TypeOK, Draining, chipVars,
       driverVars, handlerVars
  <2>25. CASE RxStart
    BY <2>25, <1>0, <2>0 DEF RxStart, In, TypeInv, TypeOK, Draining, chipVars,
       driverVars, handlerVars
  <2>26. CASE RxEmpty
    BY <2>26, <1>0, <2>0 DEF RxEmpty, In, TypeInv, TypeOK, Draining, chipVars,
       driverVars, handlerVars
  <2>27. CASE RxPacket
    BY <2>27, <1>0, <2>0 DEF RxPacket, In, TypeInv, TypeOK, Draining,
       chipVars, driverVars, handlerVars
  <2>28. CASE RxBad
    BY <2>28, <1>0, <2>0 DEF RxBad, In, TypeInv, TypeOK, Draining, chipVars,
       driverVars, handlerVars
  <2>29. CASE RxSqueeze
    BY <2>29, <1>0, <2>0 DEF RxSqueeze, In, TypeInv, TypeOK, Draining,
       chipVars, driverVars, handlerVars
  <2>30. CASE RxError
    BY <2>30, <1>0, <2>0 DEF RxError, Edge, In, Forgets, dmfe_init_dm9000,
       TypeInv, TypeOK, Draining, chipVars, driverVars, handlerVars
  <2>31. CASE TxDone
    BY <2>31, <1>0, <2>0 DEF TxDone, In, dmfe_tx_done, TypeInv, TypeOK,
       Draining, chipVars, driverVars, handlerVars
  <2>32. CASE TxNone
    BY <2>32, <1>0, <2>0 DEF TxNone, In, TypeInv, TypeOK, Draining, chipVars,
       driverVars, handlerVars
  <2>33. CASE TxDrained
    BY <2>33, <1>0, <2>0 DEF TxDrained, In, Forgets, TypeInv, TypeOK,
       Draining, chipVars, driverVars, handlerVars
  <2>34. CASE Exit
    BY <2>34, <1>0, <2>0 DEF Exit, Edge, In, TypeInv, TypeOK, Draining,
       chipVars, driverVars, handlerVars
  <2>35. CASE UNCHANGED vars
    BY <2>35 DEF vars, TypeInv, TypeOK, Draining, chipVars, driverVars,
       handlerVars
  <2> QED
    BY <2>1, <2>2, <2>3, <2>4, <2>5, <2>6, <2>7, <2>8, <2>9, <2>10, <2>11,
       <2>12, <2>13, <2>14, <2>15, <2>16, <2>17, <2>18, <2>19, <2>20, <2>21,
       <2>22, <2>23, <2>24, <2>25, <2>26, <2>27, <2>28, <2>29, <2>30, <2>31,
       <2>32, <2>33, <2>34, <2>35 DEF Next, Chip, Transmit, Watchdog,
       Handler
<1> QED BY <1>1, <1>2, FlagsInvariant, PTL DEF Spec

(* Type correctness of the driver and the chip, with the flags and counters*)
(* within their bounds.                                                    *)
THEOREM TypeCorrect == Spec => []TypeOK
<1>1. TypeInv => TypeOK
  BY DEF TypeInv
<1> QED BY <1>1, TypeInvariant, PTL

-------------------------------------------------------------------------------
(* The interrupt line and the mask.                                        *)
LEMMA LineInvariant == Spec => []LineInv
<1> USE Dm9000Assumption, MaskFacts
<1>1. Init => LineInv
  BY DEF Init, LineInv
<1>2. TypeInv /\ LineInv /\ [Next]_vars => LineInv'
  <2> SUFFICES ASSUME TypeInv, LineInv, [Next]_vars
               PROVE  LineInv'
    OBVIOUS
  <2> USE DEF TypeInv, TypeOK
  <2>1. CASE ChipSends
    BY <2>1 DEF ChipSends, Edge, LineInv, Line, chipVars, driverVars,
       handlerVars
  <2>2. CASE ChipReceives
    BY <2>2 DEF ChipReceives, Edge, LineInv, Line, chipVars, driverVars,
       handlerVars
  <2>3. CASE LinkChanges
    BY <2>3 DEF LinkChanges, Edge, LineInv, Line, chipVars, driverVars,
       handlerVars
  <2>4. CASE dmfe_open
    BY <2>4 DEF dmfe_open, dmfe_init_dm9000, LineInv, Line, chipVars,
       driverVars, handlerVars
  <2>5. CASE OpenLink
    BY <2>5 DEF OpenLink, Runs, Goto, LineInv, Line, chipVars, driverVars,
       handlerVars
  <2>6. CASE dmfe_stop
    BY <2>6 DEF dmfe_stop, LineInv, Line, chipVars, driverVars, handlerVars
  <2>7. CASE Xmit
    BY <2>7 DEF Xmit, Runs, Goto, Limit, LineInv, Line, chipVars, driverVars,
       handlerVars
  <2>8. CASE XmitStore
    BY <2>8 DEF XmitStore, Runs, Goto, LineInv, Line, chipVars, driverVars,
       handlerVars
  <2>9. CASE XmitTest
    BY <2>9 DEF XmitTest, Runs, Goto, Limit, LineInv, Line, chipVars,
       driverVars, handlerVars
  <2>10. CASE XmitStop
    BY <2>10 DEF XmitStop, Runs, Goto, LineInv, Line, chipVars, driverVars,
       handlerVars
  <2>11. CASE XmitMask
    BY <2>11 DEF XmitMask, Goto, LineInv, Line, chipVars, driverVars,
       handlerVars
  <2>12. CASE XmitSend
    BY <2>12 DEF XmitSend, Runs, Goto, LineInv, Line, chipVars, driverVars,
       handlerVars
  <2>13. CASE XmitUnmask
    BY <2>13 DEF XmitUnmask, Edge, Runs, Goto, LineInv, Line, chipVars,
       driverVars, handlerVars
  <2>14. CASE Timeout
    BY <2>14 DEF Timeout, Runs, Goto, LineInv, Line, chipVars, driverVars,
       handlerVars
  <2>15. CASE TimeoutWait
    BY <2>15 DEF TimeoutWait, Runs, Goto, LineInv, Line, chipVars, driverVars,
       handlerVars
  <2>16. CASE TimeoutClear
    BY <2>16 DEF TimeoutClear, Runs, Goto, LineInv, Line, chipVars,
       driverVars, handlerVars
  <2>17. CASE TimeoutReset
    BY <2>17 DEF TimeoutReset, Edge, Runs, Goto, dmfe_init_dm9000, LineInv,
       Line, chipVars, driverVars, handlerVars
  <2>18. CASE TimeoutRestart
    BY <2>18 DEF TimeoutRestart, Runs, Goto, LineInv, Line, chipVars,
       driverVars, handlerVars
  <2>19. CASE Timer
    BY <2>19 DEF Timer, Runs, Goto, LineInv, Line, chipVars, driverVars,
       handlerVars
  <2>20. CASE TimerEnable
    BY <2>20 DEF TimerEnable, Edge, Runs, Goto, LineInv, Line, chipVars,
       driverVars, handlerVars
  <2>21. CASE Interrupt
    BY <2>21 DEF Interrupt, LineInv, Line, chipVars, driverVars, handlerVars
  <2>22. CASE Enter
    BY <2>22 DEF Enter, In, LineInv, Line, chipVars, driverVars, handlerVars
  <2>23. CASE Clear
    BY <2>23 DEF Clear, In, LineInv, Line, chipVars, driverVars, handlerVars
  <2>24. CASE Link
    BY <2>24 DEF Link, In, LineInv, Line, chipVars, driverVars, handlerVars
  <2>25. CASE RxStart
    BY <2>25 DEF RxStart, In, LineInv, Line, chipVars, driverVars, handlerVars
  <2>26. CASE RxEmpty
    BY <2>26 DEF RxEmpty, In, LineInv, Line, chipVars, driverVars, handlerVars
  <2>27. CASE RxPacket
    BY <2>27 DEF RxPacket, In, LineInv, Line, chipVars, driverVars, handlerVars
  <2>28. CASE RxBad
    BY <2>28 DEF RxBad, In, LineInv, Line, chipVars, driverVars, handlerVars
  <2>29. CASE RxSqueeze
    BY <2>29 DEF RxSqueeze, In, LineInv, Line, chipVars, driverVars, handlerVars
  <2>30. CASE RxError
    BY <2>30 DEF RxError, Edge, In, Forgets, dmfe_init_dm9000, LineInv, Line,
       chipVars, driverVars, handlerVars
  <2>31. CASE TxDone
    BY <2>31 DEF TxDone, In, dmfe_tx_done, LineInv, Line, chipVars,
       driverVars, handlerVars
  <2>32. CASE TxNone
    BY <2>32 DEF TxNone, In, LineInv, Line, chipVars, driverVars, handlerVars
  <2>33. CASE TxDrained
    BY <2>33 DEF TxDrained, In, Forgets, LineInv, Line, chipVars, driverVars,
       handlerVars
  <2>34. CASE Exit
    BY <2>34 DEF Exit, Edge, In, LineInv, Line, chipVars, driverVars,
       handlerVars
  <2>35. CASE UNCHANGED vars
    BY <2>35 DEF vars, LineInv, Line, chipVars, driverVars, handlerVars
  <2> QED
    BY <2>1, <2>2, <2>3, <2>4, <2>5, <2>6, <2>7, <2>8, <2>9, <2>10, <2>11,
       <2>12, <2>13, <2>14, <2>15, <2>16, <2>17, <2>18, <2>19, <2>20, <2>21,
       <2>22, <2>23, <2>24, <2>25, <2>26, <2>27, <2>28, <2>29, <2>30, <2>31,
       <2>32, <2>33, <2>34, <2>35 DEF Next, Chip, Transmit, Watchdog,
       Handler
<1> QED BY <1>1, <1>2, TypeInvariant, PTL DEF Spec

(* An event that the mask enables, and that came while the handler ran,    *)
(* has raised the line again: no edge is lost.                             *)
THEOREM NoEventIsLost == Spec => []EventIsServed
<1>1. LineInv => EventIsServed
  BY DEF LineInv, EventIsServed
<1> QED BY <1>1, LineInvariant, PTL

-------------------------------------------------------------------------------
(* The packets that are left in the chip.                                  *)
LEMMA RxInvariant == Spec => []RxInv
<1> USE Dm9000Assumption
<1>1. Init => RxInv
  BY DEF Init, RxInv
<1>2. TypeInv /\ RxInv /\ [Next]_vars => RxInv'
  <2> SUFFICES ASSUME TypeInv, RxInv, [Next]_vars
               PROVE  RxInv'
    OBVIOUS
  <2> USE DEF TypeInv, TypeOK
  <2>1. CASE ChipSends
    BY <2>1 DEF ChipSends, Edge, RxInv, chipVars, driverVars, handlerVars
  <2>2. CASE ChipReceives
    BY <2>2 DEF ChipReceives, Edge, RxInv, chipVars, driverVars, handlerVars
  <2>3. CASE LinkChanges
    BY <2>3 DEF LinkChanges, Edge, RxInv, chipVars, driverVars, handlerVars
  <2>4. CASE dmfe_open
    BY <2>4 DEF dmfe_open, dmfe_init_dm9000, RxInv, chipVars, driverVars,
       handlerVars
  <2>5. CASE OpenLink
    BY <2>5 DEF OpenLink, Runs, Goto, RxInv, chipVars, driverVars, handlerVars
  <2>6. CASE dmfe_stop
    BY <2>6 DEF dmfe_stop, RxInv, chipVars, driverVars, handlerVars
  <2>7. CASE Xmit
    BY <2>7 DEF Xmit, Runs, Goto, Limit, RxInv, chipVars, driverVars,
       handlerVars
  <2>8. CASE XmitStore
    BY <2>8 DEF XmitStore, Runs, Goto, RxInv, chipVars, driverVars, handlerVars
  <2>9. CASE XmitTest
    BY <2>9 DEF XmitTest, Runs, Goto, Limit, RxInv, chipVars, driverVars,
       handlerVars
  <2>10. CASE XmitStop
    BY <2>10 DEF XmitStop, Runs, Goto, RxInv, chipVars, driverVars, handlerVars
  <2>11. CASE XmitMask
    BY <2>11 DEF XmitMask, Goto, RxInv, chipVars, driverVars, handlerVars
  <2>12. CASE XmitSend
    BY <2>12 DEF XmitSend, Runs, Goto, RxInv, chipVars, driverVars, handlerVars
  <2>13. CASE XmitUnmask
    BY <2>13 DEF XmitUnmask, Edge, Runs, Goto, RxInv, chipVars, driverVars,
       handlerVars
  <2>14. CASE Timeout
    BY <2>14 DEF Timeout, Runs, Goto, RxInv, chipVars, driverVars, handlerVars
  <2>15. CASE TimeoutWait
    BY <2>15 DEF TimeoutWait, Runs, Goto, RxInv, chipVars, driverVars,
       handlerVars
  <2>16. CASE TimeoutClear
    BY <2>16 DEF TimeoutClear, Runs, Goto, RxInv, chipVars, driverVars,
       handlerVars
  <2>17. CASE TimeoutReset
    BY <2>17 DEF TimeoutReset, Edge, Runs, Goto, dmfe_init_dm9000, RxInv,
       chipVars, driverVars, handlerVars
  <2>18. CASE TimeoutRestart
    BY <2>18 DEF TimeoutRestart, Runs, Goto, RxInv, chipVars, driverVars,
       handlerVars
  <2>19. CASE Timer
    BY <2>19 DEF Timer, Runs, Goto, RxInv, chipVars, driverVars, handlerVars
  <2>20. CASE TimerEnable
    BY <2>20 DEF TimerEnable, Edge, Runs, Goto, RxInv, chipVars, driverVars,
       handlerVars
  <2>21. CASE Interrupt
    BY <2>21 DEF Interrupt, RxInv, chipVars, driverVars, handlerVars
  <2>22. CASE Enter
    BY <2>22 DEF Enter, In, RxInv, chipVars, driverVars, handlerVars
  <2>23. CASE Clear
    BY <2>23 DEF Clear, In, RxInv, chipVars, driverVars, handlerVars
  <2>24. CASE Link
    BY <2>24 DEF Link, In, RxInv, chipVars, driverVars, handlerVars
  <2>25. CASE RxStart
    BY <2>25 DEF RxStart, In, RxInv, chipVars, driverVars, handlerVars
  <2>26. CASE RxEmpty
    BY <2>26 DEF RxEmpty, In, RxInv, chipVars, driverVars, handlerVars
  <2>27. CASE RxPacket
    BY <2>27 DEF RxPacket, In, RxInv, chipVars, driverVars, handlerVars
  <2>28. CASE RxBad
    BY <2>28 DEF RxBad, In, RxInv, chipVars, driverVars, handlerVars
  <2>29. CASE RxSqueeze
    BY <2>29 DEF RxSqueeze, In, RxInv, chipVars, driverVars, handlerVars
  <2>30. CASE RxError
    BY <2>30 DEF RxError, Edge, In, Forgets, dmfe_init_dm9000, RxInv,
       chipVars, driverVars, handlerVars
  <2>31. CASE TxDone
    BY <2>31 DEF TxDone, In, dmfe_tx_done, RxInv, chipVars, driverVars,
       handlerVars
  <2>32. CASE TxNone
    BY <2>32 DEF TxNone, In, RxInv, chipVars, driverVars, handlerVars
  <2>33. CASE TxDrained
    BY <2>33 DEF TxDrained, In, Forgets, RxInv, chipVars, driverVars,
       handlerVars
  <2>34. CASE Exit
    BY <2>34 DEF Exit, Edge, In, RxInv, chipVars, driverVars, handlerVars
  <2>35. CASE UNCHANGED vars
    BY <2>35 DEF vars, RxInv, chipVars, driverVars, handlerVars
  <2> QED
    BY <2>1, <2>2, <2>3, <2>4, <2>5, <2>6, <2>7, <2>8, <2>9, <2>10, <2>11,
       <2>12, <2>13, <2>14, <2>15, <2>16, <2>17, <2>18, <2>19, <2>20, <2>21,
       <2>22, <2>23, <2>24, <2>25, <2>26, <2>27, <2>28, <2>29, <2>30, <2>31,
       <2>32, <2>33, <2>34, <2>35 DEF Next, Chip, Transmit, Watchdog,
       Handler
<1> QED BY <1>1, <1>2, TypeInvariant, PTL DEF Spec

(* A packet the handler leaves in the chip, other than for lack of memory, *)
(* came after ISR was cleared, and raises an interrupt, at the latest when *)
(* the timer enables it.                                                   *)
THEOREM NoPacketIsForgotten == Spec => []RxNotForgotten
<1>1. RxInv /\ LineInv => RxNotForgotten
  BY DEF RxInv, LineInv, RxNotForgotten
<1> QED BY <1>1, RxInvariant, LineInvariant, PTL

-------------------------------------------------------------------------------
(* The packets counted and the packets in the chip.                        *)
LEMMA TxInvariant == Spec => []TxInv
<1> USE Dm9000Assumption
<1>1. Init => TxInv
  BY DEF Init, TxInv, NoOverrun
<1>2. TypeInv /\ LineInv /\ LineInv' /\ TxInv /\ [Next]_vars => TxInv'
  <2> SUFFICES ASSUME TypeInv, LineInv, LineInv', TxInv, [Next]_vars
               PROVE  TxInv'
    OBVIOUS
  <2> USE DEF TypeInv, TypeOK
  <2>0. /\ Cardinality(NSR) \in 0..2
        /\ NSR = {} <=> Cardinality(NSR) = 0
        /\ Cardinality(NSR \cup {slot}) <= Cardinality(NSR) + 1
        /\ Cardinality(NSR \cup {slot}) \in 0..2
        /\ Cardinality({}) = 0
    BY NsrFacts, FS_EmptySet
  <2>1. CASE ChipSends
    BY <2>1, <2>0 DEF ChipSends, Edge, TxInv, Counted, Draining, NoOverrun,
       Flags, chipVars, driverVars, handlerVars
  <2>2. CASE ChipReceives
    BY <2>2, <2>0 DEF ChipReceives, Edge, TxInv, Counted, Draining, NoOverrun,
       Flags, chipVars, driverVars, handlerVars
  <2>3. CASE LinkChanges
    BY <2>3, <2>0 DEF LinkChanges, Edge, TxInv, Counted, Draining, NoOverrun,
       Flags, chipVars, driverVars, handlerVars
  <2>4. CASE dmfe_open
    BY <2>4, <2>0 DEF dmfe_open, dmfe_init_dm9000, TxInv, Counted, Draining,
       NoOverrun, Flags, chipVars, driverVars, handlerVars
  <2>5. CASE OpenLink
    BY <2>5, <2>0 DEF OpenLink, Runs, Goto, TxInv, Counted, Draining,
       NoOverrun, Flags, chipVars, driverVars, handlerVars
  <2>6. CASE dmfe_stop
    BY <2>6, <2>0 DEF dmfe_stop, TxInv, Counted, Draining, NoOverrun, Flags,
       chipVars, driverVars, handlerVars
  <2>7. CASE Xmit
    BY <2>7, <2>0 DEF Xmit, Runs, Goto, Limit, TxInv, Counted, Draining,
       NoOverrun, Flags, chipVars, driverVars, handlerVars
  <2>8. CASE XmitStore
    BY <2>8, <2>0 DEF XmitStore, Runs, Goto, TxInv, Counted, Draining,
       NoOverrun, Flags, chipVars, driverVars, handlerVars
  <2>9. CASE XmitTest
    BY <2>9, <2>0 DEF XmitTest, Runs, Goto, Limit, TxInv, Counted, Draining,
       NoOverrun, Flags, chipVars, driverVars, handlerVars
  <2>10. CASE XmitStop
    BY <2>10, <2>0 DEF XmitStop, Runs, Goto, TxInv, Counted, Draining,
       NoOverrun, Flags, chipVars, driverVars, handlerVars
  <2>11. CASE XmitMask
    BY <2>11, <2>0 DEF XmitMask, Goto, TxInv, Counted, Draining, NoOverrun,
       Flags, chipVars, driverVars, handlerVars
  <2>12. CASE XmitSend
    BY <2>12, <2>0 DEF XmitSend, Runs, Goto, TxInv, Counted, Draining,
       NoOverrun, Flags, chipVars, driverVars, handlerVars
  <2>13. CASE XmitUnmask
    BY <2>13, <2>0 DEF XmitUnmask, Edge, Runs, Goto, TxInv, Counted, Draining,
       NoOverrun, Flags, chipVars, driverVars, handlerVars
  <2>14. CASE Timeout
    BY <2>14, <2>0 DEF Timeout, Runs, Goto, TxInv, Counted, Draining,
       NoOverrun, Flags, chipVars, driverVars, handlerVars
  <2>15. CASE TimeoutWait
    BY <2>15, <2>0 DEF TimeoutWait, Runs, Goto, TxInv, Counted, Draining,
       NoOverrun, Flags, chipVars, driverVars, handlerVars
  <2>16. CASE TimeoutClear
    <3>1. up /\ hpc = "none" /\ ~irq /\ pc = "clear" /\ fifo = 0 /\ UNCHANGED NSR
      BY <2>16 DEF TimeoutClear, Runs, TxInv, chipVars
    <3>2. ~Line /\ IMR # "none"
      BY <3>1 DEF LineInv
    <3>3. "TX" \notin ISR
      BY <3>2, MaskFacts DEF Line
    <3>4. NSR = {}
      BY <3>1, <3>3 DEF TxInv
    <3> QED
      BY <2>0, <2>16, <3>1, <3>4 DEF TimeoutClear, Goto, TxInv, Counted, Draining, NoOverrun,
         chipVars, handlerVars
  <2>17. CASE TimeoutReset
    BY <2>17, <2>0 DEF TimeoutReset, Edge, Runs, Goto, dmfe_init_dm9000,
       TxInv, Counted, Draining, NoOverrun, Flags, chipVars, driverVars,
       handlerVars
  <2>18. CASE TimeoutRestart
    BY <2>18, <2>0 DEF TimeoutRestart, Runs, Goto, TxInv, Counted, Draining,
       NoOverrun, Flags, chipVars, driverVars, handlerVars
  <2>19. CASE Timer
    BY <2>19, <2>0 DEF Timer, Runs, Goto, TxInv, Counted, Draining, NoOverrun,
       Flags, chipVars, driverVars, handlerVars
  <2>20. CASE TimerEnable
    BY <2>20, <2>0 DEF TimerEnable, Edge, Runs, Goto, TxInv, Counted,
       Draining, NoOverrun, Flags, chipVars, driverVars, handlerVars
  <2>21. CASE Interrupt
    BY <2>21, <2>0 DEF Interrupt, TxInv, Counted, Draining, NoOverrun, Flags,
       chipVars, driverVars, handlerVars
  <2>22. CASE Enter
    BY <2>22, <2>0 DEF Enter, In, TxInv, Counted, Draining, NoOverrun, Flags,
       chipVars, driverVars, handlerVars
  <2>23. CASE Clear
    BY <2>23, <2>0 DEF Clear, In, TxInv, Counted, Draining, NoOverrun, Flags,
       chipVars, driverVars, handlerVars
  <2>24. CASE Link
    BY <2>24, <2>0 DEF Link, In, TxInv, Counted, Draining, NoOverrun, Flags,
       chipVars, driverVars, handlerVars
  <2>25. CASE RxStart
    BY <2>25, <2>0 DEF RxStart, In, TxInv, Counted, Draining, NoOverrun,
       Flags, chipVars, driverVars, handlerVars
  <2>26. CASE RxEmpty
    BY <2>26, <2>0 DEF RxEmpty, In, TxInv, Counted, Draining, NoOverrun,
       Flags, chipVars, driverVars, handlerVars
  <2>27. CASE RxPacket
    BY <2>27, <2>0 DEF RxPacket, In, TxInv, Counted, Draining, NoOverrun,
       Flags, chipVars, driverVars, handlerVars
  <2>28. CASE RxBad
    BY <2>28, <2>0 DEF RxBad, In, TxInv, Counted, Draining, NoOverrun, Flags,
       chipVars, driverVars, handlerVars
  <2>29. CASE RxSqueeze
    BY <2>29, <2>0 DEF RxSqueeze, In, TxInv, Counted, Draining, NoOverrun,
       Flags, chipVars, driverVars, handlerVars
  <2>30. CASE RxError
    BY <2>30, <2>0 DEF RxError, Edge, In, Forgets, dmfe_init_dm9000, TxInv,
       Counted, Draining, NoOverrun, Flags, chipVars, driverVars, handlerVars
  <2>31. CASE TxDone
    <3>1. /\ hpc \in {"break", "tx"} /\ NSR' = {}
          /\ tx_pkt_cnt' = tx_pkt_cnt - Cardinality(NSR)
          /\ UNCHANGED <<fifo, up, irq, ISR, int_status, pc, cnt, cut, overrun>>
      BY <2>31 DEF TxDone, In, dmfe_tx_done
    <3>2. \/ hpc' \in {"breakDrain", "txDrain"}
          \/ hpc' \in {"tx", "exit"} /\ tx_pkt_cnt >= Cardinality(NSR) /\ NSR # {}
      BY <2>31 DEF TxDone, dmfe_tx_done
    <3> QED
      BY <2>0, <3>1, <3>2 DEF TxInv, Counted, Draining, NoOverrun
  <2>32. CASE TxNone
    BY <2>32, <2>0 DEF TxNone, In, TxInv, Counted, Draining, NoOverrun, Flags,
       chipVars, driverVars, handlerVars
  <2>33. CASE TxDrained
    BY <2>33, <2>0 DEF TxDrained, In, Forgets, TxInv, Counted, Draining,
       NoOverrun, Flags, chipVars, driverVars, handlerVars
  <2>34. CASE Exit
    <3>1. /\ hpc = "exit" /\ hpc' = "none" /\ IMR' \in {"noRx", "all"}
          /\ UNCHANGED <<fifo, NSR, ISR, up, tx_pkt_cnt, pc, cnt, cut, overrun>>
          /\ irq => irq'
      BY <2>34 DEF Exit, In, Edge, driverVars
    <3>2. ASSUME up, NSR # {}
          PROVE  irq'
      <4>1. "TX" \in ISR'
        BY <3>1, <3>2 DEF TxInv
      <4>2. Line'
        BY <3>1, <4>1, MaskFacts DEF Line
      <4> QED BY <3>1, <3>2, <4>2 DEF LineInv
    <3>3. up /\ NSR # {} => "TX" \in ISR
      BY <3>1 DEF TxInv
    <3> QED
      BY <2>0, <3>1, <3>2, <3>3 DEF TxInv, Counted, Draining, NoOverrun
  <2>35. CASE UNCHANGED vars
    BY <2>35 DEF vars, TxInv, Counted, Draining, NoOverrun, Flags, chipVars,
       driverVars, handlerVars
  <2> QED
    BY <2>1, <2>2, <2>3, <2>4, <2>5, <2>6, <2>7, <2>8, <2>9, <2>10, <2>11,
       <2>12, <2>13, <2>14, <2>15, <2>16, <2>17, <2>18, <2>19, <2>20, <2>21,
       <2>22, <2>23, <2>24, <2>25, <2>26, <2>27, <2>28, <2>29, <2>30, <2>31,
       <2>32, <2>33, <2>34, <2>35 DEF Next, Chip, Transmit, Watchdog,
       Handler
<1> QED BY <1>1, <1>2, TypeInvariant, LineInvariant, PTL DEF Spec

(* The chip is given a third packet only if the handler has cleared the    *)
(* count under a packet that transmit had counted and not yet sent.        *)
THEOREM ThirdPacketNeedsReset == Spec => []NoOverrun
<1>1. TxInv => NoOverrun
  BY DEF TxInv
<1> QED BY <1>1, TxInvariant, PTL
===============================================================================
