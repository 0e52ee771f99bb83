------------------------------ MODULE TouchProofs -----------------------------
(***************************************************************************)
(* Proofs about Touch, for any number of samples, positions and crosses.   *)
(*                                                                         *)
(* DataInv is about the values: the report in the slot is a whole one and  *)
(* stays until the main program has copied it, a sum of n positions lies   *)
(* between n * Lo and n * Hi.  AliveInv is about the interrupts: at each   *)
(* point of a handler, what will look at the pen next, and whether samples *)
(* are kept.  It says nothing while Isr_Adc reads bit 15, and is stronger  *)
(* from there to Acknowledge, which wipes out what is pending.             *)
(***************************************************************************)
EXTENDS Touch, TLAPS

Whole(r) == \/ r = NoReport
            \/ r.x \in Positions /\ r = [x |-> r.x, y |-> r.x, p |-> 1]

DataInv == /\ TypeOK
           /\ Whole(g_ts)
           /\ rpc \in {"x", "y", "p", "clear"} => g_ts_data_valid
           /\ rpc \in {"y", "p", "clear"} => raw.x = g_ts.x
           /\ rpc \in {"p", "clear"} => raw.y = g_ts.y
           /\ rpc = "clear" => raw.p = g_ts.p
           /\ rpc = "got" => Whole(raw)
           /\ sum_x \in (cnt * Lo)..(cnt * Hi)
           /\ cal = "release" => cnt > 0
           /\ cal # "draw" => cross < Crosses

(* What a handler leaves behind: a conversion of its own in the automatic  *)
(* mode, the timer where the pen is waited for to go up, samples only      *)
(* while more are taken.                                                   *)
Left == /\ mode = "auto" => converting /\ fresh
        /\ mode = "waitUp" => g_ts_timer_enable
        /\ adc_cnt > 0 => mode = "auto"

(* Between the handlers, and until Isr_Tc or the timer has looked at the   *)
(* pen: an average is going on in the automatic mode only, which raises no *)
(* INT_TC.                                                                 *)
Between == /\ mode = "auto" => converting \/ "ADC" \in SUBSRCPND
           /\ mode = "waitUp" => g_ts_timer_enable
           /\ adc_cnt > 0 => mode = "auto" /\ "TC" \notin SUBSRCPND

AliveInv == /\ hpc \in {"main", "tc"} \cup InTimer => Between
            /\ hpc = "tc" => SUBSRCPND # {}
            /\ hpc \in {"timerUp", "timerDown", "tcUp", "tcDown"} => adc_cnt = 0
            /\ hpc \in {"tcUp", "tcDown"} => (mode = "waitUp" => g_ts_timer_enable)
            /\ hpc = "adc" => /\ mode = "waitUp" => g_ts_timer_enable
                              /\ "ADC" \in SUBSRCPND \/ Left
            /\ hpc = "ack" => Left

-------------------------------------------------------------------------------
(* Multiplication is monotonic, and a mean lies between the bounds of what *)
(* was summed.                                                             *)
LEMMA MulMono ==
    ASSUME NEW n \in Nat, NEW a \in Int, NEW b \in Int, a <= b
    PROVE  n * a <= n * b
OBVIOUS

(* A sum of n values is bounded by m times the largest, for n up to m.     *)
LEMMA SumInRange ==
    ASSUME NEW n \in Nat, NEW m \in Nat, n <= m, NEW lo \in Nat, NEW hi \in Nat,
           NEW a \in (n * lo)..(n * hi)
    PROVE  a \in 0..(m * hi)
<1>1. hi * n <= hi * m
  BY MulMono
<1>2. n * 0 <= n * lo
  BY MulMono
<1>3. n * lo \in Int /\ n * hi \in Int /\ m * hi \in Int
  OBVIOUS
<1>4. a \in Int /\ n * lo <= a /\ a <= n * hi
  BY <1>3
<1> QED BY <1>1, <1>2, <1>3, <1>4

(* The mean of n values lies between their bounds.                         *)
LEMMA MeanInRange ==
    ASSUME NEW n \in Nat \ {0}, NEW lo \in Nat, NEW hi \in Nat,
           NEW a \in (n * lo)..(n * hi)
    PROVE  a \div n \in lo..hi
<1> DEFINE q == a \div n
<1>1. q \in Int /\ n * q <= a /\ a < n * q + n
  OBVIOUS
<1>2. n * (q + 1) = n * q + n
  BY <1>1
<1> HIDE DEF q
<1>3. lo <= q
  <2> SUFFICES ASSUME q + 1 <= lo PROVE FALSE
    BY <1>1
  <2> QED BY <1>1, <1>2, MulMono
<1>4. q <= hi
  <2> SUFFICES ASSUME hi + 1 <= q PROVE FALSE
    BY <1>1
  <2>1. n * (hi + 1) <= n * q
    BY <1>1, MulMono
  <2> QED BY <1>1, <2>1
<1>5. q \in lo..hi
  BY <1>1, <1>3, <1>4
<1> QED BY <1>5 DEF q

-------------------------------------------------------------------------------
(* The variables that are true or false.                                   *)
LEMMA FlagsInvariant == Spec => []Flags
<1>1. Init => Flags
  BY Zenon DEF Init, Flags
<1>2. Flags /\ [Next]_vars => Flags'
  <2> SUFFICES ASSUME Flags, [Next]_vars
               PROVE  Flags'
    OBVIOUS
  <2>1. CASE PenMoves
    BY <2>1, Zenon DEF PenMoves, Flags, chipVars, sumVars, reportVars, mainVars
  <2>2. CASE PenDownIsSeen
    BY <2>2, Zenon DEF PenDownIsSeen, Flags, chipVars, sumVars, reportVars,
       mainVars
  <2>3. CASE ConversionEnds
    BY <2>3, Zenon DEF ConversionEnds, InAdcTs, Flags, chipVars, sumVars,
       reportVars, mainVars
  <2>4. CASE Timer0
    BY <2>4, Zenon DEF Timer0, Flags, chipVars, sumVars, reportVars, mainVars
  <2>5. CASE TakeInterrupt
    BY <2>5, Zenon DEF TakeInterrupt, Flags, chipVars, sumVars, reportVars,
       mainVars
  <2>6. CASE touchscreen_timer_irq
    BY <2>6, Zenon DEF touchscreen_timer_irq, handlerFrame, PenUpBit, Flags,
       chipVars, sumVars, reportVars, mainVars
  <2>7. CASE TimerUp
    BY <2>7, Zenon DEF TimerUp, handlerFrame, Wait, report_ts_xy, Flags,
       chipVars, sumVars, reportVars, mainVars
  <2>8. CASE TimerDown
    BY <2>8, Zenon DEF TimerDown, handlerFrame, Measure, Flags, chipVars,
       sumVars, reportVars, mainVars
  <2>9. CASE Isr_Tc
    BY <2>9, Zenon DEF Isr_Tc, handlerFrame, PenUpBit, Flags, chipVars,
       sumVars, reportVars, mainVars
  <2>10. CASE TcUp
    BY <2>10, Zenon DEF TcUp, handlerFrame, Wait, report_ts_xy, Flags,
       chipVars, sumVars, reportVars, mainVars
  <2>11. CASE TcDown
    BY <2>11, Zenon DEF TcDown, handlerFrame, Measure, Flags, chipVars,
       sumVars, reportVars, mainVars
  <2>12. CASE Isr_Adc
    BY <2>12, Zenon DEF Isr_Adc, handlerFrame, Wait, Flags, chipVars, sumVars,
       reportVars, mainVars
  <2>13. CASE ReadBit15
    BY <2>13, Zenon DEF ReadBit15, handlerFrame, PenUpBit, Flags, chipVars,
       sumVars, reportVars, mainVars
  <2>14. CASE AdcUp
    BY <2>14, Zenon DEF AdcUp, handlerFrame, Wait, report_ts_xy, Flags,
       chipVars, sumVars, reportVars, mainVars
  <2>15. CASE AdcDown
    BY <2>15, Zenon DEF AdcDown, handlerFrame, Wait, Measure, report_ts_xy,
       LastSample, NextSample, Flags, chipVars, sumVars, reportVars, mainVars
  <2>16. CASE Acknowledge
    BY <2>16, Zenon DEF Acknowledge, Flags, chipVars, sumVars, reportVars,
       mainVars
  <2>17. CASE Main
    BY <2>17, Zenon DEF Main, AwaitReport, CopyReport, ClearReport, ReadAgain,
       Skip, Sum, Add, PointDone, Draw, mainFrame, Flags, chipVars, sumVars,
       reportVars, mainVars
  <2>18. CASE UNCHANGED vars
    BY <2>18, Zenon DEF vars, Flags, chipVars, sumVars, reportVars, mainVars
  <2> QED
    BY <2>1, <2>2, <2>3, <2>4, <2>5, <2>6, <2>7, <2>8, <2>9, <2>10, <2>11,
       <2>12, <2>13, <2>14, <2>15, <2>16, <2>17, <2>18 DEF Next, Handler
<1> QED BY <1>1, <1>2, PTL DEF Spec

-------------------------------------------------------------------------------
(* A report is offered to a free slot only.                                *)
LEMMA ReportKeeps ==
    ASSUME DataInv, NEW x \in {0} \cup Positions, NEW p \in {0, 1},
           x = 0 <=> p = 0, report_ts_xy(x, x, p)
    PROVE  /\ g_ts' \in Reports /\ Whole(g_ts') /\ offered' \in {0, 1}
           /\ g_ts_data_valid => g_ts' = g_ts /\ g_ts_data_valid'
<1>1. g_ts \in Reports /\ Whole(g_ts)
  BY DEF DataInv, TypeOK
<1>2. DEFINE r == [x |-> x, y |-> x, p |-> p]
<1>3. r \in Reports /\ Whole(r)
  BY TouchAssumption DEF Reports, Whole, NoReport, Positions
<1>4. CASE g_ts_data_valid
  BY <1>1, <1>4 DEF report_ts_xy
<1>5. CASE ~g_ts_data_valid
  BY <1>3, <1>5 DEF report_ts_xy
<1> QED BY <1>4, <1>5

(* A report is whole, and what the main program has copied of it is still  *)
(* in it.                                                                  *)
LEMMA DataInvariant == Spec => []DataInv
<1> USE TouchAssumption
<1>1. Init /\ Flags => DataInv
  BY DEF Init, DataInv, TypeOK, Whole, NoReport, Reports, Positions
<1>2. DataInv /\ Flags' /\ [Next]_vars => DataInv'
  <2> SUFFICES ASSUME DataInv, Flags', [Next]_vars
               PROVE  DataInv'
    OBVIOUS
  <2>0. 0 \in {0} \cup Positions /\ Lo \in Nat /\ Hi \in Nat /\ Samples \in Nat \ {0}
    BY DEF Positions
  <2>1. CASE PenMoves
    BY <2>1, <2>0 DEF PenMoves, DataInv, TypeOK, InTimer, InAdcTs, chipVars,
       sumVars, reportVars, mainVars
  <2>2. CASE PenDownIsSeen
    BY <2>2, <2>0 DEF PenDownIsSeen, DataInv, TypeOK, InTimer, InAdcTs,
       chipVars, sumVars, reportVars, mainVars
  <2>3. CASE ConversionEnds
    BY <2>3, <2>0 DEF ConversionEnds, DataInv, TypeOK, InTimer, InAdcTs,
       chipVars, sumVars, reportVars, mainVars
  <2>4. CASE Timer0
    BY <2>4, <2>0 DEF Timer0, DataInv, TypeOK, InTimer, InAdcTs, chipVars,
       sumVars, reportVars, mainVars
  <2>5. CASE TakeInterrupt
    BY <2>5, <2>0 DEF TakeInterrupt, DataInv, TypeOK, InTimer, InAdcTs,
       chipVars, sumVars, reportVars, mainVars
  <2>6. CASE touchscreen_timer_irq
    BY <2>6, <2>0 DEF touchscreen_timer_irq, handlerFrame, PenUpBit, DataInv,
       TypeOK, InTimer, InAdcTs, chipVars, sumVars, reportVars, mainVars
  <2>7. CASE TimerUp
    <3>1. report_ts_xy(0, 0, 0)
      BY <2>7 DEF TimerUp
    <3>2. /\ g_ts' \in Reports /\ Whole(g_ts') /\ offered' \in {0, 1}
          /\ g_ts_data_valid => g_ts' = g_ts /\ g_ts_data_valid'
      BY <2>0, <3>1, ReportKeeps
    <3> QED
      BY <2>7, <3>2 DEF TimerUp, DataInv, TypeOK, handlerFrame, Wait, sumVars, mainVars,
         InTimer, InAdcTs
  <2>8. CASE TimerDown
    BY <2>8, <2>0 DEF TimerDown, handlerFrame, Measure, DataInv, TypeOK,
       InTimer, InAdcTs, chipVars, sumVars, reportVars, mainVars
  <2>9. CASE Isr_Tc
    BY <2>9, <2>0 DEF Isr_Tc, handlerFrame, PenUpBit, DataInv, TypeOK,
       InTimer, InAdcTs, chipVars, sumVars, reportVars, mainVars
  <2>10. CASE TcUp
    <3>1. report_ts_xy(0, 0, 0)
      BY <2>10 DEF TcUp
    <3>2. /\ g_ts' \in Reports /\ Whole(g_ts') /\ offered' \in {0, 1}
          /\ g_ts_data_valid => g_ts' = g_ts /\ g_ts_data_valid'
      BY <2>0, <3>1, ReportKeeps
    <3> QED
      BY <2>10, <3>2 DEF TcUp, DataInv, TypeOK, handlerFrame, Wait, sumVars, mainVars,
         InTimer, InAdcTs
  <2>11. CASE TcDown
    BY <2>11, <2>0 DEF TcDown, handlerFrame, Measure, DataInv, TypeOK,
       InTimer, InAdcTs, chipVars, sumVars, reportVars, mainVars
  <2>12. CASE Isr_Adc
    BY <2>12, <2>0 DEF Isr_Adc, handlerFrame, Wait, DataInv, TypeOK, InTimer,
       InAdcTs, chipVars, sumVars, reportVars, mainVars
  <2>13. CASE ReadBit15
    BY <2>13, <2>0 DEF ReadBit15, handlerFrame, PenUpBit, DataInv, TypeOK,
       InTimer, InAdcTs, chipVars, sumVars, reportVars, mainVars
  <2>14. CASE AdcUp
    <3>1. report_ts_xy(0, 0, 0)
      BY <2>14 DEF AdcUp
    <3>2. /\ g_ts' \in Reports /\ Whole(g_ts') /\ offered' \in {0, 1}
          /\ g_ts_data_valid => g_ts' = g_ts /\ g_ts_data_valid'
      BY <2>0, <3>1, ReportKeeps
    <3> QED
      BY <2>14, <3>2 DEF AdcUp, DataInv, TypeOK, handlerFrame, Wait, sumVars, mainVars,
         InTimer, InAdcTs
  <2>15. CASE AdcDown
    <3>0. /\ adc_cnt \in 0..(Samples - 1) /\ adc_x \in (adc_cnt * Lo)..(adc_cnt * Hi)
          /\ ADCDAT \in Lo..Hi
      BY DEF DataInv, TypeOK, Positions
    <3>1. adc_x + ADCDAT \in ((adc_cnt + 1) * Lo)..((adc_cnt + 1) * Hi)
      BY <2>0, <3>0
    <3>2. CASE LastSample
      <4>1. (adc_x + ADCDAT) \div Samples \in Lo..Hi
        <5>1. adc_x + ADCDAT \in (Samples * Lo)..(Samples * Hi)
          BY <3>1, <3>2 DEF LastSample
        <5> QED BY <2>0, <5>1, MeanInRange
      <4>2. PICK x \in Positions : report_ts_xy(x, x, 1)
        BY <3>2, <4>1 DEF LastSample, Positions
      <4>3. /\ g_ts' \in Reports /\ Whole(g_ts') /\ offered' \in {0, 1}
            /\ g_ts_data_valid => g_ts' = g_ts /\ g_ts_data_valid'
        BY <2>0, <4>2, ReportKeeps DEF Positions
      <4> QED
        BY <2>15, <2>0, <3>2, <4>3 DEF AdcDown, LastSample, DataInv, TypeOK, handlerFrame, Wait,
           mainVars, InTimer, InAdcTs
    <3>3. CASE NextSample
      <4>1. adc_cnt' \in 0..(Samples - 1) /\ adc_x' \in (adc_cnt' * Lo)..(adc_cnt' * Hi)
        BY <2>0, <3>0, <3>1, <3>3 DEF NextSample
      <4> QED
        BY <2>15, <3>3, <4>1 DEF AdcDown, NextSample, DataInv, TypeOK, handlerFrame, Measure,
           reportVars, mainVars, InTimer, InAdcTs
    <3> QED BY <2>15, <3>2, <3>3 DEF AdcDown
  <2>16. CASE Acknowledge
    BY <2>16, <2>0 DEF Acknowledge, DataInv, TypeOK, InTimer, InAdcTs,
       chipVars, sumVars, reportVars, mainVars
  <2>17. CASE Main
    <3> USE DEF mainFrame, chipVars, sumVars
    <3>1. CASE AwaitReport
      BY <2>17, <3>1 DEF Main, AwaitReport, reportVars, DataInv, TypeOK
    <3>2. CASE CopyReport
      <4>1. raw' \in Reports
        BY <3>2 DEF CopyReport, DataInv, TypeOK, Reports
      <4> QED
        BY <2>17, <3>2, <4>1 DEF Main, CopyReport, reportVars, DataInv, TypeOK, Reports
    <3>3. CASE ClearReport
      <4>1. raw = g_ts
        BY <3>3 DEF ClearReport, DataInv, TypeOK, Reports
      <4> QED BY <2>17, <3>3, <4>1 DEF Main, ClearReport, DataInv, TypeOK
    <3>4. ASSUME rpc = "got", ReadAgain
          PROVE  /\ raw' \in Reports /\ rpc' = "wait" /\ UNCHANGED reportVars
                 /\ Whole(raw)
                 /\ raw.p = 1 => raw.x \in Lo..Hi
      BY <3>4 DEF ReadAgain, DataInv, Whole, NoReport, Reports, Positions
    <3>5. CASE rpc = "got" /\ ReadAgain /\ (Skip \/ Draw)
      BY <2>17, <3>4, <3>5 DEF Main, Skip, Draw, reportVars, DataInv, TypeOK
    <3>6. CASE rpc = "got" /\ ReadAgain /\ Sum
      <4>1. raw.x \in Lo..Hi /\ cnt \in 0..MaxPoints /\ sum_x \in (cnt * Lo)..(cnt * Hi)
        BY <3>4, <3>6 DEF Sum, DataInv, TypeOK
      <4>2. /\ cnt' \in 0..MaxPoints /\ sum_x' \in (cnt' * Lo)..(cnt' * Hi) /\ cnt' > 0
        BY <2>0, <3>6, <4>1 DEF Sum, Add
      <4>3. sum_x' \in 0..(MaxPoints * Hi)
        <5>1. cnt' \in Nat /\ MaxPoints \in Nat /\ cnt' <= MaxPoints
          BY <4>2
        <5> QED BY <2>0, <4>2, <5>1, SumInRange
      <4> QED
        BY <2>17, <3>4, <3>6, <4>2, <4>3 DEF Main, Sum, reportVars, DataInv, TypeOK
    <3>7. CASE rpc = "got" /\ ReadAgain /\ PointDone
      <4>1. cnt \in Nat \ {0} /\ sum_x \in (cnt * Lo)..(cnt * Hi)
        BY <3>7 DEF PointDone, DataInv, TypeOK
      <4>2. point' \in Positions
        BY <2>0, <3>7, <4>1, MeanInRange DEF PointDone, Positions
      <4>3. /\ sum_x' \in 0..(MaxPoints * Hi) /\ cnt' \in 0..MaxPoints
            /\ sum_x' \in (cnt' * Lo)..(cnt' * Hi)
        BY <2>0, <3>7 DEF PointDone
      <4>4. cross' \in 0..Crosses /\ (cal' # "draw" => cross' < Crosses)
        BY <3>7 DEF PointDone, DataInv, TypeOK
      <4> QED
        BY <2>17, <3>4, <3>7, <4>2, <4>3, <4>4 DEF Main, PointDone, reportVars, DataInv, TypeOK
    <3> QED BY <2>17, <3>1, <3>2, <3>3, <3>5, <3>6, <3>7 DEF Main
  <2>18. CASE UNCHANGED vars
    BY <2>18, <2>0 DEF vars, DataInv, TypeOK, InTimer, InAdcTs, chipVars,
       sumVars, reportVars, mainVars
  <2> QED
    BY <2>1, <2>2, <2>3, <2>4, <2>5, <2>6, <2>7, <2>8, <2>9, <2>10, <2>11,
       <2>12, <2>13, <2>14, <2>15, <2>16, <2>17, <2>18 DEF Next, Handler
<1> QED BY <1>1, <1>2, FlagsInvariant, PTL DEF Spec

(* Every variable keeps its type: the means are positions of the pen, and  *)
(* no sum runs out of its bounds.                                          *)
THEOREM TypeCorrect == Spec => []TypeOK
<1>1. DataInv => TypeOK
  BY DEF DataInv
<1> QED BY <1>1, DataInvariant, PTL

(* What ts_read_raw returns is one report, although it is copied field by  *)
(* field while the handlers run.                                           *)
THEOREM ReportsAreWhole == Spec => []ReadIsOneReport
<1>1. DataInv => ReadIsOneReport
  <2> SUFFICES ASSUME DataInv, rpc \in {"clear", "got"}
               PROVE  Whole(raw)
    BY DEF Whole, ReadIsOneReport
  <2>1. rpc = "clear" => raw = g_ts
    BY DEF DataInv, TypeOK, Reports
  <2> QED BY <2>1 DEF DataInv
<1> QED BY <1>1, DataInvariant, PTL

-------------------------------------------------------------------------------
(* Whatever the pen does, something looks at it again.                     *)
LEMMA AliveInvariant == Spec => []AliveInv
<1> USE TouchAssumption
<1>1. Init => AliveInv
  BY DEF Init, AliveInv, Between, Left, InTimer
<1>2. DataInv /\ AliveInv /\ [Next]_vars => AliveInv'
  <2> SUFFICES ASSUME DataInv, AliveInv, [Next]_vars
               PROVE  AliveInv'
    OBVIOUS
  <2>0. adc_cnt \in Nat /\ SUBSRCPND \subseteq {"TC", "ADC"}
    BY DEF DataInv, TypeOK
  <2>1. CASE PenMoves
    BY <2>1 DEF PenMoves, AliveInv, Between, Left, InTimer, chipVars, sumVars
  <2>2. CASE PenDownIsSeen
    BY <2>2 DEF PenDownIsSeen, AliveInv, Between, Left, InTimer, chipVars, sumVars
  <2>3. CASE ConversionEnds
    BY <2>3 DEF ConversionEnds, AliveInv, Between, Left, InTimer, chipVars,
       sumVars
  <2>4. CASE Timer0
    BY <2>4 DEF Timer0, AliveInv, Between, Left, InTimer, chipVars, sumVars
  <2>5. CASE TakeInterrupt
    BY <2>5 DEF TakeInterrupt, AliveInv, Between, Left, InTimer, chipVars, sumVars
  <2>6. CASE touchscreen_timer_irq
    BY <2>0, <2>6 DEF touchscreen_timer_irq, handlerFrame, PenUpBit, AliveInv,
       Between, Left, InTimer, chipVars, sumVars
  <2>7. CASE TimerUp
    BY <2>7 DEF TimerUp, handlerFrame, Wait, AliveInv, Between, Left, InTimer,
       chipVars, sumVars
  <2>8. CASE TimerDown
    BY <2>8 DEF TimerDown, handlerFrame, Measure, AliveInv, Between, Left, InTimer,
       chipVars, sumVars
  <2>9. CASE Isr_Tc
    <3>1. /\ hpc = "tc" /\ UNCHANGED <<converting, fresh, SUBSRCPND, mode, g_ts_timer_enable, adc_cnt>>
          /\ \/ "TC" \in SUBSRCPND /\ hpc' \in {"tcUp", "tcDown"}
             \/ "TC" \notin SUBSRCPND /\ hpc' = "adc"
      BY <2>9 DEF Isr_Tc, sumVars
    <3>2. Between /\ SUBSRCPND # {}
      BY <3>1 DEF AliveInv
    <3>3. CASE "TC" \in SUBSRCPND /\ hpc' \in {"tcUp", "tcDown"}
      <4>1. adc_cnt = 0
        BY <2>0, <3>2, <3>3 DEF Between
      <4> QED BY <3>1, <3>2, <3>3, <4>1 DEF AliveInv, Between, InTimer
    <3>4. CASE "TC" \notin SUBSRCPND /\ hpc' = "adc"
      <4>1. "ADC" \in SUBSRCPND
        BY <2>0, <3>2, <3>4
      <4> QED BY <3>1, <3>2, <3>4, <4>1 DEF AliveInv, Between, InTimer
    <3> QED BY <3>1, <3>3, <3>4
  <2>10. CASE TcUp
    BY <2>10 DEF TcUp, handlerFrame, Wait, AliveInv, Between, Left, InTimer, chipVars,
       sumVars
  <2>11. CASE TcDown
    BY <2>11 DEF TcDown, handlerFrame, Measure, AliveInv, Between, Left, InTimer,
       chipVars, sumVars
  <2>12. CASE Isr_Adc
    BY <2>12 DEF Isr_Adc, handlerFrame, Wait, AliveInv, Between, Left, InTimer,
       chipVars, sumVars
  <2>13. CASE ReadBit15
    BY <2>13 DEF ReadBit15, handlerFrame, PenUpBit, AliveInv, Between, Left, InTimer,
       chipVars, sumVars
  <2>14. CASE AdcUp
    BY <2>14 DEF AdcUp, handlerFrame, Wait, AliveInv, Between, Left, InTimer,
       chipVars, sumVars
  <2>15. CASE AdcDown
    BY <2>15 DEF AdcDown, handlerFrame, Wait, Measure, LastSample, NextSample,
       AliveInv, Between, Left, InTimer, chipVars, sumVars
  <2>16. CASE Acknowledge
    BY <2>16 DEF Acknowledge, AliveInv, Between, Left, InTimer, chipVars, sumVars
  <2>17. CASE Main
    BY <2>17 DEF Main, mainFrame, AliveInv, Between, Left, InTimer, chipVars, sumVars
  <2>18. CASE UNCHANGED vars
    BY <2>18 DEF vars, AliveInv, Between, Left, InTimer, chipVars, sumVars
  <2> QED
    BY <2>1, <2>2, <2>3, <2>4, <2>5, <2>6, <2>7, <2>8, <2>9, <2>10, <2>11,
       <2>12, <2>13, <2>14, <2>15, <2>16, <2>17, <2>18 DEF Next, Handler
<1> QED BY <1>1, <1>2, DataInvariant, PTL DEF Spec

(* No interrupt that Acknowledge wiped out leaves the driver deaf.         *)
THEOREM NeverDeaf == Spec => []NotDeaf
<1>1. AliveInv => NotDeaf
  BY DEF AliveInv, Between, NotDeaf
<1> QED BY <1>1, AliveInvariant, PTL

(* When a release is reported, by Isr_Tc, Isr_Adc or the timer, no sample  *)
(* of the touch that it ends is left.                                      *)
THEOREM ReleaseEndsTheMean == Spec => ReleaseForgetsSamples
<1> DEFINE Forgets == (hpc \in {"timerUp", "tcUp", "adcUp"} /\ hpc' # hpc)
                          => adc_cnt' = 0 /\ adc_x' = 0
<1>1. DataInv /\ DataInv' /\ AliveInv /\ [Next]_vars => [Forgets]_vars
  <2> SUFFICES ASSUME DataInv, DataInv', AliveInv, Next,
                      hpc \in {"timerUp", "tcUp", "adcUp"}, hpc' # hpc
               PROVE  adc_cnt' = 0 /\ adc_x' = 0
    OBVIOUS
  <2>1. adc_cnt' = 0
    <3>1. TimerUp \/ TcUp \/ AdcUp
      BY DEF Next, Handler, PenMoves, PenDownIsSeen, ConversionEnds, Timer0, TakeInterrupt, Main,
         mainFrame, touchscreen_timer_irq, TimerDown, Isr_Tc, TcDown, Isr_Adc, ReadBit15,
         AdcDown, Acknowledge
    <3>2. CASE TimerUp
      BY <3>2 DEF TimerUp, AliveInv, sumVars
    <3>3. CASE TcUp
      BY <3>3 DEF TcUp, AliveInv, sumVars
    <3>4. CASE AdcUp
      BY <3>4 DEF AdcUp
    <3> QED BY <3>1, <3>2, <3>3, <3>4
  <2>2. adc_x' \in (0 * Lo)..(0 * Hi)
    BY <2>1 DEF DataInv, TypeOK
  <2> QED BY <2>1, <2>2, TouchAssumption
<1> QED BY <1>1, DataInvariant, AliveInvariant, PTL DEF Spec, ReleaseForgetsSamples
===============================================================================
