-------------------------------- MODULE Touch ---------------------------------
(***************************************************************************)
(* The touchscreen of the bare-board program (bare_board/code/I2c/         *)
(* 20200510_IIC): the interrupts of the touchscreen controller and of      *)
(* timer 0 (adc_touchscreen/touchscreen.c, timer.c, interrupt.c), and the  *)
(* program that waits for their reports (adc_touchscreen/tslib.c).         *)
(*                                                                         *)
(* Handlers run with interrupts disabled, from the main program only.      *)
(* The pen does not wait for them: it moves between a handler's reading of *)
(* bit 15 of ADCDAT0 and what the handler does about it.                   *)
(*                                                                         *)
(* The controller (code of no file): lifting the pen in the mode that      *)
(* waits for it raises INT_TC at once; a pen that is down in the mode that *)
(* waits for that raises it ADCDLY = 5 ms later, long after any handler; a *)
(* conversion takes longer than the rest of the handler that started it,   *)
(* but may end anywhere in the next one; bit 15 says whether the pen is up *)
(* in the two waiting modes, and anything in the automatic one.            *)
(***************************************************************************)
EXTENDS Integers

CONSTANTS Samples,      \* conversions averaged in a report (16)
          Lo, Hi,       \* positions of the pen, the same for x and y
          MaxPoints,    \* samples a calibration point sums (128)
          Crosses       \* calibration points (5)

ASSUME TouchAssumption ==
    /\ {Samples, MaxPoints, Crosses} \subseteq Nat \ {0}
    /\ {Lo, Hi} \subseteq Nat \ {0} /\ Lo <= Hi

VARIABLES pen,          \* the pen touches the screen
          mode,         \* ADCTSC: "waitDown", "waitUp" or "auto"
          converting,   \* a conversion runs
          fresh,        \* started by the AdcTsIntHandle that is running
          ADCDAT,       \* its result
          SUBSRCPND,    \* pending of {"TC", "ADC"}
          tick,         \* INT_TIMER0 is pending
          hpc,          \* where the handler is, "main" when none runs
          g_ts_timer_enable,
          adc_cnt, adc_x,       \* conversions summed, and their sum
          g_ts,         \* g_ts_x, g_ts_y, g_ts_pressure
          g_ts_data_valid,
          rpc,          \* where the main program is in ts_read_raw
          raw,          \* x, y, pressure of its caller
          cal,          \* where that is: "press", "release" or "draw"
          cross,        \* calibration points done
          sum_x, cnt,   \* samples of the point summed
          point,        \* the result of the last point, 0 before
          offered       \* pressure of the last call of report_ts_xy

chipVars == <<pen, converting, fresh, ADCDAT, SUBSRCPND, tick>>
reportVars == <<g_ts, g_ts_data_valid, offered>>
sumVars == <<adc_cnt, adc_x>>
mainVars == <<rpc, raw, cal, cross, sum_x, cnt, point>>
vars == <<chipVars, mode, hpc, g_ts_timer_enable, sumVars, reportVars, mainVars>>

Positions == Lo..Hi
Reports == [x : {0} \cup Positions, y : {0} \cup Positions, p : {0, 1}]

InTimer == {"timer", "timerUp", "timerDown"}
InAdcTs == {"tc", "tcUp", "tcDown", "adc", "bit", "adcUp", "adcDown", "ack"}

Flags == /\ pen \in BOOLEAN /\ converting \in BOOLEAN /\ fresh \in BOOLEAN /\ tick \in BOOLEAN
         /\ g_ts_timer_enable \in BOOLEAN /\ g_ts_data_valid \in BOOLEAN

TypeOK == /\ Flags
          /\ mode \in {"waitDown", "waitUp", "auto"}
          /\ ADCDAT \in Positions
          /\ SUBSRCPND \subseteq {"TC", "ADC"}
          /\ hpc \in {"main"} \cup InTimer \cup InAdcTs
          /\ adc_cnt \in 0..(Samples - 1)
          /\ adc_x \in (adc_cnt * Lo)..(adc_cnt * Hi)
          /\ g_ts \in Reports
          /\ rpc \in {"wait", "x", "y", "p", "clear", "got"}
          /\ raw \in Reports
          /\ cal \in {"press", "release", "draw"}
          /\ cross \in 0..Crosses
          /\ cnt \in 0..MaxPoints
          /\ sum_x \in 0..(MaxPoints * Hi)
          /\ point \in {0} \cup Positions
          /\ offered \in {0, 1}

NoReport == [x |-> 0, y |-> 0, p |-> 0]

(* touchscreen_init, and the first call of get_calibrate_point_data.       *)
Init == /\ pen \in BOOLEAN
        /\ mode = "waitDown"
        /\ converting = FALSE /\ fresh = FALSE
        /\ ADCDAT \in Positions
        /\ SUBSRCPND = {}
        /\ tick = FALSE
        /\ hpc = "main"
        /\ g_ts_timer_enable = FALSE
        /\ adc_cnt = 0 /\ adc_x = 0
        /\ g_ts = NoReport /\ g_ts_data_valid = FALSE /\ offered = 0
        /\ rpc = "wait" /\ raw = NoReport
        /\ cal = "press" /\ cross = 0
        /\ sum_x = 0 /\ cnt = 0 /\ point = 0

-------------------------------------------------------------------------------
(* The controller and timer 0.                                             *)
PenMoves ==
    /\ pen' = ~pen
    /\ SUBSRCPND' = IF pen /\ mode = "waitUp" THEN SUBSRCPND \cup {"TC"} ELSE SUBSRCPND
    /\ UNCHANGED <<converting, fresh, ADCDAT, tick, mode, hpc, g_ts_timer_enable,
                   sumVars, reportVars, mainVars>>

PenDownIsSeen ==
    /\ hpc = "main" /\ mode = "waitDown" /\ pen /\ "TC" \notin SUBSRCPND
    /\ SUBSRCPND' = SUBSRCPND \cup {"TC"}
    /\ UNCHANGED <<pen, converting, fresh, ADCDAT, tick, mode, hpc, g_ts_timer_enable,
                   sumVars, reportVars, mainVars>>

ConversionEnds ==
    /\ converting /\ ~fresh
    /\ converting' = FALSE
    /\ ADCDAT' \in Positions
    /\ SUBSRCPND' = SUBSRCPND \cup {"ADC"}
    /\ UNCHANGED <<pen, fresh, tick, mode, hpc, g_ts_timer_enable, sumVars, reportVars, mainVars>>

Timer0 ==
    /\ tick' = TRUE
    /\ UNCHANGED <<pen, converting, fresh, ADCDAT, SUBSRCPND, mode, hpc, g_ts_timer_enable,
                   sumVars, reportVars, mainVars>>

PenUpBit == IF mode = "auto" THEN BOOLEAN ELSE {~pen}   \* bit 15 of ADCDAT0

-------------------------------------------------------------------------------
(* What the handlers are made of.                                          *)
Wait(m) == mode' = m /\ UNCHANGED <<converting, fresh>>

Measure == mode' = "auto" /\ converting' = TRUE

ReportOverwrites(x, y, p) ==    \* mutant: g_ts_data_valid is not looked at
    /\ g_ts' = [x |-> x, y |-> y, p |-> p]
    /\ g_ts_data_valid' = TRUE
    /\ offered' = p

report_ts_xy(x, y, p) ==
    /\ offered' = p
    /\ IF g_ts_data_valid
       THEN UNCHANGED <<g_ts, g_ts_data_valid>>
       ELSE /\ g_ts' = [x |-> x, y |-> y, p |-> p]
            /\ g_ts_data_valid' = TRUE

handlerFrame == UNCHANGED <<pen, ADCDAT, mainVars>>

(* handle_irq_c runs the handler of a pending interrupt.                   *)
TakeInterrupt ==
    /\ hpc = "main"
    /\ \/ SUBSRCPND # {} /\ hpc' = "tc"
       \/ tick /\ hpc' = "timer"
    /\ UNCHANGED <<chipVars, mode, g_ts_timer_enable, sumVars, reportVars, mainVars>>

TimerIrqInAutoMode ==           \* mutant: is_in_auto_mode is not tested
    /\ hpc = "timer"
    /\ IF g_ts_timer_enable
       THEN /\ \E up \in PenUpBit : hpc' = IF up THEN "timerUp" ELSE "timerDown"
            /\ UNCHANGED tick
       ELSE hpc' = "main" /\ tick' = FALSE
    /\ UNCHANGED <<converting, fresh, SUBSRCPND, mode, g_ts_timer_enable, sumVars, reportVars>>
    /\ handlerFrame

(* touchscreen_timer_irq, up to its reading of bit 15, and what it does    *)
(* with the pen up and down.                                               *)
touchscreen_timer_irq ==
    /\ hpc = "timer"
    /\ IF g_ts_timer_enable /\ mode # "auto"
       THEN /\ \E up \in PenUpBit : hpc' = IF up THEN "timerUp" ELSE "timerDown"
            /\ UNCHANGED tick
       ELSE hpc' = "main" /\ tick' = FALSE
    /\ UNCHANGED <<converting, fresh, SUBSRCPND, mode, g_ts_timer_enable, sumVars, reportVars>>
    /\ handlerFrame

TimerUpSilent ==                \* mutant: the pen going up is not reported
    /\ hpc = "timerUp"
    /\ hpc' = "main" /\ tick' = FALSE
    /\ g_ts_timer_enable' = FALSE
    /\ Wait("waitDown")
    /\ UNCHANGED <<SUBSRCPND, sumVars, reportVars>>
    /\ handlerFrame

TimerUp ==
    /\ hpc = "timerUp"
    /\ hpc' = "main" /\ tick' = FALSE
    /\ g_ts_timer_enable' = FALSE
    /\ Wait("waitDown")
    /\ report_ts_xy(0, 0, 0)
    /\ UNCHANGED <<SUBSRCPND, sumVars>>
    /\ handlerFrame

TimerDown ==
    /\ hpc = "timerDown"
    /\ hpc' = "main" /\ tick' = FALSE
    /\ Measure
    /\ UNCHANGED <<fresh, SUBSRCPND, g_ts_timer_enable, sumVars, reportVars>>
    /\ handlerFrame

-------------------------------------------------------------------------------
(* AdcTsIntHandle: Isr_Tc if INT_TC is pending ...                         *)
Isr_Tc ==
    /\ hpc = "tc"
    /\ IF "TC" \in SUBSRCPND
       THEN \E up \in PenUpBit : hpc' = IF up THEN "tcUp" ELSE "tcDown"
       ELSE hpc' = "adc"
    /\ UNCHANGED <<converting, fresh, SUBSRCPND, tick, mode, g_ts_timer_enable, sumVars,
                   reportVars>>
    /\ handlerFrame

TcUp == /\ hpc = "tcUp"
        /\ hpc' = "adc"
        /\ Wait("waitDown")
        /\ report_ts_xy(0, 0, 0)
        /\ UNCHANGED <<SUBSRCPND, tick, g_ts_timer_enable, sumVars>>
        /\ handlerFrame

TcDown == /\ hpc = "tcDown"
          /\ hpc' = "adc"
          /\ Measure /\ fresh' = TRUE
          /\ UNCHANGED <<SUBSRCPND, tick, g_ts_timer_enable, sumVars, reportVars>>
          /\ handlerFrame

(* ... then Isr_Adc if INT_ADC is: it waits for the pen to go up, so as to *)
(* read bit 15, ...                                                        *)
Isr_Adc ==
    /\ hpc = "adc"
    /\ IF "ADC" \in SUBSRCPND
       THEN hpc' = "bit" /\ Wait("waitUp")
       ELSE hpc' = "ack" /\ UNCHANGED <<mode, converting, fresh>>
    /\ UNCHANGED <<SUBSRCPND, tick, g_ts_timer_enable, sumVars, reportVars>>
    /\ handlerFrame

ReadBit15 ==
    /\ hpc = "bit"
    /\ \E up \in PenUpBit : hpc' = IF up THEN "adcUp" ELSE "adcDown"
    /\ UNCHANGED <<converting, fresh, SUBSRCPND, tick, mode, g_ts_timer_enable, sumVars,
                   reportVars>>
    /\ handlerFrame

(* ... forgets the samples when the pen is up, ...                         *)
AdcUp ==
    /\ hpc = "adcUp"
    /\ hpc' = "ack"
    /\ adc_cnt' = 0 /\ adc_x' = 0
    /\ g_ts_timer_enable' = FALSE
    /\ Wait("waitDown")
    /\ report_ts_xy(0, 0, 0)
    /\ UNCHANGED <<SUBSRCPND, tick>>
    /\ handlerFrame

LastSampleKeepsSum ==           \* mutant: adc_x is not reset
    /\ adc_cnt + 1 = Samples
    /\ LET x == (adc_x + ADCDAT) \div Samples IN report_ts_xy(x, x, 1)
    /\ adc_cnt' = 0
    /\ Wait("waitUp")
    /\ g_ts_timer_enable' = TRUE
    /\ UNCHANGED adc_x

LastSampleNoTimer ==            \* mutant: the timer is not started
    /\ adc_cnt + 1 = Samples
    /\ LET x == (adc_x + ADCDAT) \div Samples IN report_ts_xy(x, x, 1)
    /\ adc_cnt' = 0 /\ adc_x' = 0
    /\ Wait("waitUp")
    /\ UNCHANGED g_ts_timer_enable

(* ... and sums them when it is down, reporting the mean of every Samples. *)
LastSample ==
    /\ adc_cnt + 1 = Samples
    /\ LET x == (adc_x + ADCDAT) \div Samples IN report_ts_xy(x, x, 1)
    /\ adc_cnt' = 0 /\ adc_x' = 0
    /\ Wait("waitUp")
    /\ g_ts_timer_enable' = TRUE

NextSample ==
    /\ adc_cnt + 1 < Samples
    /\ adc_cnt' = adc_cnt + 1
    /\ adc_x' = adc_x + ADCDAT
    /\ Measure /\ fresh' = TRUE
    /\ UNCHANGED <<g_ts_timer_enable, reportVars>>

AdcDown ==
    /\ hpc = "adcDown"
    /\ hpc' = "ack"
    /\ LastSample \/ NextSample
    /\ UNCHANGED <<SUBSRCPND, tick>>
    /\ handlerFrame

(* Both sources are cleared at the end, what they announced since included. *)
Acknowledge ==
    /\ hpc = "ack"
    /\ hpc' = "main"
    /\ SUBSRCPND' = {}
    /\ fresh' = FALSE
    /\ UNCHANGED <<pen, converting, ADCDAT, tick, mode, g_ts_timer_enable, sumVars,
                   reportVars, mainVars>>

Handler == \/ touchscreen_timer_irq \/ TimerUp \/ TimerDown
           \/ Isr_Tc \/ TcUp \/ TcDown
           \/ Isr_Adc \/ ReadBit15 \/ AdcUp \/ AdcDown \/ Acknowledge

-------------------------------------------------------------------------------
(* The main program, one access of a shared variable at a time.            *)
mainFrame == UNCHANGED <<chipVars, mode, hpc, g_ts_timer_enable, sumVars>>

AwaitReport ==                  \* while (g_ts_data_valid == 0)
    /\ rpc = "wait" /\ g_ts_data_valid
    /\ rpc' = "x"
    /\ UNCHANGED <<reportVars, raw, cal, cross, sum_x, cnt, point>>

CopyReport ==
    /\ \/ rpc = "x" /\ raw' = [raw EXCEPT !.x = g_ts.x] /\ rpc' = "y"
       \/ rpc = "y" /\ raw' = [raw EXCEPT !.y = g_ts.y] /\ rpc' = "p"
       \/ rpc = "p" /\ raw' = [raw EXCEPT !.p = g_ts.p] /\ rpc' = "clear"
    /\ UNCHANGED <<reportVars, cal, cross, sum_x, cnt, point>>

ClearReport ==
    /\ rpc = "clear"
    /\ g_ts_data_valid' = FALSE
    /\ rpc' = "got"
    /\ UNCHANGED <<g_ts, offered, raw, cal, cross, sum_x, cnt, point>>

(* ts_read_raw's callers: get_calibrate_point_data skips the reports of    *)
(* the pen up, then sums the others up to the next one; after the last     *)
(* cross, touchscreen_test reads and draws.                                *)
ReadAgain == /\ rpc' = "wait"
             /\ raw' = NoReport         \* not used before it is written again
             /\ UNCHANGED reportVars

Add == IF cnt < MaxPoints
       THEN sum_x' = sum_x + raw.x /\ cnt' = cnt + 1
       ELSE UNCHANGED <<sum_x, cnt>>

Skip == /\ cal = "press" /\ raw.p = 0
        /\ UNCHANGED <<cal, cross, sum_x, cnt, point>>

Sum == /\ cal \in {"press", "release"} /\ raw.p = 1
       /\ Add
       /\ cal' = "release"
       /\ UNCHANGED <<cross, point>>

PointDone == /\ cal = "release" /\ raw.p = 0
             /\ point' = sum_x \div cnt
             /\ sum_x' = 0 /\ cnt' = 0
             /\ cross' = cross + 1
             /\ cal' = IF cross + 1 = Crosses THEN "draw" ELSE "press"

Draw == /\ cal = "draw"
        /\ UNCHANGED <<cal, cross, sum_x, cnt, point>>

Main == /\ hpc = "main"
        /\ \/ AwaitReport
           \/ CopyReport
           \/ ClearReport
           \/ /\ rpc = "got"
              /\ Skip \/ Sum \/ PointDone \/ Draw
              /\ ReadAgain
        /\ mainFrame

Next == \/ PenMoves \/ PenDownIsSeen \/ ConversionEnds \/ Timer0
        \/ TakeInterrupt \/ Handler \/ Main

(* Conversions end, the timer ticks, and the processor runs: it leaves the *)
(* main program for each pending interrupt and comes back to it.  Each     *)
(* handler takes microseconds, and timer 0 interrupts every 10 ms: not     *)
(* every conversion ends inside a handler.                                 *)
Fairness == /\ WF_vars(Handler)
            /\ SF_vars(TakeInterrupt /\ hpc' = "tc")
            /\ SF_vars(TakeInterrupt /\ hpc' = "timer")
            /\ SF_vars(ConversionEnds /\ hpc = "main")
            /\ SF_vars(PenDownIsSeen)
            /\ WF_vars(Timer0)

Spec == Init /\ [][Next]_vars
FairSpec == Spec /\ Fairness

-------------------------------------------------------------------------------
(* Between interrupts, something will look at the pen again: the end of a  *)
(* conversion in the automatic mode, the timer in the mode that waits for  *)
(* the pen to go up - an interrupt that Acknowledge wiped out is the only  *)
(* one that mode gets.                                                     *)
NotDeaf == hpc = "main" => /\ mode = "auto" => converting \/ "ADC" \in SUBSRCPND
                           /\ mode = "waitUp" => g_ts_timer_enable

(* What ts_read_raw returns is one report, never half of one and half of   *)
(* the next, and a report of the pen is a position of the pen.             *)
ReadIsOneReport ==
    rpc \in {"clear", "got"} => \/ raw = NoReport
                                \/ /\ raw.x \in Positions
                                   /\ raw = [x |-> raw.x, y |-> raw.x, p |-> 1]

(* Once the program has reported that the pen is up, no sample is left to  *)
(* enter the mean of the next touch.  Isr_Adc forgets them; Isr_Tc and the *)
(* timer report too and do not touch the sums, so neither may ever find    *)
(* the pen up in the middle of an average.  (A pen that is lifted and back *)
(* between two readings of bit 15 goes unreported: both touches are summed.) *)
ReleaseForgetsSamples ==
    [][(hpc \in {"timerUp", "tcUp", "adcUp"} /\ hpc' # hpc)
           => adc_cnt' = 0 /\ adc_x' = 0]_vars

(* The last report offered says where the pen ends up, whatever interrupt  *)
(* was lost and wherever the pen moved during a handler.                   *)
PenIsFollowed == /\ <>[]pen => <>[](offered = 1)
                 /\ <>[]~pen => <>[](offered = 0)
===============================================================================
