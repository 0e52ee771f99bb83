------------------------------- MODULE Dm9000 ---------------------------------
(***************************************************************************)
(* The network driver linux_driver/code/DM9000c/dm9dev9000c.c: the         *)
(* transmit function, the watchdog and the timer, one of which runs at a   *)
(* time, and the interrupt handler, which interrupts them anywhere and     *)
(* shares tx_pkt_cnt, the state of the queue and the registers of the chip *)
(* with them.  There is one processor; the chip goes on during a handler.  *)
(*                                                                         *)
(* The chip keeps at most two packets to send.  It sets the NSR bit of the *)
(* one it has sent (TX1END and TX2END in turn), which reading NSR clears,  *)
(* and ISR.  Its interrupt line is up while IMR enables a bit of ISR; the  *)
(* processor sees the rising edge (IRQF_TRIGGER_RISING) and takes the      *)
(* interrupt before its next instruction, or after the one it is at.       *)
(*                                                                         *)
(* The revision is not 0x1A: one packet is given to the chip at 10 Mbit/s, *)
(* two at 100.                                                             *)
(***************************************************************************)
EXTENDS Integers, FiniteSets

CONSTANTS RxSlots,      \* packets received that the chip keeps
          CONT_RX_PKT_CNT

ASSUME Dm9000Assumption ==
    /\ RxSlots \in Nat \ {0}
    /\ CONT_RX_PKT_CNT \in Nat /\ RxSlots < CONT_RX_PKT_CNT

VARIABLES fifo,         \* packets the chip has still to send
          slot,         \* the bit of NSR of the first of them
          NSR, ISR, IMR,
          irq,          \* an edge has been seen
          rxq,          \* packets received
          up,           \* between open and stop
          stopped,      \* the kernel's queue is stopped
          tx_pkt_cnt, Speed, cont_rx_pkt_cnt,
          pc,           \* what runs: transmit, watchdog, timer, or "idle"
          cnt,          \* the value of tx_pkt_cnt transmit has loaded
          hpc,          \* where the handler is
          int_status,
          squeezed,     \* no memory for a packet, which stayed in the chip
          cut,          \* a packet was counted, and forgotten before it was sent
          overrun       \* the chip was given a third packet

chipVars == <<fifo, slot, NSR, ISR, IMR, rxq>>
driverVars == <<stopped, tx_pkt_cnt, Speed, cont_rx_pkt_cnt>>
handlerVars == <<hpc, int_status, squeezed>>
vars == <<chipVars, irq, up, driverVars, pc, cnt, handlerVars, cut, overrun>>

Masks == [all |-> {"RX", "TX", "LINK"}, noRx |-> {"TX", "LINK"}, none |-> {}]
Line == ISR \cap Masks[IMR] # {}

Flags == /\ irq \in BOOLEAN /\ up \in BOOLEAN /\ stopped \in BOOLEAN
         /\ squeezed \in BOOLEAN /\ cut \in BOOLEAN /\ overrun \in BOOLEAN

TypeOK == /\ fifo \in 0..2
          /\ slot \in {1, 2}
          /\ NSR \subseteq {1, 2}
          /\ ISR \subseteq Masks["all"] /\ int_status \subseteq Masks["all"]
          /\ IMR \in DOMAIN Masks
          /\ rxq \in 0..RxSlots
          /\ Flags
          /\ tx_pkt_cnt \in (-2)..2
          /\ Speed \in {10, 100}
          /\ cont_rx_pkt_cnt \in 0..CONT_RX_PKT_CNT
          /\ pc \in {"open", "idle", "store", "test", "stop", "mask", "send", "unmask",
                     "wait", "clear", "reset", "restart", "enable"}
          /\ cnt \in 0..1
          /\ hpc \in {"none", "enter", "clear", "link", "rx", "loop", "break", "breakDrain",
                      "tx", "txDrain", "exit"}

Init == /\ fifo = 0 /\ slot = 1 /\ NSR = {} /\ ISR = {} /\ IMR = "none" /\ rxq = 0
        /\ irq = FALSE /\ up = FALSE /\ stopped = TRUE
        /\ tx_pkt_cnt = 0 /\ Speed = 10 /\ cont_rx_pkt_cnt = 0
        /\ pc = "idle" /\ cnt = 0
        /\ hpc = "none" /\ int_status = {} /\ squeezed = FALSE
        /\ cut = FALSE /\ overrun = FALSE

Edge == irq' = (irq \/ (up' /\ Line' /\ ~Line))
Limit == IF Speed = 10 THEN 1 ELSE 2

-------------------------------------------------------------------------------
(* The chip and the line.                                                  *)
ChipSends ==
    /\ fifo > 0
    /\ fifo' = fifo - 1
    /\ NSR' = NSR \cup {slot} /\ slot' = 3 - slot
    /\ ISR' = ISR \cup {"TX"}
    /\ UNCHANGED <<IMR, rxq, up, driverVars, pc, cnt, handlerVars, cut, overrun>>
    /\ Edge

ChipReceives ==
    /\ up /\ rxq < RxSlots
    /\ rxq' = rxq + 1
    /\ ISR' = ISR \cup {"RX"}
    /\ UNCHANGED <<fifo, slot, NSR, IMR, up, driverVars, pc, cnt, handlerVars, cut, overrun>>
    /\ Edge

LinkChanges ==
    /\ up
    /\ ISR' = ISR \cup {"LINK"}
    /\ UNCHANGED <<fifo, slot, NSR, IMR, rxq, up, driverVars, pc, cnt, handlerVars, cut, overrun>>
    /\ Edge

(* What is not the handler runs while no interrupt waits.                  *)
Runs(p) == up /\ pc = p /\ hpc = "none" /\ ~irq
Goto(p) == pc' = p /\ UNCHANGED <<up, handlerVars>>

(* dmfe_init_dm9000: the chip forgets everything.                          *)
dmfe_init_dm9000 ==
    /\ fifo' = 0 /\ slot' = 1 /\ NSR' = {} /\ ISR' = {} /\ rxq' = 0
    /\ IMR' = "all"

dmfe_open ==
    /\ ~up /\ up' = TRUE
    /\ dmfe_init_dm9000
    /\ tx_pkt_cnt' = 0
    /\ cont_rx_pkt_cnt' = 0
    /\ pc' = "open"
    /\ irq' = FALSE
    /\ cut' = FALSE /\ overrun' = FALSE
    /\ UNCHANGED <<stopped, Speed, cnt, handlerVars>>

OpenLink ==                     \* up to 3 s later
    /\ Runs("open")
    /\ Speed' \in {10, 100}
    /\ stopped' = FALSE
    /\ Goto("idle")
    /\ UNCHANGED <<chipVars, irq, tx_pkt_cnt, cont_rx_pkt_cnt, cnt, cut, overrun>>

dmfe_stop ==
    /\ up /\ pc = "idle" /\ hpc = "none"
    /\ up' = FALSE
    /\ stopped' = TRUE
    /\ IMR' = "none"
    /\ irq' = FALSE
    /\ UNCHANGED <<fifo, slot, NSR, ISR, rxq, tx_pkt_cnt, Speed, cont_rx_pkt_cnt, pc, cnt,
                   handlerVars, cut, overrun>>

-------------------------------------------------------------------------------
(* dmfe_start_xmit.  tx_pkt_cnt is loaded, tested, incremented and stored; *)
(* the test that follows may use the value in memory or the one stored.    *)
Xmit == /\ Runs("idle") /\ ~stopped
        /\ tx_pkt_cnt < Limit           \* returns 1 otherwise
        /\ cnt' = tx_pkt_cnt
        /\ Goto("store")
        /\ UNCHANGED <<chipVars, irq, driverVars, cut, overrun>>

XmitStore == /\ Runs("store")
             /\ tx_pkt_cnt' = cnt + 1
             /\ Goto("test")
             /\ UNCHANGED <<chipVars, irq, stopped, Speed, cont_rx_pkt_cnt, cnt, cut, overrun>>

XmitTest == /\ Runs("test")
            /\ \E n \in {cnt + 1, tx_pkt_cnt} : Goto(IF n >= Limit THEN "stop" ELSE "mask")
            /\ UNCHANGED <<chipVars, irq, driverVars, cnt, cut, overrun>>

XmitStop == /\ Runs("stop")
            /\ stopped' = TRUE          \* netif_stop_queue
            /\ Goto("mask")
            /\ UNCHANGED <<chipVars, irq, tx_pkt_cnt, Speed, cont_rx_pkt_cnt, cnt, cut, overrun>>

(* An edge may be seen while IMR is written, too late for this.            *)
XmitMask == /\ up /\ pc = "mask" /\ hpc = "none"
            /\ IMR' = "none"
            /\ Goto("send")
            /\ UNCHANGED <<fifo, slot, NSR, ISR, rxq, irq, driverVars, cnt, cut, overrun>>

XmitSend == /\ Runs("send")
            /\ fifo' = IF fifo < 2 THEN fifo + 1 ELSE fifo
            /\ overrun' = (overrun \/ fifo = 2)
            /\ Goto("unmask")
            /\ UNCHANGED <<slot, NSR, ISR, IMR, rxq, irq, driverVars, cnt, cut>>

XmitUnmask == /\ Runs("unmask")
              /\ cont_rx_pkt_cnt' = 0
              /\ IMR' = "all"
              /\ cnt' = 0               \* dead
              /\ Goto("idle")
              /\ UNCHANGED <<fifo, slot, NSR, ISR, rxq, stopped, tx_pkt_cnt, Speed, cut, overrun>>
              /\ Edge

(* dmfe_timeout, called when the queue has been stopped for 5 s: the chip  *)
(* finishes while the function waits, for 3 ms, or is reset.               *)
Timeout == /\ Runs("idle") /\ stopped
           /\ Goto("wait")
           /\ UNCHANGED <<chipVars, irq, driverVars, cnt, cut, overrun>>

TimeoutWait == /\ Runs("wait")
               /\ Goto(IF fifo = 0 THEN "clear" ELSE "reset")
               /\ UNCHANGED <<chipVars, irq, driverVars, cnt, cut, overrun>>

TimeoutClear == /\ Runs("clear")
                /\ tx_pkt_cnt' = 0
                /\ stopped' = FALSE
                /\ Goto("idle")
                /\ UNCHANGED <<chipVars, irq, Speed, cont_rx_pkt_cnt, cnt, cut, overrun>>

TimeoutReset == /\ Runs("reset")
                /\ dmfe_init_dm9000
                /\ stopped' = TRUE
                /\ tx_pkt_cnt' = 0
                /\ Goto("restart")
                /\ UNCHANGED <<Speed, cont_rx_pkt_cnt, cnt, cut, overrun>>
                /\ Edge

TimeoutRestart == /\ Runs("restart")
                  /\ Speed' \in {10, 100}
                  /\ stopped' = FALSE
                  /\ Goto("idle")
                  /\ UNCHANGED <<chipVars, irq, tx_pkt_cnt, cont_rx_pkt_cnt, cnt, cut, overrun>>

(* dmfe_timer, every 5 s.                                                  *)
Timer == /\ Runs("idle") /\ cont_rx_pkt_cnt >= CONT_RX_PKT_CNT
         /\ cont_rx_pkt_cnt' = 0
         /\ Goto("enable")
         /\ UNCHANGED <<chipVars, irq, stopped, tx_pkt_cnt, Speed, cnt, cut, overrun>>

TimerEnable == /\ Runs("enable")
               /\ IMR' = "all"
               /\ Goto("idle")
               /\ UNCHANGED <<fifo, slot, NSR, ISR, rxq, driverVars, cnt, cut, overrun>>
               /\ Edge

-------------------------------------------------------------------------------
(* dmfe_interrupt.  IMR is cleared first, so that the line falls and can   *)
(* rise again when it is restored at the end.                              *)
In(h) == hpc = h /\ UNCHANGED <<up, pc, cnt>>
Forgets == cut' = (cut \/ pc \in {"test", "stop", "mask", "send"})

Interrupt == /\ irq /\ hpc = "none" /\ irq' = FALSE
             /\ hpc' = "enter"
             /\ UNCHANGED <<chipVars, up, driverVars, pc, cnt, int_status, squeezed, cut, overrun>>

EnterKeepsMask ==               \* mutant: IMR is not cleared
    /\ In("enter") /\ hpc' = "clear"
    /\ int_status' = ISR
    /\ UNCHANGED <<chipVars, irq, driverVars, squeezed, cut, overrun>>

Enter == /\ In("enter") /\ hpc' = "clear"
         /\ IMR' = "none"
         /\ int_status' = ISR
         /\ UNCHANGED <<fifo, slot, NSR, ISR, rxq, irq, driverVars, squeezed, cut, overrun>>

(* What has come since the reading of ISR stays.                           *)
Clear == /\ In("clear") /\ hpc' = "link"
         /\ ISR' = ISR \ int_status
         /\ UNCHANGED <<fifo, slot, NSR, IMR, rxq, irq, driverVars, int_status, squeezed, cut,
                        overrun>>

(* The link: its speed is read, if it comes up, and the queue woken.       *)
Link == /\ In("link") /\ hpc' = "rx"
        /\ IF "LINK" \in int_status
           THEN Speed' \in {10, 100} /\ stopped' = FALSE
           ELSE UNCHANGED <<Speed, stopped>>
        /\ UNCHANGED <<chipVars, irq, tx_pkt_cnt, cont_rx_pkt_cnt, int_status, squeezed, cut,
                       overrun>>

RxStart == /\ In("rx")
           /\ IF "RX" \in int_status
              THEN hpc' = "loop" /\ cont_rx_pkt_cnt' = 0 /\ squeezed' = FALSE
              ELSE hpc' = "tx" /\ UNCHANGED <<cont_rx_pkt_cnt, squeezed>>
           /\ UNCHANGED <<chipVars, irq, stopped, tx_pkt_cnt, Speed, int_status, cut, overrun>>

(* dmfe_packet_receive, one turn of its loop: nothing is left, ...         *)
RxEmpty == /\ In("loop") /\ rxq = 0 /\ hpc' = "tx"
           /\ UNCHANGED <<chipVars, irq, driverVars, int_status, squeezed, cut, overrun>>

(* ... a packet is given to the kernel, ...                                *)
RxPacket ==
    /\ In("loop") /\ rxq > 0
    /\ rxq' = rxq - 1
    /\ cont_rx_pkt_cnt' = cont_rx_pkt_cnt + 1
    /\ hpc' = IF cont_rx_pkt_cnt' >= CONT_RX_PKT_CNT THEN "break" ELSE "loop"
    /\ UNCHANGED <<fifo, slot, NSR, ISR, IMR, irq, stopped, tx_pkt_cnt, Speed, int_status,
                   squeezed, cut, overrun>>

(* ... is dropped, as its status tells an error, ...                       *)
RxBad == /\ In("loop") /\ rxq > 0 /\ hpc' = "loop"
         /\ rxq' = rxq - 1
         /\ UNCHANGED <<fifo, slot, NSR, ISR, IMR, irq, driverVars, int_status, squeezed, cut,
                        overrun>>

(* ... is left in the chip for lack of memory, ...                         *)
RxSqueeze == /\ In("loop") /\ rxq > 0 /\ hpc' = "tx"
             /\ squeezed' = TRUE
             /\ UNCHANGED <<chipVars, irq, driverVars, int_status, cut, overrun>>

(* ... or its first byte makes no sense, and dmfe_reset is called.         *)
RxError == /\ In("loop") /\ hpc' = "tx"
           /\ dmfe_init_dm9000
           /\ tx_pkt_cnt' = 0
           /\ Speed' \in {10, 100}
           /\ stopped' = FALSE
           /\ Forgets
           /\ UNCHANGED <<cont_rx_pkt_cnt, int_status, squeezed, overrun>>
           /\ Edge

(* dmfe_tx_done, called at the end of the loop too when it was long.  With *)
(* no bit set in NSR, or more than were counted, it waits for the chip to  *)
(* send what it has.                                                       *)
TxDoneSleeps(drain, next) ==    \* mutant: the queue is not woken
    IF NSR # {} /\ tx_pkt_cnt >= Cardinality(NSR)
    THEN /\ tx_pkt_cnt' = tx_pkt_cnt - Cardinality(NSR) /\ NSR' = {}
         /\ hpc' = next /\ UNCHANGED stopped
    ELSE /\ tx_pkt_cnt' = tx_pkt_cnt - Cardinality(NSR) /\ NSR' = {}
         /\ hpc' = drain /\ UNCHANGED stopped

TxDoneAll(drain, next) ==       \* mutant: whatever was sent, nothing is counted
    IF NSR # {}
    THEN /\ tx_pkt_cnt' = 0 /\ NSR' = {}
         /\ hpc' = next /\ stopped' = FALSE
    ELSE /\ NSR' = {}
         /\ hpc' = drain /\ UNCHANGED <<tx_pkt_cnt, stopped>>

TxDoneNegative(drain, next) ==  \* mutant: a count below 0 is left there
    IF NSR # {}
    THEN /\ tx_pkt_cnt' = tx_pkt_cnt - Cardinality(NSR) /\ NSR' = {}
         /\ hpc' = next /\ stopped' = FALSE
    ELSE /\ NSR' = {}
         /\ hpc' = drain /\ UNCHANGED <<tx_pkt_cnt, stopped>>

dmfe_tx_done(drain, next) ==
    IF NSR # {} /\ tx_pkt_cnt >= Cardinality(NSR)
    THEN /\ tx_pkt_cnt' = tx_pkt_cnt - Cardinality(NSR) /\ NSR' = {}
         /\ hpc' = next /\ stopped' = FALSE
    ELSE /\ tx_pkt_cnt' = tx_pkt_cnt - Cardinality(NSR) /\ NSR' = {}
         /\ hpc' = drain /\ UNCHANGED stopped

TxDone == /\ \/ In("break") /\ dmfe_tx_done("breakDrain", "tx")
             \/ In("tx") /\ "TX" \in int_status /\ dmfe_tx_done("txDrain", "exit")
          /\ UNCHANGED <<fifo, slot, ISR, IMR, rxq, irq, Speed, cont_rx_pkt_cnt, int_status,
                         squeezed, cut, overrun>>

TxNone == /\ In("tx") /\ "TX" \notin int_status /\ hpc' = "exit"
          /\ UNCHANGED <<chipVars, irq, driverVars, int_status, squeezed, cut, overrun>>

TxDrained == /\ fifo = 0
             /\ \/ In("breakDrain") /\ hpc' = "tx"
                \/ In("txDrain") /\ hpc' = "exit"
             /\ tx_pkt_cnt' = 0
             /\ stopped' = FALSE
             /\ Forgets
             /\ UNCHANGED <<chipVars, irq, Speed, cont_rx_pkt_cnt, int_status, squeezed, overrun>>

ExitNoRx ==                     \* mutant: cont_rx_pkt_cnt is not looked at
    /\ In("exit") /\ hpc' = "none"
    /\ IMR' = "noRx"
    /\ int_status' = {}
    /\ UNCHANGED <<fifo, slot, NSR, ISR, rxq, driverVars, squeezed, cut, overrun>>
    /\ Edge

Exit == /\ In("exit") /\ hpc' = "none"
        /\ IMR' = IF cont_rx_pkt_cnt >= CONT_RX_PKT_CNT THEN "noRx" ELSE "all"
        /\ int_status' = {}             \* dead
        /\ UNCHANGED <<fifo, slot, NSR, ISR, rxq, driverVars, squeezed, cut, overrun>>
        /\ Edge

-------------------------------------------------------------------------------
Chip == ChipSends \/ ChipReceives \/ LinkChanges
Transmit == XmitStore \/ XmitTest \/ XmitStop \/ XmitMask \/ XmitSend \/ XmitUnmask
Watchdog == TimeoutWait \/ TimeoutClear \/ TimeoutReset \/ TimeoutRestart
Handler == \/ Enter \/ Clear \/ Link \/ RxStart
           \/ RxEmpty \/ RxPacket \/ RxBad \/ RxSqueeze \/ RxError
           \/ TxDone \/ TxNone \/ TxDrained \/ Exit

Next == \/ Chip \/ dmfe_open \/ OpenLink \/ dmfe_stop
        \/ Xmit \/ Transmit \/ Timeout \/ Watchdog \/ Timer \/ TimerEnable
        \/ Interrupt \/ Handler

(* The chip sends what it was given, handlers and functions run to their   *)
(* end, and the timer runs.  The watchdog need not.                        *)
Fairness == /\ WF_vars(ChipSends)
            /\ WF_vars(Interrupt \/ Handler)
            /\ SF_vars(OpenLink \/ Transmit \/ Watchdog \/ TimerEnable)

Spec == Init /\ [][Next]_vars
FairSpec == Spec /\ Fairness

-------------------------------------------------------------------------------
(* The chip never gets a third packet while it has two to send, though     *)
(* transmit and the handler change tx_pkt_cnt without a lock - unless the  *)
(* handler sets it to 0 while transmit has counted a packet and not yet    *)
(* given it to the chip.                                                   *)
NoOverrun == overrun => cut

(* No edge is lost: with an enabled event waiting and no handler running,  *)
(* an interrupt is about to be taken.                                      *)
EventIsServed == up /\ hpc = "none" /\ Line => irq

(* A packet that is in the chip when the handler has ended will raise an   *)
(* interrupt: it came after ISR was cleared.  Only a packet for which      *)
(* there was no memory waits for the next one.                             *)
RxNotForgotten ==
    up /\ hpc = "none" /\ rxq > 0 /\ ~squeezed =>
        /\ "RX" \in ISR
        /\ IMR = "noRx" => cont_rx_pkt_cnt >= CONT_RX_PKT_CNT \/ pc = "enable"

(* Without the watchdog, the queue is open again and again while the link  *)
(* stays at 100 Mbit/s, whatever was miscounted, if the interrupts leave   *)
(* the processor free now and then.                                        *)
QueueRestarts ==
    <>[](up /\ Speed = 100) /\ []<>(hpc = "none" /\ ~irq) =>
        []<>(hpc = "none" /\ pc = "idle" /\ ~stopped /\ tx_pkt_cnt < Limit)
===============================================================================
