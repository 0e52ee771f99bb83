------------------------------- MODULE Buttons --------------------------------
(***************************************************************************)
(* The last two of the key drivers of linux_driver/code: the processes     *)
(* that open, read and close /dev/buttons, the key interrupts, and the     *)
(* debouncing timer.                                                       *)
(*                                                                         *)
(*   char_driver/Asynchronous_Signal_semaphore/seventh_drv.c               *)
(*     the interrupt reports the key; close gives button_lock back first;  *)
(*     read waits twice     (UpFirst, WaitTwice, not Debounced)            *)
(*   Asynchronous_Signal_semaphore_Timerdebounce/seventh_drv.c             *)
(*     the interrupt starts a timer, which reports the key                 *)
(*                          (Debounced, neither UpFirst nor WaitTwice)     *)
(*                                                                         *)
(* The interrupt handler and the timer function run to their end before    *)
(* a process runs again (one processor).  A process is interrupted between *)
(* any two of the calls it makes.  poll reads ev_press and changes         *)
(* nothing.                                                                *)
(***************************************************************************)
EXTENDS Naturals, FiniteSets

CONSTANTS Procs,        \* processes that use the device
          Threads,      \* the threads of a process, which share its open file
          NonBlock,     \* the processes that open with O_NONBLOCK
          NLines,       \* number of key interrupts
          UpFirst,      \* close gives the semaphore back before free_irq
          WaitTwice,    \* read waits again after its test of O_NONBLOCK
          Debounced     \* the interrupt starts buttons_timer

ASSUME ButtonsAssumption ==
    /\ NonBlock \subseteq Procs
    /\ NLines \in Nat \ {0}
    /\ {UpFirst, WaitTwice, Debounced} \subseteq BOOLEAN

Lines == 1..NLines      \* index in pins_desc
NoLine == 0             \* irq_pd is NULL, no key was reported

VARIABLES button_lock,  \* the semaphore
          irqs,         \* the lines with a registered handler
          refused,      \* the lines of the file in use that the kernel refused
          level,        \* the level of each key's pin, TRUE when released
          key_val,      \* the last key reported: <<line, level>>
          ev_press,     \* an event waits to be read
          irq_pd,       \* the line that interrupted last
          timer,        \* buttons_timer is pending
          ppc,          \* where each process is between open and close
          line,         \* next line of its request_irq or free_irq calls
          rpc,          \* where each thread is in read
          asleep,       \* threads asleep in button_waitq
          unseen        \* lines whose level changed with no handler registered
                        \* since their key was last sampled

vars == <<button_lock, irqs, refused, level, key_val, ev_press, irq_pd, timer, ppc,
          line, rpc, asleep, unseen>>
keyVars == <<level, key_val, ev_press, irq_pd, timer, asleep, unseen>>
fileVars == <<button_lock, irqs, refused, ppc, line>>

Readers == Procs \X Threads

TypeOK == /\ button_lock \in {0, 1}
          /\ irqs \subseteq Lines
          /\ refused \subseteq Lines
          /\ level \in [Lines -> BOOLEAN]
          /\ key_val \in (Lines \cup {NoLine}) \X BOOLEAN
          /\ ev_press \in {0, 1}
          /\ irq_pd \in Lines \cup {NoLine}
          /\ timer \in BOOLEAN
          /\ ppc \in [Procs -> {"closed", "request", "open", "free"}]
          /\ line \in [Procs -> Lines]
          /\ rpc \in [Readers -> {"idle", "wait", "wait2", "copy", "clear"}]
          /\ asleep \subseteq Readers
          /\ unseen \subseteq Lines

(* seventh_drv_init leaves the timer added with its expiry in the past: it *)
(* runs once with irq_pd NULL and does nothing.                            *)
Init == /\ button_lock = 1
        /\ irqs = {}
        /\ refused = {}
        /\ level = [l \in Lines |-> TRUE]
        /\ key_val = <<NoLine, FALSE>>
        /\ ev_press = 0
        /\ irq_pd = NoLine
        /\ timer = Debounced
        /\ ppc = [p \in Procs |-> "closed"]
        /\ line = [p \in Procs |-> 1]
        /\ rpc = [r \in Readers |-> "idle"]
        /\ asleep = {}
        /\ unseen = {}

-------------------------------------------------------------------------------
(* The key is reported: key_val, ev_press, and every reader in the wait    *)
(* queue tests ev_press again.                                             *)
ReportNoWake(l, pinval) ==      \* mutant: without wake_up_interruptible
    /\ key_val' = <<l, pinval>>
    /\ ev_press' = 1
    /\ unseen' = unseen \ {l}
    /\ UNCHANGED asleep

ReportKeyOnly(l, pinval) ==     \* mutant: ev_press is not set
    /\ key_val' = <<l, pinval>>
    /\ asleep' = {}
    /\ unseen' = unseen \ {l}
    /\ UNCHANGED ev_press

Report(l, pinval) ==
    /\ key_val' = <<l, pinval>>
    /\ ev_press' = 1
    /\ asleep' = {}
    /\ unseen' = unseen \ {l}

(* buttons_irq, called on both edges of a line that has a handler.         *)
ButtonsIrqIfRead(l) ==          \* mutant: an edge is dropped while an event is unread
    IF Debounced
    THEN /\ irq_pd' = l
         /\ timer' = (ev_press = 0)
         /\ UNCHANGED <<key_val, ev_press, asleep, unseen>>
    ELSE Report(l, level'[l]) /\ UNCHANGED <<irq_pd, timer>>

buttons_irq(l) ==
    IF Debounced
    THEN /\ irq_pd' = l
         /\ timer' = TRUE
         /\ UNCHANGED <<key_val, ev_press, asleep, unseen>>
    ELSE Report(l, level'[l]) /\ UNCHANGED <<irq_pd, timer>>

(* A key is pressed, is released, or bounces.                              *)
Edge(l) == /\ level' = [level EXCEPT ![l] = ~level[l]]
           /\ IF l \in irqs
              THEN buttons_irq(l)
              ELSE /\ unseen' = unseen \cup {l}
                   /\ UNCHANGED <<key_val, ev_press, asleep, irq_pd, timer>>
           /\ UNCHANGED <<rpc, fileVars>>

(* buttons_timer_function.  Nothing deletes the timer in close: it may run *)
(* when the device is closed, or was opened again.                         *)
TimerExpires ==
    /\ timer
    /\ timer' = FALSE
    /\ IF irq_pd = NoLine
       THEN UNCHANGED <<key_val, ev_press, asleep, unseen>>
       ELSE Report(irq_pd, level[irq_pd])
    /\ UNCHANGED <<level, irq_pd, rpc, fileVars>>

-------------------------------------------------------------------------------
DownTwice(p) ==                 \* mutant: down_trylock's result is taken the wrong way
    /\ ppc[p] = "closed"
    /\ button_lock = 1 \/ p \in NonBlock
    /\ button_lock' = 0
    /\ ppc' = [ppc EXCEPT ![p] = "request"]
    /\ UNCHANGED <<irqs, refused, line, rpc, keyVars>>

(* seventh_drv_open.  down sleeps until the semaphore is free, and         *)
(* down_trylock fails with -EBUSY, which changes nothing.                  *)
Down(p) == /\ ppc[p] = "closed"
           /\ button_lock = 1
           /\ button_lock' = 0
           /\ ppc' = [ppc EXCEPT ![p] = "request"]
           /\ UNCHANGED <<irqs, refused, line, rpc, keyVars>>

AdvanceLate(p, next) ==         \* mutant: one line too many
    IF line[p] = NLines + 1
    THEN /\ line' = [line EXCEPT ![p] = 1]
         /\ ppc' = [ppc EXCEPT ![p] = next]
    ELSE /\ line' = [line EXCEPT ![p] = @ + 1]
         /\ UNCHANGED ppc

(* The next line, or the state after the last one.                         *)
Advance(p, next) ==
    IF line[p] = NLines
    THEN /\ line' = [line EXCEPT ![p] = 1]
         /\ ppc' = [ppc EXCEPT ![p] = next]
    ELSE /\ line' = [line EXCEPT ![p] = @ + 1]
         /\ UNCHANGED ppc

(* request_irq: the line gets the handler; or it has one, and is not       *)
(* shared (-EBUSY); or the kernel refuses it for a reason of its own: the  *)
(* line is another driver's (-EBUSY), there is no memory (-ENOMEM).  The   *)
(* driver does not look at the result.                                     *)
RequestIrq(p) == /\ ppc[p] = "request"
                 /\ \/ irqs' = irqs \cup {line[p]} /\ UNCHANGED refused
                    \/ refused' = refused \cup {line[p]} /\ UNCHANGED irqs
                 /\ Advance(p, "open")
                 /\ UNCHANGED <<button_lock, rpc, keyVars>>

CloseUpFirst(p) ==              \* mutant: up before free_irq, as the earlier driver
    /\ ppc[p] = "open"
    /\ \A t \in Threads : rpc[<<p, t>>] = "idle"
    /\ ppc' = [ppc EXCEPT ![p] = "free"]
    /\ button_lock' = 1
    /\ UNCHANGED <<irqs, refused, line, rpc, keyVars>>

(* seventh_drv_close, called when no thread is left in a call on the file. *)
Close(p) == /\ ppc[p] = "open"
            /\ \A t \in Threads : rpc[<<p, t>>] = "idle"
            /\ ppc' = [ppc EXCEPT ![p] = "free"]
            /\ button_lock' = IF UpFirst THEN 1 ELSE button_lock
            /\ UNCHANGED <<irqs, refused, line, rpc, keyVars>>

(* free_irq of a line without this handler only warns.                     *)
FreeIrq(p) == /\ ppc[p] = "free"
              /\ irqs' = irqs \ {line[p]}
              /\ refused' = refused \ {line[p]}
              /\ Advance(p, "closed")
              /\ button_lock' = IF line[p] = NLines /\ ~UpFirst THEN 1 ELSE button_lock
              /\ UNCHANGED <<rpc, keyVars>>

-------------------------------------------------------------------------------
(* seventh_drv_read: the test of O_NONBLOCK, the wait, the copy of key_val *)
(* and the clearing of ev_press, with an interrupt possible before each.   *)
AfterTest == IF WaitTwice THEN "wait2" ELSE "copy"

Goto(r, at) == rpc' = [rpc EXCEPT ![r] = at]

Read(p, t) ==
    /\ ppc[p] = "open"
    /\ rpc[<<p, t>>] = "idle"
    /\ IF p \in NonBlock
       THEN /\ ev_press = 1                     \* otherwise -EAGAIN
            /\ Goto(<<p, t>>, AfterTest)
       ELSE Goto(<<p, t>>, "wait")
    /\ UNCHANGED <<keyVars, fileVars>>

AfterWait(r) == IF rpc[r] = "wait" THEN AfterTest ELSE "copy"

(* wait_event_interruptible joins the wait queue before it tests the       *)
(* condition, so that the test and going to sleep are one step.            *)
WaitEvent(r) ==
    /\ rpc[r] \in {"wait", "wait2"}
    /\ r \notin asleep
    /\ \/ ev_press = 1 /\ Goto(r, AfterWait(r)) /\ UNCHANGED asleep
       \/ ev_press = 0 /\ asleep' = asleep \cup {r} /\ UNCHANGED rpc
    /\ UNCHANGED <<level, key_val, ev_press, irq_pd, timer, unseen, fileVars>>

(* A signal (SIGIO is sent with each event) ends the wait; its result is   *)
(* not looked at and the read goes on.                                     *)
Interrupted(r) ==
    /\ r \in asleep
    /\ asleep' = asleep \ {r}
    /\ Goto(r, AfterWait(r))
    /\ UNCHANGED <<level, key_val, ev_press, irq_pd, timer, unseen, fileVars>>

CopyToUser(r) ==
    /\ rpc[r] = "copy"
    /\ Goto(r, "clear")
    /\ UNCHANGED <<keyVars, fileVars>>

ClearPress(r) ==
    /\ rpc[r] = "clear"
    /\ ev_press' = 0
    /\ Goto(r, "idle")
    /\ UNCHANGED <<level, key_val, irq_pd, timer, asleep, unseen, fileVars>>

ReadOn(r) == WaitEvent(r) \/ CopyToUser(r) \/ ClearPress(r)

Next == \/ \E l \in Lines : Edge(l)
        \/ TimerExpires
        \/ \E p \in Procs : Down(p) \/ RequestIrq(p) \/ Close(p) \/ FreeIrq(p)
        \/ \E p \in Procs, t \in Threads : Read(p, t)
        \/ \E r \in Readers : ReadOn(r) \/ Interrupted(r)

Spec == Init /\ [][Next]_vars

(* The timer expires, and a process that is inside open, close or read and *)
(* can go on is scheduled.  No key has to be pressed, nobody has to open,  *)
(* read or close.                                                          *)
Fairness == /\ WF_vars(TimerExpires)
            /\ \A p \in Procs : WF_vars(RequestIrq(p) \/ FreeIrq(p))
            /\ \A r \in Readers : WF_vars(ReadOn(r))

FairSpec == Spec /\ Fairness

-------------------------------------------------------------------------------
(* Properties.                                                             *)

(* Only the process that got button_lock runs the critical section, the    *)
(* calls of request_irq and free_irq included: one process at a time is    *)
(* between the beginning of its open and the end of its close, whatever    *)
(* the interleaving of blocking and non-blocking opens with closes.        *)
OneUser == \A p, q \in Procs : ppc[p] # "closed" /\ ppc[q] # "closed" => p = q

(* ... and the semaphore is free again when there is none.                 *)
SemaphoreAccounts == (button_lock = 0) <=> \E p \in Procs : ppc[p] # "closed"

(* The handlers of a process whose open has returned are its own: each one *)
(* is registered but for those the kernel refused to this very open, which *)
(* are missing without a word (81-84 ignore the result).  No process that  *)
(* closes makes a request of the next one fail or takes its handlers away, *)
(* and no refusal outlives its open.                                       *)
OpenHasIrqs == \A p \in Procs : ppc[p] = "open" => irqs = Lines \ refused

(* When the last close is over, no handler is left behind.                 *)
ClosedHasNoIrqs == (\A p \in Procs : ppc[p] = "closed") => irqs = {}

(* The debounced value: when the timer has run, key_val is the level at    *)
(* which the key that interrupted last has settled, however it bounced     *)
(* and whether or not the previous event was read, as long as its          *)
(* interrupt was never disabled while it moved.                            *)
DebouncedValue ==
    (Debounced /\ ~timer /\ irq_pd # NoLine /\ irq_pd \notin unseen) =>
        key_val = <<irq_pd, level[irq_pd]>>

(* No reader sleeps on an event: neither the timer nor another reader can  *)
(* leave it asleep with ev_press set.                                      *)
NoSleepOnEvent == ev_press = 1 => asleep = {}

(* "Non-blocking, that is, returns at once": a read of a file opened with  *)
(* O_NONBLOCK never sleeps.                                                *)
NonBlockReturns == \A r \in asleep : r[1] \notin NonBlock

(* A press is not lost on a process all of whose threads sleep in read:    *)
(* when the timer has reported the key, one of them returns it.  (While a  *)
(* thread is between its copy of key_val and its clearing of ev_press, an  *)
(* event is lost, to itself and to the threads that sleep.)                *)
PressReachesReader ==
    \A p \in Procs :
        (timer /\ irq_pd # NoLine /\ \A t \in Threads : <<p, t>> \in asleep)
            ~> \E t \in Threads : rpc[<<p, t>>] = "copy"
===============================================================================
