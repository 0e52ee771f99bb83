---------------------------- MODULE ButtonsProofs -----------------------------
(***************************************************************************)
(* Proofs about Buttons, for any number of processes, threads and keys.    *)
(*                                                                         *)
(* FileInv says what the handlers are while a process is inside open or    *)
(* close: its request_irq calls have been made for the lines before the    *)
(* next one, its free_irq calls have left the next one and those after it; *)
(* of these lines the ones that were not refused have a handler.           *)
(* KeyInv is about the keys and the readers, and does not depend on it.    *)
(***************************************************************************)
EXTENDS Buttons, TLAPS

AskedBy(p) ==
    CASE ppc[p] = "request" -> 1..line[p] - 1
      [] ppc[p] = "open" -> Lines
      [] ppc[p] = "free" -> line[p]..NLines
      [] OTHER -> {}

FileInv == /\ OneUser
           /\ SemaphoreAccounts
           /\ ClosedHasNoIrqs
           /\ (\A p \in Procs : ppc[p] = "closed") => refused = {}
           /\ \A p \in Procs : ppc[p] # "closed" =>
                  refused \subseteq AskedBy(p) /\ irqs = AskedBy(p) \ refused
           /\ \A p \in Procs : ppc[p] \in {"closed", "open"} => line[p] = 1

Waiting == \A r \in Readers :
               r \in asleep \/ rpc[r] \in {"wait", "wait2"} => r[1] \notin NonBlock

-------------------------------------------------------------------------------
(* Every variable has its type, whichever of the two drivers it is.        *)
THEOREM TypeCorrect == Spec => []TypeOK
<1> USE ButtonsAssumption DEF Lines, NoLine
<1>0. /\ Debounced \in BOOLEAN
      /\ \A k \in Lines \cup {NoLine}, v \in BOOLEAN :
             <<k, v>> \in (Lines \cup {NoLine}) \X BOOLEAN
  OBVIOUS
<1>1. ASSUME Init
      PROVE  TypeOK
  <2>1. key_val \in (Lines \cup {NoLine}) \X BOOLEAN
    BY <1>0, <1>1 DEF Init
  <2>2. timer \in BOOLEAN
    BY <1>0, <1>1, Zenon DEF Init
  <2>3. 1 \in Lines
    OBVIOUS
  <2> QED
    BY <1>1, <2>1, <2>2, <2>3 DEF Init, TypeOK
<1>2. TypeOK /\ [Next]_vars => TypeOK'
  <2> SUFFICES ASSUME TypeOK, [Next]_vars
               PROVE  TypeOK'
    OBVIOUS
  <2>1. CASE UNCHANGED vars
    BY <2>1 DEF TypeOK, vars
  <2>2. ASSUME NEW l \in Lines, NEW v \in BOOLEAN, Report(l, v)
        PROVE  /\ key_val' \in (Lines \cup {NoLine}) \X BOOLEAN
               /\ ev_press' \in {0, 1}
               /\ asleep' \subseteq Readers
               /\ unseen' \subseteq Lines
    BY <1>0, <2>2 DEF Report, TypeOK
  <2>3. ASSUME NEW p \in Procs, NEW next \in {"open", "closed"}, Advance(p, next)
        PROVE  /\ ppc' \in [Procs -> {"closed", "request", "open", "free"}]
               /\ line' \in [Procs -> Lines]
    <3>1. line[p] \in 1..NLines
      BY DEF TypeOK
    <3>2. CASE line[p] = NLines
      <4>1. /\ ppc' = [ppc EXCEPT ![p] = next]
            /\ line' = [line EXCEPT ![p] = 1]
        BY <2>3, <3>2 DEF Advance
      <4>2. 1 \in Lines
        OBVIOUS
      <4> QED BY <4>1, <4>2 DEF TypeOK
    <3>3. CASE line[p] # NLines
      <4>1. ppc' = ppc /\ line' = [line EXCEPT ![p] = line[p] + 1]
        BY <2>3, <3>3 DEF Advance
      <4>2. line[p] + 1 \in 1..NLines
        BY <3>1, <3>3
      <4> QED BY <4>1, <4>2 DEF TypeOK
    <3> QED BY <3>2, <3>3
  <2>4. ASSUME NEW l \in Lines, Edge(l)
        PROVE  TypeOK'
    <3>1. level' \in [Lines -> BOOLEAN]
      BY <2>4 DEF Edge, TypeOK
    <3>2. CASE l \in irqs /\ Debounced
      BY <2>4, <3>1, <3>2 DEF Edge, TypeOK, buttons_irq, fileVars
    <3>3. CASE l \in irqs /\ ~Debounced
      <4>1. level'[l] \in BOOLEAN
        BY <3>1
      <4>2. /\ Report(l, level'[l])
            /\ UNCHANGED <<irq_pd, timer, rpc, fileVars>>
        BY <2>4, <3>3 DEF Edge, buttons_irq
      <4> QED BY <2>2, <3>1, <4>1, <4>2 DEF TypeOK, fileVars
    <3>4. CASE l \notin irqs
      <4>1. /\ unseen' = unseen \cup {l}
            /\ UNCHANGED <<key_val, ev_press, asleep, irq_pd, timer, rpc, fileVars>>
        BY <2>4, <3>4 DEF Edge
      <4> QED BY <3>1, <4>1 DEF TypeOK, fileVars
    <3> QED BY <3>2, <3>3, <3>4
  <2>5. CASE TimerExpires
    <3>1. CASE irq_pd = NoLine
      BY <2>5, <3>1 DEF TimerExpires, TypeOK, fileVars
    <3>2. CASE irq_pd # NoLine
      <4>1. irq_pd \in Lines /\ level[irq_pd] \in BOOLEAN
        BY <3>2 DEF TypeOK
      <4>2. /\ Report(irq_pd, level[irq_pd])
            /\ timer' = FALSE
            /\ UNCHANGED <<level, irq_pd, rpc, fileVars>>
        BY <2>5, <3>2 DEF TimerExpires
      <4> QED BY <2>2, <4>1, <4>2 DEF TypeOK, fileVars
    <3> QED BY <3>1, <3>2
  <2>6. ASSUME NEW p \in Procs, Down(p) \/ RequestIrq(p) \/ Close(p) \/ FreeIrq(p)
        PROVE  TypeOK'
    <3>1. CASE Down(p)
      BY <3>1 DEF Down, TypeOK, keyVars
    <3>2. CASE RequestIrq(p)
      <4>1. line[p] \in Lines /\ Advance(p, "open")
        BY <3>2 DEF RequestIrq, TypeOK
      <4>2. irqs' \subseteq Lines /\ refused' \subseteq Lines
        BY <3>2, <4>1 DEF RequestIrq, TypeOK
      <4>3. /\ ppc' \in [Procs -> {"closed", "request", "open", "free"}]
            /\ line' \in [Procs -> Lines]
        BY <2>3, <4>1
      <4> QED BY <3>2, <4>2, <4>3 DEF RequestIrq, TypeOK, keyVars
    <3>3. CASE Close(p)
      BY <3>3 DEF Close, TypeOK, keyVars
    <3>4. CASE FreeIrq(p)
      <4>1. /\ ppc' \in [Procs -> {"closed", "request", "open", "free"}]
            /\ line' \in [Procs -> Lines]
        BY <2>3, <3>4 DEF FreeIrq
      <4> QED BY <3>4, <4>1 DEF FreeIrq, TypeOK, keyVars
    <3> QED BY <2>6, <3>1, <3>2, <3>3, <3>4
  <2>7. ASSUME NEW p \in Procs, NEW t \in Threads, Read(p, t)
        PROVE  TypeOK'
    BY <2>7 DEF Read, Goto, AfterTest, TypeOK, keyVars, fileVars
  <2>8. ASSUME NEW r \in Readers, ReadOn(r) \/ Interrupted(r)
        PROVE  TypeOK'
    BY <2>8 DEF ReadOn, WaitEvent, CopyToUser, ClearPress, Interrupted, Goto,
                AfterWait, AfterTest, TypeOK, keyVars, fileVars
  <2> QED
    BY <2>1, <2>4, <2>5, <2>6, <2>7, <2>8 DEF Next
<1> QED
  BY <1>1, <1>2, PTL DEF Spec

-------------------------------------------------------------------------------
(* The critical section of the debounce version, which gives button_lock   *)
(* back after its last free_irq.                                           *)
LEMMA FileInvariant ==
    ASSUME UpFirst = FALSE
    PROVE  Spec => []FileInv
<1> USE ButtonsAssumption DEF Lines
<1>1. Init => FileInv
  BY DEF Init, FileInv, OneUser, SemaphoreAccounts, ClosedHasNoIrqs
<1>2. TypeOK /\ FileInv /\ [Next]_vars => FileInv'
  <2> SUFFICES ASSUME TypeOK, FileInv, [Next]_vars
               PROVE  FileInv'
    OBVIOUS
  <2> USE DEF FileInv, OneUser, SemaphoreAccounts, ClosedHasNoIrqs, AskedBy
  <2>1. CASE UNCHANGED fileVars
    BY <2>1 DEF fileVars
  <2>2. ASSUME NEW p \in Procs, Down(p)
        PROVE  FileInv'
    <3>1. /\ ppc' = [ppc EXCEPT ![p] = "request"]
          /\ button_lock' = 0 /\ irqs' = irqs /\ refused' = refused /\ line' = line
          /\ ppc[p] = "closed" /\ line[p] = 1
          /\ \A q \in Procs : ppc[q] = "closed"
      BY <2>2 DEF Down, TypeOK
    <3>2. irqs = {} /\ refused = {} /\ 1..line[p] - 1 = {}
      BY <3>1
    <3> QED
      BY <3>1, <3>2 DEF TypeOK
  <2>3. ASSUME NEW p \in Procs, RequestIrq(p)
        PROVE  FileInv'
    <3>1. /\ ppc[p] = "request" /\ button_lock' = button_lock
          /\ refused \subseteq 1..line[p] - 1 /\ irqs = (1..line[p] - 1) \ refused
          /\ \/ irqs' = irqs \cup {line[p]} /\ refused' = refused
             \/ refused' = refused \cup {line[p]} /\ irqs' = irqs
          /\ \A q \in Procs : q # p => ppc[q] = "closed"
      BY <2>3 DEF RequestIrq
    <3>2. line[p] \in 1..NLines
      BY DEF TypeOK
    <3>3. refused' \subseteq 1..line[p] /\ irqs' = (1..line[p]) \ refused'
      BY <3>1, <3>2
    <3>4. CASE line[p] = NLines
      <4>1. /\ ppc' = [ppc EXCEPT ![p] = "open"]
            /\ line' = [line EXCEPT ![p] = 1]
        BY <2>3, <3>4 DEF RequestIrq, Advance
      <4> QED BY <3>1, <3>3, <3>4, <4>1 DEF TypeOK
    <3>5. CASE line[p] # NLines
      <4>1. /\ ppc' = ppc
            /\ line' = [line EXCEPT ![p] = line[p] + 1]
        BY <2>3, <3>5 DEF RequestIrq, Advance
      <4> QED BY <3>1, <3>2, <3>3, <3>5, <4>1 DEF TypeOK
    <3> QED BY <3>4, <3>5
  <2>4. ASSUME NEW p \in Procs, Close(p)
        PROVE  FileInv'
    <3>1. /\ ppc' = [ppc EXCEPT ![p] = "free"] /\ ppc[p] = "open" /\ line[p] = 1
          /\ button_lock' = button_lock /\ irqs' = irqs /\ refused' = refused
          /\ line' = line /\ refused \subseteq Lines /\ irqs = Lines \ refused
      BY <2>4 DEF Close
    <3> QED BY <3>1 DEF TypeOK
  <2>5. ASSUME NEW p \in Procs, FreeIrq(p)
        PROVE  FileInv'
    <3>1. /\ ppc[p] = "free"
          /\ refused \subseteq line[p]..NLines /\ irqs = (line[p]..NLines) \ refused
          /\ irqs' = irqs \ {line[p]} /\ refused' = refused \ {line[p]}
          /\ \A q \in Procs : q # p => ppc[q] = "closed"
      BY <2>5 DEF FreeIrq
    <3>2. line[p] \in 1..NLines
      BY DEF TypeOK
    <3>3. /\ refused' \subseteq (line[p] + 1)..NLines
          /\ irqs' = ((line[p] + 1)..NLines) \ refused'
      BY <3>1, <3>2
    <3>4. CASE line[p] = NLines
      <4>1. /\ ppc' = [ppc EXCEPT ![p] = "closed"]
            /\ line' = [line EXCEPT ![p] = 1] /\ button_lock' = 1
        BY <2>5, <3>4 DEF FreeIrq, Advance
      <4>2. irqs' = {} /\ refused' = {}
        BY <3>2, <3>3, <3>4
      <4> QED BY <3>1, <4>1, <4>2 DEF TypeOK
    <3>5. CASE line[p] # NLines
      <4>1. /\ ppc' = ppc /\ button_lock' = button_lock
            /\ line' = [line EXCEPT ![p] = line[p] + 1]
        BY <2>5, <3>5 DEF FreeIrq, Advance
      <4> QED BY <3>1, <3>2, <3>3, <3>5, <4>1 DEF TypeOK
    <3> QED BY <3>4, <3>5
  <2>6. ASSUME NEW l \in Lines, Edge(l)
        PROVE  UNCHANGED fileVars
    BY <2>6 DEF Edge
  <2>7. ASSUME NEW r \in Readers, ReadOn(r) \/ Interrupted(r)
        PROVE  UNCHANGED fileVars
    BY <2>7 DEF ReadOn, WaitEvent, CopyToUser, ClearPress, Interrupted
  <2>8. CASE TimerExpires
    BY <2>1, <2>8 DEF TimerExpires
  <2>9. ASSUME NEW p \in Procs, NEW t \in Threads, Read(p, t)
        PROVE  UNCHANGED fileVars
    BY <2>9 DEF Read
  <2>10. CASE UNCHANGED vars
    BY <2>1, <2>10 DEF vars, fileVars
  <2> QED
    BY <2>1, <2>2, <2>3, <2>4, <2>5, <2>6, <2>7, <2>8, <2>9, <2>10 DEF Next
<1> QED
  BY <1>1, <1>2, TypeCorrect, PTL DEF Spec

(* One process at a time between the beginning of open and the end of      *)
(* close, when close gives the semaphore back last.                        *)
THEOREM Exclusive ==
    ASSUME UpFirst = FALSE
    PROVE  Spec => []OneUser
<1>1. FileInv => OneUser
  BY DEF FileInv
<1> QED BY <1>1, FileInvariant, PTL

(* The semaphore is taken exactly while there is such a process.           *)
THEOREM SemaphoreIsRight ==
    ASSUME UpFirst = FALSE
    PROVE  Spec => []SemaphoreAccounts
<1>1. FileInv => SemaphoreAccounts
  BY DEF FileInv
<1> QED BY <1>1, FileInvariant, PTL

(* A process whose open has returned has the interrupt handlers the kernel *)
(* did not refuse to it, and keeps them until its own close: a process     *)
(* that leaves takes none of them away and makes no request fail.          *)
THEOREM OpenIsServed ==
    ASSUME UpFirst = FALSE
    PROVE  Spec => []OpenHasIrqs
<1>1. FileInv => OpenHasIrqs
  BY DEF FileInv, OpenHasIrqs, AskedBy
<1> QED BY <1>1, FileInvariant, PTL

(* No handler is left registered when the device is closed.                *)
THEOREM NoHandlerIsLeft ==
    ASSUME UpFirst = FALSE
    PROVE  Spec => []ClosedHasNoIrqs
<1>1. FileInv => ClosedHasNoIrqs
  BY DEF FileInv
<1> QED BY <1>1, FileInvariant, PTL

-------------------------------------------------------------------------------
(* The keys and the readers.  When the timer has run, the value reported   *)
(* is the settled level of the key that interrupted last.                  *)
THEOREM ReportedValueIsSettled == Spec => []DebouncedValue
<1> USE ButtonsAssumption DEF Lines, NoLine
<1>1. Init => DebouncedValue
  BY DEF Init, DebouncedValue
<1>2. TypeOK /\ DebouncedValue /\ [Next]_vars => DebouncedValue'
  <2> SUFFICES ASSUME TypeOK, DebouncedValue, [Next]_vars, Debounced
               PROVE  DebouncedValue'
    BY DEF DebouncedValue
  <2> DEFINE keys == <<level, key_val, irq_pd, timer, unseen>>
  <2>1. CASE UNCHANGED keys
    BY <2>1 DEF DebouncedValue
  <2>2. ASSUME NEW l \in Lines, Edge(l)
        PROVE  DebouncedValue'
    <3>1. CASE l \in irqs
      BY <2>2, <3>1 DEF Edge, buttons_irq, DebouncedValue
    <3>2. CASE l \notin irqs
      BY <2>2, <3>2 DEF Edge, DebouncedValue, TypeOK
    <3> QED BY <3>1, <3>2
  <2>3. CASE TimerExpires
    BY <2>3 DEF TimerExpires, Report, DebouncedValue, TypeOK
  <2>4. ASSUME NEW p \in Procs, Down(p) \/ RequestIrq(p) \/ Close(p) \/ FreeIrq(p)
        PROVE  UNCHANGED keys
    BY <2>4 DEF Down, RequestIrq, Close, FreeIrq, keyVars
  <2>5. ASSUME NEW p \in Procs, NEW t \in Threads, Read(p, t)
        PROVE  UNCHANGED keys
    BY <2>5 DEF Read, keyVars
  <2>6. ASSUME NEW r \in Readers, ReadOn(r) \/ Interrupted(r)
        PROVE  UNCHANGED keys
    BY <2>6 DEF ReadOn, WaitEvent, CopyToUser, ClearPress, Interrupted, keyVars
  <2>7. CASE UNCHANGED vars
    BY <2>1, <2>7 DEF vars
  <2> QED
    BY <2>1, <2>2, <2>3, <2>4, <2>5, <2>6, <2>7 DEF Next
<1> QED
  BY <1>1, <1>2, TypeCorrect, PTL DEF Spec

(* No reader sleeps while an event waits to be read.                       *)
THEOREM NobodySleepsOnEvent == Spec => []NoSleepOnEvent
<1>1. Init => NoSleepOnEvent
  BY DEF Init, NoSleepOnEvent
<1>2. NoSleepOnEvent /\ [Next]_vars => NoSleepOnEvent'
  <2> SUFFICES ASSUME NoSleepOnEvent, [Next]_vars
               PROVE  NoSleepOnEvent'
    OBVIOUS
  <2>1. CASE UNCHANGED <<ev_press, asleep>>
    BY <2>1 DEF NoSleepOnEvent
  <2>2. ASSUME NEW l \in Lines, Edge(l)
        PROVE  NoSleepOnEvent'
    BY <2>1, <2>2 DEF Edge, buttons_irq, Report, NoSleepOnEvent
  <2>3. CASE TimerExpires
    BY <2>1, <2>3 DEF TimerExpires, Report, NoSleepOnEvent
  <2>4. ASSUME NEW p \in Procs, Down(p) \/ RequestIrq(p) \/ Close(p) \/ FreeIrq(p)
        PROVE  UNCHANGED <<ev_press, asleep>>
    BY <2>4 DEF Down, RequestIrq, Close, FreeIrq, keyVars
  <2>5. ASSUME NEW p \in Procs, NEW t \in Threads, Read(p, t)
        PROVE  UNCHANGED <<ev_press, asleep>>
    BY <2>5 DEF Read, keyVars
  <2>6. ASSUME NEW r \in Readers, ReadOn(r) \/ Interrupted(r)
        PROVE  NoSleepOnEvent'
    BY <2>6 DEF ReadOn, WaitEvent, CopyToUser, ClearPress, Interrupted, keyVars,
                NoSleepOnEvent
  <2>7. CASE UNCHANGED vars
    BY <2>1, <2>7 DEF vars
  <2> QED
    BY <2>1, <2>2, <2>3, <2>4, <2>5, <2>6, <2>7 DEF Next
<1> QED
  BY <1>1, <1>2, PTL DEF Spec

(* In the debounce version, where the test of O_NONBLOCK is the only wait  *)
(* of a non-blocking read, such a read never sleeps.                       *)
THEOREM NonBlockingReadReturns ==
    ASSUME WaitTwice = FALSE
    PROVE  Spec => []NonBlockReturns
<1>1. Init => Waiting
  BY DEF Init, Waiting
<1>2. TypeOK /\ Waiting /\ [Next]_vars => Waiting'
  <2> SUFFICES ASSUME TypeOK, Waiting, [Next]_vars
               PROVE  Waiting'
    OBVIOUS
  <2>1. CASE asleep' \subseteq asleep /\ UNCHANGED rpc
    BY <2>1 DEF Waiting
  <2>2. ASSUME NEW l \in Lines, Edge(l)
        PROVE  asleep' \subseteq asleep /\ UNCHANGED rpc
    BY <2>2 DEF Edge, buttons_irq, Report
  <2>3. CASE TimerExpires
    BY <2>1, <2>3 DEF TimerExpires, Report
  <2>4. ASSUME NEW p \in Procs, Down(p) \/ RequestIrq(p) \/ Close(p) \/ FreeIrq(p)
        PROVE  UNCHANGED <<rpc, asleep>>
    BY <2>4 DEF Down, RequestIrq, Close, FreeIrq, keyVars
  <2>5. ASSUME NEW p \in Procs, NEW t \in Threads, Read(p, t)
        PROVE  Waiting'
    BY <2>5 DEF Read, keyVars, Goto, AfterTest, Waiting, TypeOK, Readers
  <2>6. ASSUME NEW r \in Readers, ReadOn(r) \/ Interrupted(r)
        PROVE  Waiting'
    BY <2>6 DEF ReadOn, WaitEvent, CopyToUser, ClearPress, Interrupted, keyVars,
                Goto, AfterWait, AfterTest, Waiting, TypeOK
  <2>7. CASE UNCHANGED vars
    BY <2>1, <2>7 DEF vars
  <2> QED
    BY <2>1, <2>2, <2>3, <2>4, <2>5, <2>6, <2>7 DEF Next
<1>3. TypeOK /\ Waiting => NonBlockReturns
  BY DEF TypeOK, Waiting, NonBlockReturns
<1> QED
  BY <1>1, <1>2, <1>3, TypeCorrect, PTL DEF Spec
===============================================================================
