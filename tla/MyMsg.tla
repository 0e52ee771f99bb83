-------------------------------- MODULE MyMsg ---------------------------------
(***************************************************************************)
(* my_proc_myprintk/mymsg.c: the ring buffer that drivers write to with    *)
(* myprintk and processes read as /proc/mymsg.  The lines of this file end *)
(* with a carriage return; line numbers here count them.                   *)
(*                                                                         *)
(* The kernel is not preemptive and has one processor: a process in it     *)
(* gives the processor up only where it sleeps, that is in                 *)
(* wait_event_interruptible and in a page fault of __put_user.  With       *)
(* IrqLogs interrupt handlers call myprintk too, at any point of a read.   *)
(*                                                                         *)
(* The characters are numbered in the order they are written.  A message   *)
(* of several characters is several steps of Put.                          *)
(***************************************************************************)
EXTENDS Naturals

CONSTANTS MYLOG_BUF_LEN,
          Readers,      \* the processes that read /proc/mymsg
          Counts,       \* the values of count they pass to read
          NonBlock,     \* those that open it with O_NONBLOCK
          IrqLogs,      \* interrupt handlers call myprintk
          Nobody,
          MaxChars      \* bound: characters written

ASSUME MyMsgAssumption ==
    /\ MYLOG_BUF_LEN \in Nat \ {0, 1}
    /\ Counts \subseteq Nat
    /\ NonBlock \subseteq Readers
    /\ IrqLogs \in BOOLEAN
    /\ Nobody \notin Readers
    /\ MaxChars \in Nat

N == MYLOG_BUF_LEN
Index == 0..N - 1

VARIABLES mylog_buf, mylog_r, mylog_w, mylog_r_for_read,
          last,         \* number of the last character written
          rpc,          \* where each reader is
          cpu,          \* the reader that is between two of its statements
          c,            \* its local c,
          pos,          \* the mylog_r_for_read it has loaded,
          i, count,     \* and its progress
          got,          \* the last character it was given since its open
          alone         \* nobody else has had the file open since its open

vars == <<mylog_buf, mylog_r, mylog_w, mylog_r_for_read, last, rpc, cpu, c, pos,
          i, count, got, alone>>
ringVars == <<mylog_buf, mylog_r, mylog_w, last>>
readVars == <<c, pos, i, count>>

TypeOK == /\ mylog_buf \in [Index -> 0..MaxChars]
          /\ {mylog_r, mylog_w, mylog_r_for_read} \subseteq Index
          /\ last \in 0..MaxChars
          /\ rpc \in [Readers -> {"closed", "open", "wait", "asleep", "get", "store", "put"}]
          /\ cpu \in Readers \cup {Nobody}
          /\ c \in [Readers -> 0..MaxChars]
          /\ pos \in [Readers -> Index]
          /\ i \in [Readers -> Nat] /\ count \in [Readers -> Counts \cup {0}]
          /\ \A p \in Readers : i[p] <= count[p]
          /\ got \in [Readers -> 0..MaxChars]
          /\ alone \in [Readers -> BOOLEAN]

Init == /\ mylog_buf = [k \in Index |-> 0]
        /\ mylog_r = 0
        /\ mylog_w = 0
        /\ mylog_r_for_read = 0
        /\ last = 0
        /\ rpc = [p \in Readers |-> "closed"]
        /\ cpu = Nobody
        /\ c = [p \in Readers |-> 0]
        /\ pos = [p \in Readers |-> 0]
        /\ i = [p \in Readers |-> 0]
        /\ count = [p \in Readers |-> 0]
        /\ got = [p \in Readers |-> 0]
        /\ alone = [p \in Readers |-> FALSE]

-------------------------------------------------------------------------------
(* (k + 1) % MYLOG_BUF_LEN, and the way from one index to another.         *)
Succ(k) == IF k = N - 1 THEN 0 ELSE k + 1

Dist(a, b) == IF a <= b THEN b - a ELSE b - a + N

ringbuffempty_for_read == mylog_r_for_read = mylog_w

RingFullWhenMet == mylog_w = mylog_r    \* mutant: all the bytes are used

ringbufffull == Succ(mylog_w) = mylog_r

(* ringbufffputc.  A full buffer drops its oldest character, and takes a   *)
(* reader that stood there along.                                          *)
DropOldestOnly ==               \* mutant: without lines 43-48
    IF ringbufffull
    THEN /\ mylog_r' = Succ(mylog_r)
         /\ UNCHANGED mylog_r_for_read
    ELSE UNCHANGED <<mylog_r, mylog_r_for_read>>

DropOldest ==
    IF ringbufffull
    THEN /\ mylog_r' = Succ(mylog_r)
         /\ mylog_r_for_read' = IF Succ(mylog_r_for_read) = Succ(mylog_r)
                                THEN Succ(mylog_r) ELSE mylog_r_for_read
    ELSE UNCHANGED <<mylog_r, mylog_r_for_read>>

WakeNobody == UNCHANGED rpc     \* mutant: without wake_up_interruptible

WakeUp == rpc' = [p \in Readers |-> IF rpc[p] = "asleep" THEN "wait" ELSE rpc[p]]

ringbufffputc ==
    /\ last < MaxChars
    /\ cpu = Nobody \/ IrqLogs
    /\ last' = last + 1
    /\ DropOldest
    /\ mylog_buf' = [mylog_buf EXCEPT ![mylog_w] = last + 1]
    /\ mylog_w' = Succ(mylog_w)
    /\ WakeUp
    /\ UNCHANGED <<cpu, readVars, got, alone>>

-------------------------------------------------------------------------------
(* mymsg_open.  Nothing is called when the file is closed.                 *)
mymsg_open(p) ==
    /\ cpu = Nobody
    /\ rpc[p] = "closed"
    /\ rpc' = [rpc EXCEPT ![p] = "open"]
    /\ mylog_r_for_read' = mylog_r
    /\ got' = [got EXCEPT ![p] = 0]
    /\ alone' = [q \in Readers |-> q = p /\ \A s \in Readers \ {p} : rpc[s] = "closed"]
    /\ UNCHANGED <<ringVars, cpu, readVars>>

Close(p) == /\ cpu = Nobody
            /\ rpc[p] = "open"
            /\ rpc' = [rpc EXCEPT ![p] = "closed"]
            /\ UNCHANGED <<ringVars, mylog_r_for_read, cpu, readVars, got, alone>>

(* mymsg_read up to the wait: -EAGAIN changes nothing.                     *)
mymsg_read(p, n) ==
    /\ cpu = Nobody
    /\ rpc[p] = "open"
    /\ p \in NonBlock => ~ringbuffempty_for_read
    /\ rpc' = [rpc EXCEPT ![p] = "wait"]
    /\ i' = [i EXCEPT ![p] = 0]
    /\ count' = [count EXCEPT ![p] = n]
    /\ UNCHANGED <<ringVars, mylog_r_for_read, cpu, c, pos, got, alone>>

Wait(p) == /\ cpu = Nobody
           /\ rpc[p] = "wait"
           /\ rpc' = [rpc EXCEPT ![p] = IF ringbuffempty_for_read THEN "asleep" ELSE "get"]
           /\ UNCHANGED <<ringVars, mylog_r_for_read, cpu, readVars, got, alone>>

(* A signal: read returns the error.                                       *)
Interrupted(p) ==
    /\ cpu = Nobody
    /\ rpc[p] = "asleep"
    /\ rpc' = [rpc EXCEPT ![p] = "open"]
    /\ UNCHANGED <<ringVars, mylog_r_for_read, cpu, readVars, got, alone>>

(* ringbuffgetc_for_read loads mylog_r_for_read once, at its beginning ... *)
GetChar(p) ==
    /\ cpu = Nobody
    /\ rpc[p] = "get"
    /\ IF ringbuffempty_for_read
       THEN /\ rpc' = [rpc EXCEPT ![p] = "open"]
            /\ UNCHANGED <<cpu, c, pos>>
       ELSE /\ rpc' = [rpc EXCEPT ![p] = "store"]
            /\ cpu' = p
            /\ c' = [c EXCEPT ![p] = mylog_buf[mylog_r_for_read]]
            /\ pos' = [pos EXCEPT ![p] = mylog_r_for_read]
    /\ UNCHANGED <<ringVars, mylog_r_for_read, i, count, got, alone>>

StorePutsAnyway(p) ==           \* mutant: i <= count in line 110
    /\ rpc[p] = "store"
    /\ mylog_r_for_read' = Succ(pos[p])
    /\ cpu' = Nobody
    /\ rpc' = [rpc EXCEPT ![p] = IF i[p] <= count[p] THEN "put" ELSE "open"]
    /\ UNCHANGED <<ringVars, readVars, got, alone>>

(* ... and stores its successor; then the loop tests i < count.            *)
StoreIndex(p) ==
    /\ rpc[p] = "store"
    /\ mylog_r_for_read' = Succ(pos[p])
    /\ cpu' = Nobody
    /\ rpc' = [rpc EXCEPT ![p] = IF i[p] < count[p] THEN "put" ELSE "open"]
    /\ UNCHANGED <<ringVars, readVars, got, alone>>

(* __put_user, which may fail with -EFAULT.                                *)
PutUser(p) ==
    /\ cpu = Nobody
    /\ rpc[p] = "put"
    /\ \/ /\ rpc' = [rpc EXCEPT ![p] = "get"]
          /\ got' = [got EXCEPT ![p] = c[p]]
          /\ i' = [i EXCEPT ![p] = i[p] + 1]
       \/ /\ rpc' = [rpc EXCEPT ![p] = "open"]
          /\ UNCHANGED <<got, i>>
    /\ UNCHANGED <<ringVars, mylog_r_for_read, cpu, c, pos, count, alone>>

Next == \/ ringbufffputc
        \/ \E p \in Readers : mymsg_open(p) \/ Close(p)
        \/ \E p \in Readers, n \in Counts : mymsg_read(p, n)
        \/ \E p \in Readers : Wait(p) \/ Interrupted(p)
        \/ \E p \in Readers : GetChar(p) \/ StoreIndex(p) \/ PutUser(p)

Spec == Init /\ [][Next]_vars

-------------------------------------------------------------------------------
(* Properties.                                                             *)

(* The buffer holds the last characters written, in their order: all of    *)
(* them while they fit, then as many as fit.                               *)
Held == Dist(mylog_r, mylog_w)

LogIsTail ==
    /\ Held = IF last < N THEN last ELSE N - 1
    /\ \A k \in Index : Dist(mylog_r, k) < Held =>
           mylog_buf[k] = last - Held + Dist(mylog_r, k) + 1

(* A reader that has the file for itself gets the oldest character first,  *)
(* and then each next one: it skips only what was overwritten before it    *)
(* could read it, since mylog_r_for_read is kept consistent with mylog_r   *)
(* when the writer overtakes (lines 43-44).  This holds within a call of   *)
(* read ...                                                                *)
Given(p) == rpc[p] = "put" /\ rpc'[p] = "get"

NextOrOverwritten(p) ==
    \/ got'[p] = got[p] + 1
    \/ got'[p] > got[p] + 1 /\ got'[p] <= last - (N - 1) + 1

ReadInOrder ==
    [][\A p \in Readers : (Given(p) /\ alone[p] /\ i[p] > 0) => NextOrOverwritten(p)]_vars

(* ... and the content of mylog_buf is what is copied to the user (line    *)
(* 96): also from one read to the next.                                    *)
NothingSkipped ==
    [][\A p \in Readers : (Given(p) /\ alone[p]) => NextOrOverwritten(p)]_vars

(* A reader that has the file for itself does not sleep while there is     *)
(* something to read: "wait until it is not empty" (line 106).             *)
NoSleepOnData ==
    \A p \in Readers : rpc[p] = "asleep" /\ alone[p] => ringbuffempty_for_read
===============================================================================
