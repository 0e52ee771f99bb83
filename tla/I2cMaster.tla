------------------------------- MODULE I2cMaster ------------------------------
(***************************************************************************)
(* bare_board/code/I2c/20200510_IIC/i2c: the calls at24cxx_write and       *)
(* at24cxx_read, which become a list of i2c_msgs; s3c2440_master_xfer,     *)
(* which starts each message and spins until it is over; the interrupt     *)
(* handler, which moves the message on at each byte.  The bus and the      *)
(* EEPROM are the hardware: they are modelled from what the handler does   *)
(* with them.                                                              *)
(*                                                                         *)
(* A byte is a number below Size, the number of bytes of the EEPROM (256   *)
(* in the chip).  An interrupt runs to its end before main goes on.        *)
(***************************************************************************)
EXTENDS Integers, Sequences, FiniteSetsExt

CONSTANTS Size,         \* bytes of the EEPROM, and values of a byte
          Data,         \* the byte sequences passed to at24cxx_write
          Lens,         \* the lengths passed to at24cxx_read
          Junk          \* a byte of a buffer nobody has stored to

ASSUME I2cAssumption ==
    /\ Size \in Nat \ {0}
    /\ Data \subseteq Seq(0..Size - 1) \ {<<>>}    \* a string with its final 0
    /\ Lens \subseteq Nat
    /\ Junk \notin 0..Size - 1

Byte == 0..Size - 1
Addresses == 0..Size    \* what the menus of i2c_test.c let through

VARIABLES pc,           \* main: "idle", "start" a message, "wait" for it, or "lost"
          call,         \* the at24cxx call, and the EEPROM when it was made
          msgs,         \* the messages after the current one
          p_cur_msg,    \* the current message
          ret,          \* the result of the last call
          mode,         \* IICSTAT: master "tx" or "rx"
          irq,          \* IICCON[4]: an interrupt waits to be handled
          nack,         \* IICSTAT[0]: the last byte was not acknowledged
          ackOn,        \* IICCON[7]: the master acknowledges what it receives
          IICDS,        \* the data register
          bus,          \* what the byte on the bus is for the EEPROM
          mem,          \* the EEPROM
          ptr,          \* its word address
          latched,      \* data bytes received in this transfer
          busy          \* its internal write cycle is running

vars == <<pc, call, msgs, p_cur_msg, ret, mode, irq, nack, ackOn, IICDS, bus,
          mem, ptr, latched, busy>>
mainVars == <<pc, call, msgs, ret>>
chipVars == <<mem, ptr, latched, busy>>

BusStates == {"off",    \* no transfer: before a start, after a stop
              "start",  \* the device address
              "word",   \* the word address, to the EEPROM
              "data",   \* a data byte, to the EEPROM
              "read",   \* a data byte, from the EEPROM
              "free"}   \* the EEPROM has let the bus go

NoCall == [op |-> "none", addr |-> 0, data |-> <<>>, len |-> 0, mem |-> [a \in Byte |-> 0]]

Init == /\ pc = "idle"
        /\ call = NoCall
        /\ msgs = <<>>
        /\ p_cur_msg = [flags |-> 0, len |-> 0, cnt |-> 0, err |-> 0, buf |-> <<>>]
        /\ ret = 0
        /\ mode = "tx"
        /\ irq = FALSE
        /\ nack = FALSE
        /\ ackOn = TRUE
        /\ IICDS = 0
        /\ bus = "off"
        /\ mem = [a \in Byte |-> 0]
        /\ ptr = 0
        /\ latched = <<>>
        /\ busy = FALSE

-------------------------------------------------------------------------------
(* at24cxx.c.  The address is an int in main and a byte in the buffer that *)
(* is sent.  A write is one message per byte, a read sends the word        *)
(* address and receives len bytes.                                         *)
Message(flags, buf) == [flags |-> flags, len |-> Len(buf), cnt |-> -1, err |-> 0, buf |-> buf]

WriteMsgsSameAddr(addr, data) ==        \* mutant: addr is not incremented
    [i \in 1..Len(data) |-> Message(0, <<addr % Size, data[i]>>)]

WriteMsgs(addr, data) ==
    [i \in 1..Len(data) |-> Message(0, <<(addr + i - 1) % Size, data[i]>>)]

ReadMsgs(addr, len) ==
    <<Message(0, <<addr % Size>>), Message(1, [i \in 1..len |-> Junk])>>

at24cxx_write(addr, data) ==
    /\ pc = "idle"
    /\ pc' = "start"
    /\ call' = [op |-> "write", addr |-> addr, data |-> data, len |-> Len(data), mem |-> mem]
    /\ msgs' = WriteMsgs(addr, data)
    /\ UNCHANGED <<p_cur_msg, ret, mode, irq, nack, ackOn, IICDS, bus, chipVars>>

at24cxx_read(addr, len) ==
    /\ pc = "idle"
    /\ pc' = "start"
    /\ call' = [op |-> "read", addr |-> addr, data |-> <<>>, len |-> len, mem |-> mem]
    /\ msgs' = ReadMsgs(addr, len)
    /\ UNCHANGED <<p_cur_msg, ret, mode, irq, nack, ackOn, IICDS, bus, chipVars>>

(* do_master_tx and do_master_rx: the registers, and the start condition.  *)
Rested == bus = "off" /\ ~irq

StartMessage ==
    /\ pc = "start"
    /\ Rested
    /\ p_cur_msg' = [Head(msgs) EXCEPT !.cnt = -1, !.err = 0]
    /\ msgs' = Tail(msgs)
    /\ mode' = IF Head(msgs).flags = 0 THEN "tx" ELSE "rx"
    /\ ackOn' = TRUE
    /\ IICDS' = Junk                    \* the device address
    /\ bus' = "start"
    /\ pc' = "wait"
    /\ UNCHANGED <<call, ret, irq, nack, chipVars>>

(* A read of length zero ends the loop of line 201 with its first          *)
(* interrupt, while the EEPROM sends a byte.  When the call has returned,  *)
(* p_cur_msg points into a frame that is gone: the next interrupt counts   *)
(* in whatever is there now, and the next message writes the registers of  *)
(* a transfer that is under way.  What comes of it is not in the code: the *)
(* behaviour stops here.                                                   *)
ForNothing == p_cur_msg.flags = 1 /\ p_cur_msg.len = 0

TooEarly == /\ \/ pc = "idle" /\ irq
               \/ pc = "start" /\ ~Rested
            /\ pc' = "lost"
            /\ UNCHANGED <<call, msgs, p_cur_msg, ret, mode, irq, nack, ackOn, IICDS, bus,
                           chipVars>>

(* Their loops, which end with the message, and the loops of               *)
(* s3c2440_master_xfer and at24cxx_write, which end with the first error.  *)
MessageOver == p_cur_msg.err # 0 \/ p_cur_msg.cnt = p_cur_msg.len

FinishMessageAnyway ==          \* mutant: the result of a message is not tested
    /\ pc = "wait"
    /\ MessageOver
    /\ IF msgs # <<>>
       THEN pc' = "start" /\ UNCHANGED ret
       ELSE pc' = "idle" /\ ret' = 0
    /\ UNCHANGED <<call, msgs, p_cur_msg, mode, irq, nack, ackOn, IICDS, bus, chipVars>>

FinishMessageRetries ==         \* mutant: a message that failed is sent again
    /\ pc = "wait"
    /\ MessageOver
    /\ \/ /\ p_cur_msg.err # 0
          /\ pc' = "start" /\ msgs' = <<p_cur_msg>> \o msgs /\ UNCHANGED ret
       \/ /\ p_cur_msg.err = 0 /\ msgs = <<>>
          /\ pc' = "idle" /\ ret' = 0 /\ UNCHANGED msgs
       \/ /\ p_cur_msg.err = 0 /\ msgs # <<>>
          /\ pc' = "start" /\ UNCHANGED <<ret, msgs>>
    /\ UNCHANGED <<call, p_cur_msg, mode, irq, nack, ackOn, IICDS, bus, chipVars>>

FinishMessage ==
    /\ pc = "wait"
    /\ MessageOver
    /\ \/ /\ p_cur_msg.err # 0
          /\ pc' = "idle" /\ ret' = -1 /\ msgs' = <<>>
       \/ /\ p_cur_msg.err = 0 /\ msgs = <<>>
          /\ pc' = "idle" /\ ret' = 0 /\ UNCHANGED msgs
       \/ /\ p_cur_msg.err = 0 /\ msgs # <<>>
          /\ pc' = "start" /\ UNCHANGED <<ret, msgs>>
    /\ UNCHANGED <<call, p_cur_msg, mode, irq, nack, ackOn, IICDS, bus, chipVars>>

-------------------------------------------------------------------------------
(* The hardware.  A byte goes over the bus and raises the interrupt.  The  *)
(* EEPROM does not acknowledge its device address while it is writing.     *)
SendAddress == /\ bus = "start"
               /\ nack' = busy
               /\ bus' = IF busy THEN "free" ELSE IF mode = "tx" THEN "word" ELSE "read"
               /\ UNCHANGED <<IICDS, ptr, latched>>

SendWord == /\ bus = "word"
            /\ ptr' = IICDS
            /\ bus' = "data"
            /\ nack' = FALSE
            /\ UNCHANGED <<IICDS, latched>>

SendData == /\ bus = "data"
            /\ latched' = Append(latched, IICDS)
            /\ nack' = FALSE
            /\ UNCHANGED <<IICDS, ptr, bus>>

ReceiveData == /\ bus = "read"
               /\ IICDS' = mem[ptr]
               /\ ptr' = (ptr + 1) % Size
               /\ nack' = ~ackOn
               /\ bus' = IF ackOn THEN "read" ELSE "free"
               /\ UNCHANGED latched

BusByte == /\ ~irq
           /\ SendAddress \/ SendWord \/ SendData \/ ReceiveData
           /\ irq' = TRUE
           /\ UNCHANGED <<mainVars, p_cur_msg, mode, ackOn, mem, busy>>

(* A stop condition: the EEPROM writes what it has received.               *)
Stop == /\ bus' = "off"
        /\ latched' = <<>>
        /\ mem' = IF latched = <<>> THEN mem ELSE [mem EXCEPT ![ptr] = latched[1]]
        /\ busy' = (busy \/ latched # <<>>)
        /\ UNCHANGED ptr

WriteCycleEnds == /\ busy
                  /\ busy' = FALSE
                  /\ UNCHANGED <<mainVars, p_cur_msg, mode, irq, nack, ackOn, IICDS, bus,
                                 mem, ptr, latched>>

-------------------------------------------------------------------------------
(* i2c_interrupt_func.  cnt_transferred counts the interrupts of the       *)
(* message from 0: the first one is for the device address.                *)
cnt == p_cur_msg.cnt + 1
len == p_cur_msg.len

IsLastDataLate == cnt = len             \* mutant: off by one

isLastData == cnt = len - 1

TransmitWholeBuffer ==          \* mutant: <= for < in line 52
    /\ p_cur_msg.flags = 0
    /\ cnt = 0 => ~nack
    /\ IF cnt <= len
       THEN /\ IICDS' = IF cnt < len THEN p_cur_msg.buf[cnt + 1] ELSE 0
            /\ UNCHANGED <<bus, mem, ptr, latched, busy>>
       ELSE Stop /\ UNCHANGED IICDS
    /\ p_cur_msg' = [p_cur_msg EXCEPT !.cnt = cnt]
    /\ UNCHANGED ackOn

Transmit == /\ p_cur_msg.flags = 0
            /\ cnt = 0 => ~nack
            /\ p_cur_msg' = [p_cur_msg EXCEPT !.cnt = cnt]
            /\ \/ /\ cnt < len
                  /\ IICDS' = p_cur_msg.buf[cnt + 1]
                  /\ UNCHANGED <<bus, chipVars>>
               \/ /\ cnt >= len
                  /\ Stop
                  /\ UNCHANGED IICDS
            /\ UNCHANGED ackOn

NoDevice == /\ cnt = 0
            /\ nack
            /\ p_cur_msg' = [p_cur_msg EXCEPT !.cnt = cnt, !.err = -1]
            /\ Stop
            /\ UNCHANGED <<IICDS, ackOn>>

ReceiveFirst == /\ p_cur_msg.flags = 1
                /\ cnt = 0
                /\ ~nack
                /\ p_cur_msg' = [p_cur_msg EXCEPT !.cnt = cnt]
                /\ ackOn' = ~isLastData
                /\ UNCHANGED <<IICDS, bus, chipVars>>

ReceiveAtCount ==               \* mutant: the index is not corrected by one
    /\ p_cur_msg.flags = 1
    /\ cnt > 0
    /\ \/ /\ cnt < len
          /\ p_cur_msg' = [p_cur_msg EXCEPT !.cnt = cnt, !.buf[cnt + 1] = IICDS]
          /\ ackOn' = ~isLastData
          /\ UNCHANGED <<bus, chipVars>>
       \/ /\ cnt >= len
          /\ p_cur_msg' = [p_cur_msg EXCEPT !.cnt = cnt]
          /\ Stop
          /\ UNCHANGED ackOn
    /\ UNCHANGED IICDS

Receive == /\ p_cur_msg.flags = 1
           /\ cnt > 0
           /\ \/ /\ cnt < len
                 /\ p_cur_msg' = [p_cur_msg EXCEPT !.cnt = cnt, !.buf[cnt] = IICDS]
                 /\ ackOn' = ~isLastData
                 /\ UNCHANGED <<bus, chipVars>>
              \/ /\ cnt >= len
                 /\ p_cur_msg' = [p_cur_msg EXCEPT !.cnt = cnt]
                 /\ Stop
                 /\ UNCHANGED ackOn
           /\ UNCHANGED IICDS

i2c_interrupt_func == /\ pc = "wait"
                      /\ irq
                      /\ irq' = FALSE
                      /\ NoDevice \/ Transmit \/ ReceiveFirst \/ Receive
                      /\ UNCHANGED <<mainVars, mode, nack>>

-------------------------------------------------------------------------------
Next == \/ \E addr \in Addresses, data \in Data : at24cxx_write(addr, data)
        \/ \E addr \in Addresses, n \in Lens : at24cxx_read(addr, n)
        \/ StartMessage
        \/ FinishMessage
        \/ TooEarly
        \/ BusByte
        \/ WriteCycleEnds
        \/ i2c_interrupt_func

Spec == Init /\ [][Next]_vars

(* main runs, the bus moves on, interrupts are taken.  Nobody has to call, *)
(* and the EEPROM may write for as long as it likes.                       *)
Fairness == /\ WF_vars(StartMessage \/ FinishMessage \/ TooEarly)
            /\ WF_vars(BusByte)
            /\ WF_vars(i2c_interrupt_func)

FairSpec == Spec /\ Fairness

-------------------------------------------------------------------------------
(* Properties.                                                             *)
TypeOK == /\ pc \in {"idle", "start", "wait", "lost"}
          /\ ret \in {0, -1}
          /\ mode \in {"tx", "rx"}
          /\ {irq, nack, ackOn, busy} \subseteq BOOLEAN
          /\ IICDS \in Byte \cup {Junk}
          /\ bus \in BusStates
          /\ mem \in [Byte -> Byte]
          /\ ptr \in Byte
          /\ latched \in Seq(Byte) /\ Len(latched) <= 1
          /\ p_cur_msg.cnt \in -1..(IF ForNothing THEN 1 ELSE len)
          /\ p_cur_msg.buf \in Seq(Byte \cup {Junk})

(* The EEPROM after the first k bytes of a call c of at24cxx_write.  The   *)
(* word address wraps around the chip: buf[0] is a byte.                   *)
Address(c, k) == (c.addr + k) % Size

Stored(c, k) == [a \in Byte |->
    LET written == {i \in 1..k : Address(c, i - 1) = a}
    IN  IF written = {} THEN c.mem[a] ELSE c.data[Max(written)]]

(* at24cxx_write stores a prefix of its data, in order and byte by byte,   *)
(* and touches no other byte; if it returns 0 it has stored all of it.  A  *)
(* chip that is busy with the previous byte makes it return -1 half way.   *)
WriteOutcome ==
    call.op = "write" =>
        IF pc = "idle" /\ ret = 0
        THEN mem = Stored(call, call.len)
        ELSE \E k \in 0..call.len : mem = Stored(call, k)

(* at24cxx_read changes nothing in the chip, and when it returns 0 the     *)
(* bytes of the buffer but the last are those of the chip, in order.       *)
ReadOutcome ==
    call.op = "read" =>
        /\ mem = call.mem
        /\ (pc = "idle" /\ ret = 0) =>
               \A i \in 1..call.len - 1 : p_cur_msg.buf[i] = mem[Address(call, i - 1)]

(* Each interrupt after the first is for a new byte, which is read from    *)
(* IICDS and kept (lines 101-102): when at24cxx_read returns 0 all the     *)
(* bytes were read.                                                        *)
ReadComplete ==
    (call.op = "read" /\ pc = "idle" /\ ret = 0) =>
        \A i \in 1..call.len : p_cur_msg.buf[i] = mem[Address(call, i - 1)]

(* The loop at the end of do_master_tx and do_master_rx waits for the      *)
(* interrupts to be over (lines 170 and 200): when main goes on, the bus   *)
(* is free and no interrupt can use p_cur_msg.  The comments say it of     *)
(* every message; one kind breaks it, the read of length zero that the     *)
(* menu lets through (i2c_test.c:48), and no other one does: not a message *)
(* that failed, nor the message of another call.                           *)
WaitsForInterrupts == (pc # "wait" /\ ~ForNothing) => Rested /\ pc # "lost"

(* The master does not acknowledge the last byte it receives, so that the  *)
(* EEPROM lets the bus go before the stop condition (again but for a read  *)
(* of length zero, which acknowledges the byte it did not ask for).        *)
StopsAfterNack == [][bus = "read" /\ ~ForNothing => bus' # "off"]_vars

(* Every call returns, also when the device does not answer.  The loop of  *)
(* line 201 tests for equality: it misses its end, and spins for ever,     *)
(* only if the interrupt of the byte that a read of length zero did not    *)
(* ask for comes before its test.                                          *)
CallReturns == (pc # "idle") ~> (pc \in {"idle", "lost"} \/ p_cur_msg.cnt > len)
===============================================================================
