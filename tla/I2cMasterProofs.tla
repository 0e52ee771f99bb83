--------------------------- MODULE I2cMasterProofs ----------------------------
(***************************************************************************)
(* Proofs about I2cMaster, for an EEPROM of any size, any strings written  *)
(* and any lengths read, zero included.                                    *)
(***************************************************************************)
EXTENDS I2cMaster, TLAPS

(* The messages that at24cxx.c makes: an address, an address and a byte,   *)
(* or bytes to be received.                                                *)
Msg == [flags : {0, 1}, len : Nat, cnt : Int, err : {0, -1}, buf : Seq(Byte \cup {Junk})]

MsgOK(m) == /\ m \in Msg
            /\ m.len = Len(m.buf)
            /\ m.flags = 0 => m.buf \in Seq(Byte) /\ m.len \in {1, 2}

Calls == [op : {"none", "write", "read"}, addr : Addresses, data : Seq(Byte), len : Nat,
          mem : [Byte -> Byte]]

TypeInv == /\ pc \in {"idle", "start", "wait", "lost"}
           /\ ret \in {0, -1}
           /\ mode \in {"tx", "rx"}
           /\ irq \in BOOLEAN /\ nack \in BOOLEAN /\ ackOn \in BOOLEAN /\ busy \in BOOLEAN
           /\ IICDS \in Byte \cup {Junk}
           /\ bus \in BusStates
           /\ mem \in [Byte -> Byte]
           /\ ptr \in Byte
           /\ latched \in Seq(Byte)
           /\ p_cur_msg \in Msg
           /\ call \in Calls
           /\ msgs \in Seq(Msg)
           /\ \A i \in 1..Len(msgs) : MsgOK(msgs[i])

(* Where a message is between its start and its stop condition: how many   *)
(* interrupts were handled, and for what the byte on the bus is.           *)
done == p_cur_msg.cnt
buf == p_cur_msg.buf

TxStep == /\ p_cur_msg.flags = 0
          /\ mode = "tx"
          /\ \/ /\ latched = <<>>
                /\ \/ done = -1 /\ ~irq /\ bus = "start"
                   \/ done = -1 /\ irq /\ bus = IF nack THEN "free" ELSE "word"
                   \/ done = 0 /\ ~irq /\ bus = "word" /\ IICDS = buf[1]
                   \/ done = 0 /\ irq /\ bus = "data" /\ ptr = buf[1]
                   \/ done = 1 /\ len = 2 /\ ~irq /\ bus = "data" /\ ptr = buf[1] /\ IICDS = buf[2]
             \/ done = 1 /\ len = 2 /\ irq /\ bus = "data" /\ ptr = buf[1] /\ latched = <<buf[2]>>

RxStep == /\ p_cur_msg.flags = 1
          /\ mode = "rx"
          /\ latched = <<>>
          /\ \/ done = -1 /\ ~irq /\ bus = "start"
             \/ done = -1 /\ irq /\ bus = IF nack THEN "free" ELSE "read"
             \/ done \in 0..len - 1 /\ ~irq /\ bus = "read" /\ (ackOn <=> done # len - 1)
             \/ done \in 0..len - 1 /\ irq /\ bus = IF done = len - 1 THEN "free" ELSE "read"

(* Between two messages the bus is free, and nothing waits to be stored.   *)
Quiet == bus = "off" /\ ~irq /\ latched = <<>>

(* A read of length zero whose loop may end: the chip is sending a byte.   *)
(* When the loop has missed its end, the transfer is over and main spins.  *)
Runaway == /\ ForNothing /\ done = 0 /\ p_cur_msg.err = 0
           /\ bus = "read" /\ ackOn /\ latched = <<>>

Spinning == Quiet /\ ForNothing /\ done = 1 /\ p_cur_msg.err = 0

FlowInv ==
    /\ pc = "idle" => msgs = <<>>
    /\ pc = "start" => msgs # <<>>
    /\ pc = "lost" => Runaway
    /\ pc # "wait" => MessageOver /\ (Quiet \/ Runaway)
    /\ pc = "wait" => /\ MsgOK(p_cur_msg)
                      /\ \/ MessageOver /\ Quiet
                         \/ Runaway
                         \/ Spinning
                         \/ p_cur_msg.err = 0 /\ (TxStep \/ RxStep)
    /\ MessageOver => done \in -1..len

-------------------------------------------------------------------------------
(* The chip has at least one cell, and Junk is the value of none.          *)
LEMMA SizeFacts == /\ Size \in Nat /\ Size > 0
                   /\ Byte = 0..Size - 1 /\ 0 \in Byte /\ Junk \notin Byte
                   /\ Addresses \subseteq Nat
  BY I2cAssumption DEF Byte, Addresses

(* What the assignments to fields of a message leave alone.                *)
LEMMA MsgFields ==
    ASSUME NEW m \in Msg
    PROVE  /\ m.flags \in {0, 1} /\ m.len \in Nat /\ m.cnt \in Int /\ m.err \in {0, -1}
           /\ m.buf \in Seq(Byte \cup {Junk})
  BY DEF Msg

(* Assigning the counter and the error of a message (i2c_transfer).        *)
LEMMA SetMsg ==
    ASSUME NEW m \in Msg, NEW k \in Int, NEW e \in {0, -1}
    PROVE  LET n == [m EXCEPT !.cnt = k, !.err = e]
           IN  /\ n \in Msg /\ n.cnt = k /\ n.err = e
               /\ n.flags = m.flags /\ n.len = m.len /\ n.buf = m.buf
               /\ MsgOK(m) => MsgOK(n)
<1> DEFINE n == [m EXCEPT !.cnt = k, !.err = e]
<1>2. /\ n.cnt = k /\ n.err = e
      /\ n.flags = m.flags /\ n.len = m.len /\ n.buf = m.buf
  BY DEF Msg
<1>3. n \in Msg
  BY DEF Msg
<1> HIDE DEF n
<1>4. MsgOK(m) => MsgOK(n)
  BY <1>2, <1>3 DEF MsgOK
<1> QED BY <1>2, <1>3, <1>4 DEF n

(* A word address of any size ends up in the chip.                         *)
LEMMA WrapType == ASSUME NEW a \in Nat PROVE a % Size \in Byte
  BY SizeFacts

(* at24cxx_write sends one message of two bytes for each byte of data.     *)
LEMMA WriteMsgsType ==
    ASSUME NEW addr \in Addresses, NEW data \in Data
    PROVE  /\ data \in Seq(Byte) /\ data # <<>> /\ Len(data) \in Nat /\ Len(data) > 0
           /\ WriteMsgs(addr, data) \in Seq(Msg)
           /\ Len(WriteMsgs(addr, data)) = Len(data)
           /\ \A i \in 1..Len(data) :
                  /\ WriteMsgs(addr, data)[i] = Message(0, <<(addr + i - 1) % Size, data[i]>>)
                  /\ MsgOK(WriteMsgs(addr, data)[i])
<1>1. data \in Seq(Byte) /\ data # <<>>
  BY I2cAssumption DEF Byte
<1>2. Len(data) \in Nat /\ Len(data) > 0 /\ \A i \in 1..Len(data) : data[i] \in Byte
  BY <1>1
<1>3. ASSUME NEW i \in 1..Len(data)
      PROVE  MsgOK(Message(0, <<(addr + i - 1) % Size, data[i]>>))
  <2>1. (addr + i - 1) % Size \in Byte
    <3>1. addr + i - 1 \in Nat
      BY <1>2, SizeFacts
    <3> QED BY <3>1, WrapType
  <2>2. data[i] \in Byte
    BY <1>2
  <2> DEFINE b == <<(addr + i - 1) % Size, data[i]>>
  <2>3. b \in Seq(Byte) /\ Len(b) = 2 /\ b \in Seq(Byte \cup {Junk})
    BY <2>1, <2>2
  <2> HIDE DEF b
  <2>4. MsgOK(Message(0, b))
    BY <2>3 DEF MsgOK, Message, Msg
  <2> QED BY <2>4 DEF b
<1>4. WriteMsgs(addr, data) = [i \in 1..Len(data) |-> Message(0, <<(addr + i - 1) % Size, data[i]>>)]
  BY DEF WriteMsgs
<1>5. \A i \in 1..Len(data) :
        /\ WriteMsgs(addr, data)[i] = Message(0, <<(addr + i - 1) % Size, data[i]>>)
        /\ MsgOK(WriteMsgs(addr, data)[i])
  BY <1>3, <1>4
<1>6. \A i \in 1..Len(data) : WriteMsgs(addr, data)[i] \in Msg
  BY <1>5 DEF MsgOK
<1>7. WriteMsgs(addr, data) \in [1..Len(data) -> Msg]
  BY <1>4, <1>6
<1>8. WriteMsgs(addr, data) \in Seq(Msg) /\ Len(WriteMsgs(addr, data)) = Len(data)
  BY <1>2, <1>7
<1> QED BY <1>1, <1>2, <1>5, <1>8

(* at24cxx_read sends the word address and then asks for n bytes.          *)
LEMMA ReadMsgsType ==
    ASSUME NEW addr \in Addresses, NEW n \in Nat
    PROVE  LET m == ReadMsgs(addr, n)
           IN  /\ m \in Seq(Msg) /\ Len(m) = 2
               /\ Tail(m) = <<m[2]>>
               /\ MsgOK(m[1]) /\ MsgOK(m[2])
               /\ m[1].flags = 0 /\ m[1].buf = <<addr % Size>>
               /\ m[2].flags = 1 /\ m[2].len = n
<1> DEFINE b == <<addr % Size>>
           j == [i \in 1..n |-> Junk]
<1>1. b \in Seq(Byte) /\ Len(b) = 1 /\ b \in Seq(Byte \cup {Junk})
  BY WrapType, SizeFacts
<1>2. j \in Seq(Byte \cup {Junk}) /\ Len(j) = n
  OBVIOUS
<1> HIDE DEF b, j
<1>3. MsgOK(Message(0, b))
  BY <1>1 DEF MsgOK, Message, Msg
<1>4. MsgOK(Message(1, j)) /\ Message(1, j).len = n
  BY <1>2 DEF MsgOK, Message, Msg
<1>5. ReadMsgs(addr, n) = <<Message(0, b), Message(1, j)>>
  BY DEF ReadMsgs, b, j
<1>6. Message(0, b) \in Msg /\ Message(1, j) \in Msg
  BY <1>3, <1>4 DEF MsgOK
<1>7. Message(0, b).flags = 0 /\ Message(0, b).buf = b /\ Message(1, j).flags = 1
  BY DEF Message
<1> HIDE DEF Message
<1>8. /\ ReadMsgs(addr, n) \in Seq(Msg) /\ Len(ReadMsgs(addr, n)) = 2
      /\ ReadMsgs(addr, n)[1] = Message(0, b) /\ ReadMsgs(addr, n)[2] = Message(1, j)
      /\ Tail(ReadMsgs(addr, n)) = <<Message(1, j)>>
  BY <1>5, <1>6
<1> QED BY <1>3, <1>4, <1>7, <1>8 DEF b

-------------------------------------------------------------------------------
(* One lemma for each part of Next.                                        *)
FlowOK == TypeInv /\ FlowInv

(* at24cxx_write starts a list of messages to transmit.                    *)
LEMMA WriteFlow ==
    ASSUME FlowOK, NEW addr \in Addresses, NEW data \in Data, at24cxx_write(addr, data)
    PROVE  FlowOK'
<1>1. msgs' \in Seq(Msg) /\ (\A i \in 1..Len(msgs') : MsgOK(msgs'[i])) /\ msgs' # <<>>
  <2>1. msgs' = WriteMsgs(addr, data)
    BY DEF at24cxx_write
  <2>2. /\ msgs' \in Seq(Msg) /\ Len(msgs') = Len(data) /\ Len(data) > 0 /\ Len(data) \in Nat
        /\ \A i \in 1..Len(data) : MsgOK(msgs'[i])
    BY <2>1, WriteMsgsType, Zenon
  <2> QED BY <2>2
<1>2. call' \in Calls
  BY WriteMsgsType DEF at24cxx_write, Calls, FlowOK, TypeInv
<1>3. TypeInv'
  BY <1>1, <1>2 DEF at24cxx_write, FlowOK, TypeInv, chipVars
<1>4. FlowInv'
  BY <1>1 DEF at24cxx_write, FlowOK, FlowInv, Quiet, Runaway, ForNothing, MessageOver, done, len, chipVars
<1> QED BY <1>3, <1>4 DEF FlowOK

(* at24cxx_read starts a list of a message to transmit and one to receive. *)
LEMMA ReadFlow ==
    ASSUME FlowOK, NEW addr \in Addresses, NEW n \in Nat, at24cxx_read(addr, n)
    PROVE  FlowOK'
<1>1. msgs' \in Seq(Msg) /\ (\A i \in 1..Len(msgs') : MsgOK(msgs'[i])) /\ msgs' # <<>>
  BY ReadMsgsType DEF at24cxx_read
<1>2. call' \in Calls
  BY DEF at24cxx_read, Calls, FlowOK, TypeInv
<1>3. TypeInv'
  BY <1>1, <1>2 DEF at24cxx_read, FlowOK, TypeInv, chipVars
<1>4. FlowInv'
  BY <1>1 DEF at24cxx_read, FlowOK, FlowInv, Quiet, Runaway, ForNothing, MessageOver, done, len, chipVars
<1> QED BY <1>3, <1>4 DEF FlowOK

(* Starting a message makes it the current one, with the counter at -1.    *)
LEMMA StartFlow ==
    ASSUME FlowOK, StartMessage
    PROVE  /\ FlowOK'
           /\ p_cur_msg' = [Head(msgs) EXCEPT !.cnt = -1, !.err = 0]
           /\ MsgOK(Head(msgs)) /\ msgs # <<>> /\ ~MessageOver'
<1>1. msgs # <<>> /\ msgs \in Seq(Msg)
  BY DEF FlowOK, FlowInv, TypeInv, StartMessage
<1>2. MsgOK(Head(msgs)) /\ Head(msgs) = msgs[1]
  BY <1>1 DEF FlowOK, TypeInv
<1>3. msgs' \in Seq(Msg) /\ \A i \in 1..Len(msgs') : MsgOK(msgs'[i])
  <2>1. msgs' = Tail(msgs)
    BY DEF StartMessage
  <2>2. Len(msgs') = Len(msgs) - 1 /\ \A i \in 1..Len(msgs') : msgs'[i] = msgs[i + 1]
    BY <1>1, <2>1
  <2>3. msgs' \in Seq(Msg)
    BY <1>1, <2>1
  <2>4. \A i \in 1..Len(msgs) : MsgOK(msgs[i])
    BY DEF FlowOK, TypeInv
  <2>5. ASSUME NEW i \in 1..Len(msgs')
        PROVE  MsgOK(msgs'[i])
    <3>1. i + 1 \in 1..Len(msgs) /\ msgs'[i] = msgs[i + 1]
      BY <1>1, <2>2
    <3> QED BY <2>4, <3>1
  <2> QED BY <2>3, <2>5
<1>4. /\ p_cur_msg' = [Head(msgs) EXCEPT !.cnt = -1, !.err = 0]
      /\ pc = "start" /\ pc' = "wait" /\ bus' = "start" /\ ackOn' = TRUE /\ IICDS' = Junk
      /\ mode' = IF Head(msgs).flags = 0 THEN "tx" ELSE "rx"
      /\ UNCHANGED <<call, ret, irq, nack, mem, ptr, latched, busy>>
  BY DEF StartMessage, chipVars
<1> DEFINE m == Head(msgs)
<1>5. m \in Msg /\ m.flags \in {0, 1}
  BY <1>2 DEF MsgOK, Msg
<1> HIDE DEF m
<1>6. /\ p_cur_msg' \in Msg /\ MsgOK(p_cur_msg')
      /\ p_cur_msg'.cnt = -1 /\ p_cur_msg'.err = 0 /\ p_cur_msg'.flags = m.flags
      /\ p_cur_msg'.len \in Nat /\ p_cur_msg'.len = m.len
  <2> DEFINE n == [m EXCEPT !.cnt = -1, !.err = 0]
  <2>1. /\ n \in Msg /\ n.cnt = -1 /\ n.err = 0
        /\ n.flags = m.flags /\ n.len = m.len /\ n.buf = m.buf
    <3>1. -1 \in Int /\ 0 \in {0, -1}
      OBVIOUS
    <3> QED BY <1>5, <3>1, SetMsg, Zenon
  <2>2. p_cur_msg' = n
    BY <1>4 DEF m
  <2>3. MsgOK(m) /\ m.len \in Nat
    BY <1>2, <1>5 DEF m, Msg
  <2> HIDE DEF n
  <2>4. MsgOK(n)
    BY <2>1, <2>3 DEF MsgOK
  <2> QED BY <2>1, <2>2, <2>3, <2>4
<1>7. TypeInv'
  BY <1>3, <1>4, <1>6 DEF FlowOK, TypeInv, BusStates, m
<1>8. ~irq /\ latched = <<>>
  BY <1>4 DEF FlowOK, FlowInv, Quiet, Runaway, StartMessage, Rested
<1>9. ~MessageOver'
  BY <1>6 DEF MessageOver
<1>10. FlowInv'
  BY <1>4, <1>5, <1>6, <1>8, <1>9 DEF FlowInv, TxStep, RxStep, done, m
<1> QED BY <1>1, <1>2, <1>4, <1>7, <1>9, <1>10 DEF FlowOK, m

(* A message that is over leads to the next one or to the end of the call. *)
LEMMA FinishFlow ==
    ASSUME FlowOK, FinishMessage
    PROVE  FlowOK'
<1>1. TypeInv'
  <2>1. UNCHANGED <<call, p_cur_msg, mode, irq, nack, ackOn, IICDS, bus, mem, ptr, latched, busy>>
    BY DEF FinishMessage, chipVars
  <2>2. pc' \in {"idle", "start"} /\ ret' \in {0, -1}
    BY DEF FinishMessage, FlowOK, TypeInv
  <2>3. msgs' = msgs \/ msgs' = <<>>
    BY DEF FinishMessage
  <2>4. msgs' \in Seq(Msg) /\ \A i \in 1..Len(msgs') : MsgOK(msgs'[i])
    <3>1. CASE msgs' = msgs
      BY <3>1 DEF FlowOK, TypeInv
    <3>2. CASE msgs' = <<>>
      BY <3>2
    <3> QED BY <2>3, <3>1, <3>2
  <2> QED BY <2>1, <2>2, <2>4 DEF FlowOK, TypeInv
<1>2. Quiet \/ Runaway
  <2>1. TypeInv /\ pc = "wait" /\ MessageOver
    BY DEF FlowOK, FinishMessage
  <2>2. CASE p_cur_msg.err = 0 /\ (TxStep \/ RxStep)
    <3>1. MsgOK(p_cur_msg) /\ done = len
      BY <2>1, <2>2 DEF FlowOK, FlowInv, MessageOver, done, len
    <3>2. p_cur_msg.flags \in {0, 1} /\ len \in Nat /\ (p_cur_msg.flags = 0 => len \in {1, 2})
      BY <3>1, MsgFields DEF MsgOK, len
    <3>3. TxStep => p_cur_msg.flags = 0 /\ (done = -1 \/ done = 0 \/ (done = 1 /\ len = 2))
      BY DEF TxStep
    <3>4. RxStep => done = -1 \/ done \in 0..len - 1
      BY DEF RxStep
    <3> QED BY <2>2, <3>1, <3>2, <3>3, <3>4
  <2>3. CASE Spinning
    BY <2>3 DEF Spinning
  <2> QED BY <2>1, <2>2, <2>3 DEF FlowOK, FlowInv
<1>3. FlowInv'
  BY <1>2 DEF FinishMessage, FlowOK, FlowInv, Quiet, Runaway, ForNothing, MessageOver, done, len,
              chipVars
<1> QED BY <1>1, <1>3 DEF FlowOK

(* Where the behaviour stops, nothing has changed.                         *)
LEMMA LostFlow ==
    ASSUME FlowOK, TooEarly
    PROVE  FlowOK'
<1>1. /\ pc' = "lost" /\ pc \in {"idle", "start"} /\ ~(bus = "off" /\ ~irq)
      /\ UNCHANGED <<call, msgs, p_cur_msg, ret, mode, irq, nack, ackOn, IICDS, bus, mem, ptr,
                     latched, busy>>
  BY DEF TooEarly, Rested, chipVars
<1>2. TypeInv'
  BY <1>1 DEF FlowOK, TypeInv
<1>3. Runaway /\ MessageOver /\ done \in -1..len
  BY <1>1 DEF FlowOK, FlowInv, Quiet
<1>4. FlowInv'
  BY <1>1, <1>3 DEF FlowInv, Runaway, ForNothing, MessageOver, done, len
<1> QED BY <1>2, <1>4 DEF FlowOK

(* The end of the write cycle concerns the chip alone.                     *)
LEMMA CycleFlow ==
    ASSUME FlowOK, WriteCycleEnds
    PROVE  FlowOK'
<1>1. TypeInv'
  BY DEF WriteCycleEnds, mainVars, FlowOK, TypeInv
<1>2. FlowInv'
  BY DEF WriteCycleEnds, mainVars, FlowOK, FlowInv, TxStep, RxStep, Quiet, Runaway, Spinning,
         ForNothing, MessageOver, MsgOK, done, buf, len
<1> QED BY <1>1, <1>2 DEF FlowOK

(* A byte on the bus, or an interrupt, belongs to a message that is not    *)
(* over, but for the byte a read of length zero did not ask for.           *)
LEMMA InProgress ==
    ASSUME FlowOK, bus # "off" \/ irq, ~Runaway
    PROVE  /\ pc = "wait" /\ p_cur_msg \in Msg /\ MsgOK(p_cur_msg) /\ p_cur_msg.err = 0
           /\ TxStep \/ RxStep
           /\ len \in Nat /\ done \in -1..len - 1 /\ done \in Int /\ ~MessageOver
           /\ cnt = done + 1
<1>1. pc = "wait" /\ MsgOK(p_cur_msg) /\ p_cur_msg.err = 0 /\ (TxStep \/ RxStep)
  BY DEF FlowOK, FlowInv, Quiet, Spinning
<1>2. p_cur_msg \in Msg /\ p_cur_msg.flags \in {0, 1} /\ len \in Nat
  BY <1>1, MsgFields DEF MsgOK, len
<1>3. p_cur_msg.flags = 0 => len \in {1, 2}
  BY <1>1 DEF MsgOK, len
<1>4. TxStep => p_cur_msg.flags = 0 /\ (done = -1 \/ done = 0 \/ (done = 1 /\ len = 2))
  BY DEF TxStep
<1>5. RxStep => done = -1 \/ done \in 0..len - 1
  BY DEF RxStep
<1>6. done \in -1..len - 1 /\ done \in Int
  BY <1>1, <1>2, <1>3, <1>4, <1>5
<1>7. ~MessageOver
  BY <1>1, <1>2, <1>6 DEF MessageOver, done, len
<1>8. cnt = done + 1
  BY DEF cnt, done
<1> QED BY <1>1, <1>2, <1>6, <1>7, <1>8

(* The byte nobody asked for: the loop of the read may end, or has ended.  *)
LEMMA InRunaway ==
    ASSUME FlowOK, Runaway
    PROVE  /\ len = 0 /\ p_cur_msg.flags = 1 /\ p_cur_msg.len = 0 /\ done = 0 /\ cnt = 1
           /\ p_cur_msg \in Msg /\ MessageOver /\ p_cur_msg.err = 0
           /\ pc = "wait" => MsgOK(p_cur_msg)
<1>1. p_cur_msg \in Msg
  BY DEF FlowOK, TypeInv
<1> QED BY <1>1 DEF FlowOK, FlowInv, Runaway, ForNothing, MessageOver, done, len, cnt

(* A byte on the bus raises the interrupt and leaves the main program      *)
(* alone.                                                                  *)
LEMMA BusFlow ==
    ASSUME FlowOK, BusByte
    PROVE  FlowOK'
<1>1. /\ ~irq /\ irq' = TRUE
      /\ UNCHANGED <<pc, call, msgs, ret, p_cur_msg, mode, ackOn, mem, busy>>
  BY DEF BusByte, mainVars
<1>2. bus # "off"
  BY DEF BusByte, SendAddress, SendWord, SendData, ReceiveData
<1>r. CASE Runaway
  <2>1. /\ bus = "read" /\ IICDS' = mem[ptr] /\ ptr' = (ptr + 1) % Size /\ nack' = FALSE
        /\ bus' = "read" /\ latched' = latched
    BY <1>r DEF Runaway, BusByte, SendAddress, SendWord, SendData, ReceiveData
  <2>2. ptr \in Byte /\ mem \in [Byte -> Byte] /\ ptr + 1 \in Nat
    BY SizeFacts DEF FlowOK, TypeInv
  <2>3. ptr' \in Byte /\ IICDS' \in Byte
    BY <2>1, <2>2, WrapType
  <2>4. TypeInv'
    BY <1>1, <2>1, <2>3 DEF FlowOK, TypeInv, BusStates
  <2>5. Runaway' /\ (pc = "wait" => MsgOK(p_cur_msg)')
    BY <1>1, <1>r, <2>1, InRunaway DEF Runaway, ForNothing, done, MsgOK
  <2>6. MessageOver' /\ done' \in -1..len'
    BY <1>1, <1>r, InRunaway DEF MessageOver, done, len
  <2>7. FlowInv'
    BY <1>1, <2>5, <2>6 DEF FlowOK, FlowInv
  <2> QED BY <2>4, <2>7 DEF FlowOK
<1> SUFFICES ASSUME ~Runaway
             PROVE  FlowOK'
  BY <1>r
<1>3. /\ pc = "wait" /\ p_cur_msg \in Msg /\ MsgOK(p_cur_msg) /\ p_cur_msg.err = 0
      /\ TxStep \/ RxStep
      /\ len \in Nat /\ done \in -1..len - 1 /\ ~MessageOver
  BY <1>2, InProgress
<1>4. UNCHANGED <<len, done, buf, MessageOver>> /\ MsgOK(p_cur_msg')
  BY <1>1, <1>3 DEF len, done, buf, MessageOver
<1>5. /\ ptr \in Byte /\ mem \in [Byte -> Byte] /\ latched \in Seq(Byte)
      /\ IICDS \in Byte \cup {Junk} /\ busy \in BOOLEAN /\ ackOn \in BOOLEAN
  BY DEF FlowOK, TypeInv
<1>6. SUFFICES /\ nack' \in BOOLEAN /\ IICDS' \in Byte \cup {Junk} /\ bus' \in BusStates
               /\ ptr' \in Byte /\ latched' \in Seq(Byte)
               /\ TxStep' \/ RxStep'
  <2> SUFFICES ASSUME nack' \in BOOLEAN, IICDS' \in Byte \cup {Junk}, bus' \in BusStates,
                      ptr' \in Byte, latched' \in Seq(Byte), TxStep' \/ RxStep'
               PROVE  FlowOK'
    OBVIOUS
  <2>1. TypeInv'
    BY <1>1 DEF FlowOK, TypeInv
  <2>2. pc' = "wait" /\ p_cur_msg'.err = 0 /\ ~MessageOver'
    BY <1>1, <1>3, <1>4
  <2>3. FlowInv'
    BY <1>4, <2>2 DEF FlowInv
  <2> QED BY <2>1, <2>3 DEF FlowOK
<1>7. CASE SendAddress
  <2>1. /\ done = -1 /\ bus = "start" /\ latched = <<>>
        /\ \/ p_cur_msg.flags = 0 /\ mode = "tx"
           \/ p_cur_msg.flags = 1 /\ mode = "rx"
    BY <1>1, <1>3, <1>7 DEF SendAddress, TxStep, RxStep
  <2>2. /\ nack' = busy /\ UNCHANGED <<IICDS, ptr, latched>>
        /\ bus' = IF nack' THEN "free" ELSE IF mode = "tx" THEN "word" ELSE "read"
    BY <1>7 DEF SendAddress
  <2> QED
    BY <1>1, <1>4, <1>5, <2>1, <2>2 DEF TxStep, RxStep, BusStates
<1>8. CASE SendWord
  <2>1. TxStep /\ done = 0 /\ IICDS = buf[1] /\ latched = <<>> /\ p_cur_msg.flags = 0 /\ mode = "tx"
    BY <1>1, <1>3, <1>8 DEF SendWord, TxStep, RxStep
  <2>2. buf \in Seq(Byte) /\ Len(buf) \in {1, 2}
    BY <1>3, <2>1 DEF MsgOK, buf
  <2>20. Len(buf) \in Nat /\ Len(buf) > 0
    BY <2>2
  <2>3. buf[1] \in Byte
    BY <2>2, <2>20
  <2>4. /\ ptr' = buf[1] /\ bus' = "data" /\ nack' = FALSE /\ UNCHANGED <<IICDS, latched>>
    BY <1>8, <2>1 DEF SendWord
  <2> QED
    BY <1>1, <1>4, <1>5, <2>1, <2>3, <2>4 DEF TxStep, BusStates
<1>9. CASE SendData
  <2>1. /\ done = 1 /\ len = 2 /\ ptr = buf[1] /\ IICDS = buf[2] /\ latched = <<>>
        /\ p_cur_msg.flags = 0 /\ mode = "tx" /\ bus = "data"
    BY <1>1, <1>3, <1>9 DEF SendData, TxStep, RxStep
  <2>2. buf \in Seq(Byte) /\ Len(buf) = 2
    BY <1>3, <2>1 DEF MsgOK, buf, len
  <2>20. 2 \in 1..Len(buf)
    BY <2>2
  <2>3. buf[2] \in Byte
    <3> HIDE DEF buf, Byte
    <3>1. PICK s \in Seq(Byte) : s = buf
      BY <2>2
    <3>2. s[2] \in Byte
      BY <2>20, <3>1
    <3> QED BY <3>1, <3>2
  <2>4. /\ latched' = Append(<<>>, buf[2]) /\ nack' = FALSE /\ UNCHANGED <<IICDS, ptr, bus>>
    BY <1>9, <2>1 DEF SendData
  <2>5. latched' = <<buf[2]>> /\ latched' \in Seq(Byte)
    BY <2>3, <2>4
  <2> QED
    BY <1>1, <1>4, <1>5, <2>1, <2>4, <2>5 DEF TxStep, BusStates
<1>10. CASE ReceiveData
  <2>1. /\ done \in 0..len - 1 /\ (ackOn <=> done # len - 1) /\ latched = <<>>
        /\ p_cur_msg.flags = 1 /\ mode = "rx"
    BY <1>1, <1>3, <1>10 DEF ReceiveData, TxStep, RxStep
  <2>2. /\ IICDS' = mem[ptr] /\ ptr' = (ptr + 1) % Size /\ nack' = ~ackOn
        /\ bus' = IF ackOn THEN "read" ELSE "free"
        /\ UNCHANGED latched
    BY <1>10 DEF ReceiveData
  <2>3. ptr' \in Byte /\ IICDS' \in Byte
    <3>1. ptr + 1 \in Nat
      BY <1>5, SizeFacts
    <3> QED BY <1>5, <2>2, <3>1, WrapType
  <2>4. bus' = IF done = len - 1 THEN "free" ELSE "read"
    BY <2>1, <2>2
  <2>5. RxStep'
    BY <1>1, <1>4, <2>1, <2>2, <2>4 DEF RxStep
  <2> QED
    BY <1>5, <2>2, <2>3, <2>4, <2>5 DEF BusStates
<1> QED BY <1>7, <1>8, <1>9, <1>10 DEF BusByte

(* A stop condition, with at most one byte to store.                       *)
LEMMA StopType ==
    ASSUME FlowOK, Stop
    PROVE  /\ bus' = "off" /\ latched' = <<>> /\ ptr' \in Byte /\ busy' \in BOOLEAN
           /\ bus' \in BusStates /\ latched' \in Seq(Byte)
           /\ mem' \in [Byte -> Byte]
<1>1. mem \in [Byte -> Byte] /\ ptr \in Byte /\ latched \in Seq(Byte)
  BY DEF FlowOK, TypeInv
<1>2. latched # <<>> => latched[1] \in Byte
  BY <1>1
<1>3. mem' \in [Byte -> Byte]
  BY <1>1, <1>2 DEF Stop
<1> QED BY <1>1, <1>3 DEF Stop, BusStates, FlowOK, TypeInv

(* The parts of the handler's step: the message goes on, or is over.       *)
LEMMA HandlerFlow ==
    ASSUME FlowOK, i2c_interrupt_func,
           p_cur_msg' \in Msg, MsgOK(p_cur_msg'), p_cur_msg'.len = len,
           IICDS' \in Byte \cup {Junk}, ackOn' \in BOOLEAN,
           \/ /\ UNCHANGED <<bus, chipVars>>
              /\ p_cur_msg'.err = 0
              /\ \/ (TxStep' \/ RxStep') /\ ~MessageOver'
                 \/ Runaway'
           \/ /\ Stop
              /\ \/ MessageOver' /\ p_cur_msg'.cnt \in -1..len
                 \/ p_cur_msg'.flags = 1 /\ len = 0 /\ p_cur_msg'.cnt = 1 /\ p_cur_msg'.err = 0
    PROVE  FlowOK'
<1>1. irq /\ irq' = FALSE /\ UNCHANGED <<pc, call, msgs, ret, mode, nack>>
  BY DEF i2c_interrupt_func, mainVars
<1>2. pc = "wait"
  BY DEF i2c_interrupt_func
<1>3. CASE /\ UNCHANGED <<bus, chipVars>>
           /\ p_cur_msg'.err = 0
           /\ \/ (TxStep' \/ RxStep') /\ ~MessageOver'
              \/ Runaway'
  <2>1. TypeInv'
    BY <1>1, <1>3 DEF FlowOK, TypeInv, chipVars
  <2>2. Runaway' => done' \in -1..len'
    BY DEF Runaway, ForNothing, done, len
  <2>3. FlowInv'
    BY <1>1, <1>2, <1>3, <2>2 DEF FlowInv
  <2> QED BY <2>1, <2>3 DEF FlowOK
<1>4. CASE /\ Stop
           /\ \/ MessageOver' /\ p_cur_msg'.cnt \in -1..len
              \/ p_cur_msg'.flags = 1 /\ len = 0 /\ p_cur_msg'.cnt = 1 /\ p_cur_msg'.err = 0
  <2>1. /\ bus' = "off" /\ latched' = <<>> /\ ptr' \in Byte /\ busy' \in BOOLEAN
        /\ bus' \in BusStates /\ latched' \in Seq(Byte) /\ mem' \in [Byte -> Byte]
    BY <1>4, StopType
  <2>2. TypeInv'
    BY <1>1, <2>1 DEF FlowOK, TypeInv
  <2>3. len' = len /\ Quiet'
    BY <1>1, <2>1 DEF len, Quiet
  <2>4. CASE MessageOver' /\ p_cur_msg'.cnt \in -1..len
    <3>1. done' \in -1..len'
      BY <2>3, <2>4 DEF done
    <3>2. FlowInv'
      BY <1>1, <1>2, <2>3, <2>4, <3>1 DEF FlowInv
    <3> QED BY <2>2, <3>2 DEF FlowOK
  <2>5. CASE p_cur_msg'.flags = 1 /\ len = 0 /\ p_cur_msg'.cnt = 1 /\ p_cur_msg'.err = 0
    <3>1. Spinning' /\ ~MessageOver'
      BY <2>3, <2>5 DEF Spinning, ForNothing, MessageOver, done, len
    <3>2. FlowInv'
      BY <1>1, <1>2, <3>1 DEF FlowInv
    <3> QED BY <2>2, <3>2 DEF FlowOK
  <2> QED BY <1>4, <2>4, <2>5
<1> QED BY <1>3, <1>4

(* Assigning the counter of a message (the handler).                       *)
LEMMA SetCnt ==
    ASSUME NEW m \in Msg, NEW k \in Int
    PROVE  LET n == [m EXCEPT !.cnt = k]
           IN  /\ n \in Msg /\ n.cnt = k /\ n.err = m.err
               /\ n.flags = m.flags /\ n.len = m.len /\ n.buf = m.buf
               /\ MsgOK(m) => MsgOK(n)
<1> DEFINE n == [m EXCEPT !.cnt = k]
<1>1. /\ n.cnt = k /\ n.err = m.err
      /\ n.flags = m.flags /\ n.len = m.len /\ n.buf = m.buf
  BY DEF Msg
<1>2. n \in Msg
  BY DEF Msg
<1> HIDE DEF n
<1>3. MsgOK(m) => MsgOK(n)
  BY <1>1, <1>2 DEF MsgOK
<1> QED BY <1>1, <1>2, <1>3 DEF n

(* The handler counts the byte and puts the next one, or a stop, on the    *)
(* bus.                                                                    *)
LEMMA InterruptFlow ==
    ASSUME FlowOK, i2c_interrupt_func
    PROVE  FlowOK'
<1>1. /\ irq /\ irq' = FALSE /\ UNCHANGED <<pc, call, msgs, ret, mode, nack>>
      /\ NoDevice \/ Transmit \/ ReceiveFirst \/ Receive
  BY DEF i2c_interrupt_func, mainVars
<1>r. CASE Runaway
  <2>1. /\ len = 0 /\ p_cur_msg.flags = 1 /\ p_cur_msg.len = 0 /\ cnt = 1
        /\ p_cur_msg \in Msg /\ p_cur_msg.err = 0
    BY <1>r, InRunaway
  <2>2. MsgOK(p_cur_msg) /\ 1 \in Int
    BY <1>r, InRunaway DEF i2c_interrupt_func
  <2>3. Receive
    BY <1>1, <2>1 DEF NoDevice, Transmit, ReceiveFirst
  <2>4. /\ p_cur_msg' = [p_cur_msg EXCEPT !.cnt = 1]
        /\ Stop /\ UNCHANGED <<ackOn, IICDS>>
    BY <2>1, <2>3 DEF Receive
  <2>5. /\ p_cur_msg' \in Msg /\ MsgOK(p_cur_msg') /\ p_cur_msg'.len = p_cur_msg.len
        /\ p_cur_msg'.cnt = 1 /\ p_cur_msg'.err = p_cur_msg.err
        /\ p_cur_msg'.flags = p_cur_msg.flags
    BY <2>1, <2>2, <2>4, SetCnt, Zenon
  <2>6. IICDS' \in Byte \cup {Junk} /\ ackOn' \in BOOLEAN
    BY <2>4 DEF FlowOK, TypeInv
  <2> QED BY <2>1, <2>4, <2>5, <2>6, HandlerFlow
<1> SUFFICES ASSUME ~Runaway
             PROVE  FlowOK'
  BY <1>r
<1>2. /\ p_cur_msg \in Msg /\ MsgOK(p_cur_msg) /\ p_cur_msg.err = 0
      /\ TxStep \/ RxStep
      /\ len \in Nat /\ done \in -1..len - 1 /\ done \in Int
      /\ cnt = done + 1
  BY <1>1, InProgress
<1>3. /\ IICDS \in Byte \cup {Junk} /\ ackOn \in BOOLEAN
  BY DEF FlowOK, TypeInv
<1>4. cnt \in Int /\ p_cur_msg.len = len /\ p_cur_msg.buf = buf
  BY <1>2 DEF len, buf
<1>5. CASE NoDevice
  <2>1. /\ p_cur_msg' = [p_cur_msg EXCEPT !.cnt = cnt, !.err = -1] /\ Stop
        /\ UNCHANGED <<IICDS, ackOn>> /\ cnt = 0
    BY <1>5 DEF NoDevice
  <2>2. -1 \in {0, -1}
    OBVIOUS
  <2>3. /\ p_cur_msg' \in Msg /\ MsgOK(p_cur_msg') /\ p_cur_msg'.len = len
        /\ p_cur_msg'.cnt = cnt /\ p_cur_msg'.err = -1
    BY <1>2, <1>4, <2>1, <2>2, SetMsg, Zenon
  <2>4. MessageOver' /\ p_cur_msg'.cnt \in -1..len
    BY <1>2, <2>1, <2>3 DEF MessageOver
  <2> QED BY <1>3, <2>1, <2>3, <2>4, HandlerFlow
<1>6. ASSUME p_cur_msg' = [p_cur_msg EXCEPT !.cnt = cnt]
      PROVE  /\ p_cur_msg' \in Msg /\ MsgOK(p_cur_msg') /\ p_cur_msg'.len = len
             /\ p_cur_msg'.cnt = cnt /\ p_cur_msg'.err = 0 /\ p_cur_msg'.flags = p_cur_msg.flags
             /\ len' = len /\ done' = cnt /\ buf' = buf
             /\ cnt = len => MessageOver'
             /\ cnt < len => ~MessageOver'
  <2>1. /\ p_cur_msg' \in Msg /\ MsgOK(p_cur_msg') /\ p_cur_msg'.len = len
        /\ p_cur_msg'.cnt = cnt /\ p_cur_msg'.err = 0 /\ p_cur_msg'.flags = p_cur_msg.flags
        /\ p_cur_msg'.buf = buf
    BY <1>2, <1>4, <1>6, SetCnt, Zenon
  <2> QED BY <1>2, <1>4, <2>1 DEF MessageOver, len, done, buf
<1>7. CASE Transmit
  <2>1. /\ p_cur_msg.flags = 0 /\ (cnt = 0 => ~nack)
        /\ p_cur_msg' = [p_cur_msg EXCEPT !.cnt = cnt] /\ UNCHANGED ackOn
    BY <1>7 DEF Transmit
  <2>2. /\ mode = "tx"
        /\ \/ done = -1 /\ bus = "word" /\ latched = <<>>
           \/ done = 0 /\ bus = "data" /\ ptr = buf[1] /\ latched = <<>>
           \/ done = 1 /\ len = 2
    BY <1>1, <1>2, <2>1 DEF TxStep, RxStep
  <2>3. CASE cnt < len
    <3>1. IICDS' = buf[cnt + 1] /\ UNCHANGED <<bus, chipVars>>
      BY <1>2, <1>4, <1>7, <2>3 DEF Transmit, buf
    <3>2. buf \in Seq(Byte \cup {Junk}) /\ Len(buf) = len
      BY <1>2, <1>4, MsgFields DEF MsgOK
    <3>3. IICDS' \in Byte \cup {Junk}
      BY <1>2, <2>3, <3>1, <3>2
    <3>4. len = 1 \/ len = 2
      BY <1>2, <1>4, <2>1 DEF MsgOK
    <3>5. TxStep'
      BY <1>1, <1>2, <1>6, <2>1, <2>2, <2>3, <3>1, <3>4 DEF TxStep, chipVars
    <3> QED BY <1>3, <1>6, <2>1, <2>3, <3>1, <3>3, <3>5, HandlerFlow
  <2>4. CASE cnt >= len
    <3>1. Stop /\ UNCHANGED IICDS
      BY <1>2, <1>7, <2>4 DEF Transmit
    <3>2. cnt = len
      BY <1>2, <2>4
    <3>3. MessageOver' /\ p_cur_msg'.cnt \in -1..len
      BY <1>2, <1>6, <2>1, <3>2
    <3> QED BY <1>3, <1>6, <2>1, <3>1, <3>3, HandlerFlow
  <2> QED BY <1>2, <2>3, <2>4
<1>8. CASE ReceiveFirst
  <2>1. /\ p_cur_msg.flags = 1 /\ cnt = 0 /\ ~nack
        /\ p_cur_msg' = [p_cur_msg EXCEPT !.cnt = cnt]
        /\ ackOn' = ~(cnt = len - 1) /\ UNCHANGED <<IICDS, bus, chipVars>>
    BY <1>8 DEF ReceiveFirst, isLastData
  <2>2. done = -1 /\ bus = "read" /\ latched = <<>> /\ mode = "rx"
    BY <1>1, <1>2, <2>1 DEF RxStep, TxStep
  <2>3. p_cur_msg'.flags = 1 /\ p_cur_msg'.len = len /\ len' = len /\ done' = 0
    BY <1>6, <2>1
  <2>4. bus' = "read" /\ latched' = <<>> /\ mode' = "rx" /\ ~irq'
    BY <1>1, <2>1, <2>2 DEF chipVars
  <2>5. CASE len > 0
    <3>1. ackOn' <=> done' # len' - 1
      BY <2>1, <2>3
    <3>2. 0 \in 0..len - 1
      BY <1>2, <2>5
    <3>3. RxStep'
      BY <2>3, <2>4, <3>1, <3>2 DEF RxStep
    <3> QED BY <1>2, <1>3, <1>6, <2>1, <2>5, <3>3, HandlerFlow
  <2>6. CASE len = 0
    <3>0. ~(cnt = len - 1)
      BY <2>1, <2>6
    <3>1. ackOn' = TRUE
      BY <2>1, <3>0, Zenon
    <3>2. p_cur_msg'.err = 0
      BY <1>6, <2>1
    <3>3. Runaway'
      BY <2>3, <2>4, <2>6, <3>1, <3>2 DEF Runaway, ForNothing
    <3> QED BY <1>3, <1>6, <2>1, <3>2, <3>3, HandlerFlow
  <2> QED BY <1>2, <2>5, <2>6
<1>9. CASE Receive
  <2>1. p_cur_msg.flags = 1 /\ cnt > 0 /\ UNCHANGED IICDS
    BY <1>9 DEF Receive
  <2>2. /\ done \in 0..len - 1 /\ latched = <<>> /\ mode = "rx"
        /\ bus = IF done = len - 1 THEN "free" ELSE "read"
    BY <1>1, <1>2, <2>1 DEF RxStep, TxStep
  <2>3. CASE cnt < len
    <3>1. /\ p_cur_msg' = [p_cur_msg EXCEPT !.cnt = cnt, !.buf[cnt] = IICDS]
          /\ ackOn' = ~(cnt = len - 1) /\ UNCHANGED <<bus, chipVars>>
      BY <1>2, <1>9, <2>3 DEF Receive, isLastData
    <3>2. cnt \in 1..p_cur_msg.len
      BY <1>2, <1>4, <2>1, <2>3
    <3>3. /\ p_cur_msg' \in Msg /\ MsgOK(p_cur_msg') /\ p_cur_msg'.len = len
          /\ p_cur_msg'.cnt = cnt /\ p_cur_msg'.err = 0 /\ p_cur_msg'.flags = 1
      <4> DEFINE c == [buf EXCEPT ![cnt] = IICDS]
      <4>1. buf \in Seq(Byte \cup {Junk}) /\ Len(buf) = len
        BY <1>2, <1>4, MsgFields DEF MsgOK
      <4>2. c \in Seq(Byte \cup {Junk}) /\ Len(c) = len
        BY <1>2, <1>3, <1>4, <3>2, <4>1
      <4>3. /\ p_cur_msg'.cnt = cnt /\ p_cur_msg'.err = p_cur_msg.err /\ p_cur_msg'.len = p_cur_msg.len
            /\ p_cur_msg'.flags = p_cur_msg.flags /\ p_cur_msg'.buf = c
        BY <1>2, <3>1 DEF Msg, buf
      <4>4. p_cur_msg' = [flags |-> p_cur_msg.flags, len |-> p_cur_msg.len, cnt |-> cnt,
                          err |-> p_cur_msg.err, buf |-> c]
        BY <1>2, <3>1 DEF Msg, buf
      <4> HIDE DEF c
      <4>5. p_cur_msg' \in Msg
        BY <1>2, <1>4, <4>2, <4>4, MsgFields DEF Msg
      <4>6. MsgOK(p_cur_msg')
        BY <1>2, <1>4, <2>1, <4>2, <4>3, <4>5 DEF MsgOK
      <4> QED BY <1>2, <1>4, <2>1, <4>3, <4>5, <4>6
    <3>4. len' = len /\ done' = cnt /\ ~MessageOver'
      BY <1>2, <2>3, <3>3 DEF len, done, MessageOver
    <3>5. bus = "read"
      BY <1>2, <2>2, <2>3
    <3>6. RxStep'
      <4>1. done' \in 0..len' - 1
        BY <1>2, <2>1, <2>3, <3>4
      <4>2. bus' = "read" /\ latched' = <<>> /\ mode' = "rx" /\ ~irq'
        BY <1>1, <2>2, <3>1, <3>5 DEF chipVars
      <4>3. ackOn' <=> done' # len' - 1
        BY <3>1, <3>4
      <4> QED BY <3>3, <4>1, <4>2, <4>3 DEF RxStep
    <3> QED BY <1>3, <2>1, <3>1, <3>3, <3>4, <3>6, HandlerFlow
  <2>4. CASE cnt >= len
    <3>1. /\ p_cur_msg' = [p_cur_msg EXCEPT !.cnt = cnt]
          /\ Stop /\ UNCHANGED ackOn
      BY <1>2, <1>9, <2>4 DEF Receive
    <3>2. cnt = len
      BY <1>2, <2>2, <2>4
    <3>3. MessageOver' /\ p_cur_msg'.cnt \in -1..len
      BY <1>2, <1>6, <3>1, <3>2
    <3> QED BY <1>3, <1>6, <2>1, <3>1, <3>3, HandlerFlow
  <2> QED BY <1>2, <2>3, <2>4
<1> QED BY <1>1, <1>5, <1>7, <1>8, <1>9

(* The invariant of the transfer holds at the start.                       *)
LEMMA FlowInit == Init => FlowOK
<1> SUFFICES ASSUME Init PROVE FlowOK
  OBVIOUS
<1> USE SizeFacts
<1>1. p_cur_msg \in Msg
  BY DEF Init, Msg
<1>2. call \in Calls
  <2>1. 0 \in Addresses /\ [a \in Byte |-> 0] \in [Byte -> Byte]
    BY DEF Addresses
  <2> QED BY <2>1 DEF Init, NoCall, Calls
<1>3. TypeInv
  BY <1>1, <1>2 DEF Init, TypeInv, BusStates
<1>4. FlowInv
  BY DEF Init, FlowInv, Quiet, Runaway, MessageOver, done, len
<1> QED BY <1>3, <1>4 DEF FlowOK

(* Every step keeps the invariant of the transfer.                         *)
LEMMA FlowStep ==
    ASSUME FlowOK, [Next]_vars
    PROVE  FlowOK'
<1>1. ASSUME NEW addr \in Addresses, NEW data \in Data, at24cxx_write(addr, data)
      PROVE  FlowOK'
  BY <1>1, WriteFlow
<1>2. ASSUME NEW addr \in Addresses, NEW n \in Lens, at24cxx_read(addr, n)
      PROVE  FlowOK'
  <2>1. n \in Nat
    BY I2cAssumption
  <2> QED BY <1>2, <2>1, ReadFlow
<1>3. CASE UNCHANGED vars
  <2>1. TypeInv'
    BY <1>3 DEF vars, FlowOK, TypeInv
  <2>2. FlowInv'
    BY <1>3 DEF vars, FlowOK, FlowInv, TxStep, RxStep, Quiet, Runaway, Spinning, ForNothing,
                 MessageOver, MsgOK, done, buf, len
  <2> QED BY <2>1, <2>2 DEF FlowOK
<1> QED
  BY <1>1, <1>2, <1>3, StartFlow, FinishFlow, LostFlow, BusFlow, CycleFlow, InterruptFlow
     DEF Next

(* How main, the handler, the bus and the chip stand to each other within  *)
(* a message.                                                              *)
THEOREM FlowInvariant == Spec => []FlowOK
  BY FlowInit, FlowStep, PTL DEF Spec

(* Every variable has its type; the handler never counts past the end of   *)
(* a message, and the EEPROM never has more than one byte to store.        *)
THEOREM TypeCorrect == Spec => []TypeOK
<1>1. FlowOK => TypeOK
  <2> SUFFICES ASSUME FlowOK PROVE TypeOK
    OBVIOUS
  <2>1. Len(latched) <= 1
    <3>1. CASE Quiet
      BY <3>1 DEF Quiet
    <3>4. CASE Runaway \/ Spinning
      BY <3>4 DEF Runaway, Spinning, Quiet
    <3>2. CASE TxStep \/ RxStep
      <4>1. latched = <<>> \/ latched = <<buf[2]>>
        BY <3>2 DEF TxStep, RxStep
      <4>2. CASE latched = <<>>
        BY <4>2
      <4>3. CASE latched = <<buf[2]>>
        <5>1. \A x : Len(<<x>>) = 1
          OBVIOUS
        <5>2. Len(latched) = 1
          BY <4>3, <5>1
        <5> QED BY <5>2
      <4> QED BY <4>1, <4>2, <4>3
    <3> QED BY <3>1, <3>2, <3>4 DEF FlowOK, FlowInv, TypeInv
  <2>2. p_cur_msg.cnt \in -1..(IF ForNothing THEN 1 ELSE len)
    <3>0. ForNothing => len = 0
      BY DEF ForNothing, len
    <3>1. CASE MessageOver
      BY <3>0, <3>1 DEF FlowOK, FlowInv, done
    <3>2. CASE ~MessageOver /\ (bus # "off" \/ irq)
      <4>1. ~Runaway
        BY <3>2, InRunaway
      <4>2. len \in Nat /\ done \in -1..len - 1
        BY <3>2, <4>1, InProgress
      <4> QED BY <3>0, <4>2 DEF done
    <3>3. CASE ~MessageOver /\ ~(bus # "off" \/ irq)
      <4>1. Spinning
        BY <3>3 DEF FlowOK, FlowInv, TxStep, RxStep, Runaway
      <4> QED BY <4>1 DEF Spinning, done
    <3> QED BY <3>1, <3>2, <3>3
  <2>3. p_cur_msg.buf \in Seq(Byte \cup {Junk})
    BY MsgFields DEF FlowOK, TypeInv
  <2> QED BY <2>1, <2>2, <2>3 DEF FlowOK, TypeInv, TypeOK
<1> QED BY <1>1, FlowInvariant, PTL

(* When main goes on after a message, also after one that failed, the bus  *)
(* is free and no interrupt is left that could use p_cur_msg; a read of    *)
(* length zero is the only message of which this is not so.                *)
THEOREM MainWaitsForInterrupts == Spec => []WaitsForInterrupts
<1>1. FlowOK => WaitsForInterrupts
  BY DEF FlowOK, FlowInv, Quiet, Runaway, Rested, WaitsForInterrupts
<1> QED BY <1>1, FlowInvariant, PTL

(* A read never ends on the bus with a byte that the master has            *)
(* acknowledged, unless its length is zero.                                *)
THEOREM ReadEndsWithNack == Spec => StopsAfterNack
<1>1. ASSUME FlowOK, [Next]_vars, bus = "read", ~ForNothing
      PROVE  bus' # "off"
  <2>0. ~Runaway
    BY <1>1 DEF Runaway
  <2>1. CASE i2c_interrupt_func
    <3>1. /\ irq /\ (NoDevice \/ Transmit \/ ReceiveFirst \/ Receive)
      BY <2>1 DEF i2c_interrupt_func
    <3>2. /\ RxStep /\ p_cur_msg.flags = 1 /\ cnt = done + 1 /\ done \in Int /\ len \in Nat
          /\ \/ done = -1 /\ ~nack
             \/ done \in 0..len - 1 /\ done # len - 1
      BY <1>1, <2>0, <3>1, InProgress DEF TxStep, RxStep
    <3>3. ~NoDevice /\ ~Transmit
      BY <3>2 DEF NoDevice, Transmit
    <3>4. ReceiveFirst => bus' = bus
      BY DEF ReceiveFirst
    <3>5. Receive => bus' = bus
      BY <3>2 DEF Receive
    <3> QED BY <1>1, <3>1, <3>3, <3>4, <3>5
  <2>2. CASE BusByte
    BY <1>1, <2>2 DEF BusByte, SendAddress, SendWord, SendData, ReceiveData
  <2>3. CASE StartMessage \/ FinishMessage \/ TooEarly \/ WriteCycleEnds \/ UNCHANGED vars
    BY <1>1, <2>3 DEF StartMessage, FinishMessage, TooEarly, WriteCycleEnds, vars
  <2>4. ASSUME NEW addr \in Addresses, NEW data \in Data, at24cxx_write(addr, data)
        PROVE  bus' # "off"
    BY <1>1, <2>4 DEF at24cxx_write
  <2>5. ASSUME NEW addr \in Addresses, NEW n \in Lens, at24cxx_read(addr, n)
        PROVE  bus' # "off"
    BY <1>1, <2>5 DEF at24cxx_read
  <2> QED BY <1>1, <2>1, <2>2, <2>3, <2>4, <2>5 DEF Next
<1>2. FlowOK /\ [Next]_vars => [bus = "read" /\ ~ForNothing => bus' # "off"]_vars
  BY <1>1
<1> QED BY <1>2, FlowInvariant, PTL DEF Spec, StopsAfterNack

-------------------------------------------------------------------------------
(* What a call has done after the messages it has finished.                *)
over == MessageOver /\ p_cur_msg.err = 0
started == call.len - Len(msgs)

WriteInv ==
    call.op = "write" =>
        /\ call.len = Len(call.data)
        /\ started \in Nat
        /\ pc # "idle" =>
               \A i \in 1..Len(msgs) :
                   msgs[i] = Message(0, <<Address(call, started + i - 1), call.data[started + i]>>)
        /\ pc = "start" => mem = Stored(call, started)
        /\ pc = "wait" =>
               /\ started > 0
               /\ p_cur_msg.flags = 0
               /\ buf = <<Address(call, started - 1), call.data[started]>>
               /\ mem = Stored(call, IF over THEN started ELSE started - 1)

(* The second message of a read, and how far it has come.                  *)
Received(n) == \A i \in 1..n : buf[i] = mem[Address(call, i - 1)]

Receiving ==
    /\ done = -1 => ptr = Address(call, 0)
    /\ done \in 0..len - 1 /\ ~MessageOver =>
           /\ irq => IICDS = mem[Address(call, done)] /\ ptr = Address(call, done + 1)
           /\ ~irq => ptr = Address(call, done)
           /\ Received(done)
    /\ over => Received(done - 1)

ReadInv ==
    call.op = "read" =>
        /\ mem = call.mem
        /\ pc = "start" => \/ msgs = ReadMsgs(call.addr, call.len)
                           \/ /\ msgs = Tail(ReadMsgs(call.addr, call.len))
                              /\ ptr = Address(call, 0) /\ p_cur_msg.flags = 0
        /\ pc = "wait" =>
               \/ /\ msgs = Tail(ReadMsgs(call.addr, call.len))
                  /\ p_cur_msg.flags = 0 /\ buf = <<Address(call, 0)>>
                  /\ over => ptr = Address(call, 0)
               \/ /\ msgs = <<>>
                  /\ p_cur_msg.flags = 1 /\ len = call.len
                  /\ Receiving

CallInv == /\ pc \in {"start", "wait"} => call.op # "none"
           /\ WriteInv /\ ReadInv
           /\ WriteOutcome /\ ReadOutcome

(* The word address of the chip goes around as that of the call does.      *)
LEMMA ModUnique ==
    ASSUME NEW a \in Int, NEW n \in Nat \ {0}, NEW q \in Int, NEW r \in 0..n - 1, a = n * q + r
    PROVE  a % n = r
  OBVIOUS

(* Counting on from a remainder is counting on and taking the remainder.   *)
LEMMA ModSucc ==
    ASSUME NEW a \in Nat, NEW n \in Nat \ {0}
    PROVE  ((a % n) + 1) % n = (a + 1) % n
<1> DEFINE q == a \div n
           r == a % n
<1>1. a = n * q + r /\ q \in Int /\ r \in 0..n - 1 /\ r \in Int /\ n \in Int /\ a + 1 \in Int
  OBVIOUS
<1> HIDE DEF q, r
<1>2. CASE r + 1 < n
  <2>1. a + 1 = n * q + (r + 1) /\ r + 1 \in 0..n - 1
    BY <1>1, <1>2
  <2>2. (a + 1) % n = r + 1
    BY <1>1, <2>1, ModUnique
  <2>3. (r + 1) % n = r + 1
    BY <1>1, <1>2
  <2> QED BY <2>2, <2>3 DEF r
<1>3. CASE r + 1 = n
  <2>1. a + 1 = n * (q + 1)
    BY <1>1, <1>3
  <2>2. a + 1 = n * (q + 1) + 0 /\ q + 1 \in Int /\ 0 \in 0..n - 1
    BY <1>1, <2>1
  <2>3. (a + 1) % n = 0
    BY <1>1, <2>2, ModUnique
  <2>4. (r + 1) % n = 0
    BY <1>1, <1>3
  <2> QED BY <2>3, <2>4 DEF r
<1> QED BY <1>1, <1>2, <1>3

(* The address of the next byte of a call follows that of the byte before  *)
(* it.                                                                     *)
LEMMA AddressStep ==
    ASSUME NEW c \in Calls, NEW k \in Nat
    PROVE  /\ Address(c, k) \in Byte
           /\ (Address(c, k) + 1) % Size = Address(c, k + 1)
           /\ Address(c, 0) = c.addr % Size
<1>1. c.addr \in Nat /\ Size \in Nat \ {0}
  <2>1. c.addr \in Addresses
    BY DEF Calls
  <2> QED BY <2>1, I2cAssumption DEF Addresses
<1>2. c.addr + k \in Nat /\ c.addr + 0 = c.addr /\ c.addr + (k + 1) = (c.addr + k) + 1
  BY <1>1
<1>3. (((c.addr + k) % Size) + 1) % Size = ((c.addr + k) + 1) % Size
  BY <1>1, <1>2, ModSucc
<1> QED BY <1>1, <1>2, <1>3, WrapType DEF Address

(* Storing one byte more.                                                  *)
LEMMA MaxIs ==
    ASSUME NEW S \in SUBSET Int, NEW x \in S, \A y \in S : y <= x
    PROVE  Max(S) = x
<1>1. Max(S) = CHOOSE m \in S : \A y \in S : m >= y
  BY DEF Max
<1>2. \E m \in S : \A y \in S : m >= y
  OBVIOUS
<1>3. Max(S) \in S /\ \A y \in S : Max(S) >= y
  BY <1>1, <1>2
<1>4. Max(S) \in Int /\ x \in Int /\ Max(S) >= x /\ Max(S) <= x
  BY <1>3
<1> QED BY <1>4

(* Before the first byte is stored the chip is as it was.                  *)
LEMMA StoredNone ==
    ASSUME NEW c \in Calls
    PROVE  Stored(c, 0) = c.mem
<1>1. c.mem \in [Byte -> Byte]
  BY DEF Calls
<1>2. \A a \in Byte : {i \in 1..0 : Address(c, i - 1) = a} = {}
  OBVIOUS
<1> QED BY <1>1, <1>2 DEF Stored

(* Storing one more byte changes the cell it is for and no other.          *)
LEMMA StoredStep ==
    ASSUME NEW c \in Calls, NEW k \in Nat, k > 0
    PROVE  Stored(c, k) = [Stored(c, k - 1) EXCEPT ![Address(c, k - 1)] = c.data[k]]
<1> DEFINE W(n, a) == {i \in 1..n : Address(c, i - 1) = a}
           V(n, a) == IF W(n, a) = {} THEN c.mem[a] ELSE c.data[Max(W(n, a))]
<1>1. \A n : Stored(c, n) = [a \in Byte |-> V(n, a)]
  BY DEF Stored
<1>2. ASSUME NEW a \in Byte, a # Address(c, k - 1)
      PROVE  V(k, a) = V(k - 1, a)
  <2>1. W(k, a) = W(k - 1, a)
    BY <1>2
  <2> QED BY <2>1
<1>3. V(k, Address(c, k - 1)) = c.data[k]
  <2>1. k \in W(k, Address(c, k - 1)) /\ W(k, Address(c, k - 1)) \in SUBSET Int
    OBVIOUS
  <2>2. \A y \in W(k, Address(c, k - 1)) : y <= k
    OBVIOUS
  <2>3. Max(W(k, Address(c, k - 1))) = k
    <3> HIDE DEF W
    <3> QED BY <2>1, <2>2, MaxIs
  <2> QED BY <2>1, <2>3
<1> HIDE DEF V
<1>4. \A a \in Byte : Stored(c, k)[a] = IF a = Address(c, k - 1) THEN c.data[k] ELSE Stored(c, k - 1)[a]
  BY <1>1, <1>2, <1>3
<1>5. Stored(c, k) = [a \in Byte |-> Stored(c, k)[a]] /\ DOMAIN Stored(c, k - 1) = Byte
  BY <1>1
<1> QED BY <1>4, <1>5

-------------------------------------------------------------------------------
(* One lemma for each part of Next, again.                                 *)
LEMMA WriteCall ==
    ASSUME FlowOK, CallInv, NEW addr \in Addresses, NEW data \in Data, at24cxx_write(addr, data)
    PROVE  CallInv'
<1>1. /\ pc' = "start" /\ msgs' = WriteMsgs(addr, data) /\ mem' = mem
      /\ call' = [op |-> "write", addr |-> addr, data |-> data, len |-> Len(data), mem |-> mem]
  BY DEF at24cxx_write, chipVars
<1>2. /\ call'.op = "write" /\ call'.addr = addr /\ call'.data = data /\ call'.len = Len(data)
      /\ call'.mem = mem
  BY <1>1
<1>3. call' \in Calls
  BY WriteFlow DEF FlowOK, TypeInv
<1>4. /\ Len(msgs') = Len(data) /\ Len(data) \in Nat /\ started' = 0
      /\ \A i \in 1..Len(data) : msgs'[i] = Message(0, <<(addr + i - 1) % Size, data[i]>>)
  BY <1>1, <1>2, WriteMsgsType DEF started
<1>5. ASSUME NEW i \in 1..Len(msgs')
      PROVE  msgs'[i] = Message(0, <<Address(call', 0 + i - 1), call'.data[0 + i]>>)
  <2>1. 0 + i - 1 = i - 1 /\ 0 + i = i /\ addr + (i - 1) = addr + i - 1
    BY <1>4, SizeFacts
  <2> QED BY <1>2, <1>4, <2>1 DEF Address
<1>6. mem' = Stored(call', 0)
  BY <1>1, <1>2, <1>3, StoredNone
<1>7. WriteInv'
  BY <1>1, <1>2, <1>4, <1>5, <1>6 DEF WriteInv
<1>8. WriteOutcome'
  BY <1>1, <1>2, <1>4, <1>6 DEF WriteOutcome
<1> QED BY <1>1, <1>2, <1>7, <1>8 DEF CallInv, ReadInv, ReadOutcome

(* A call of at24cxx_read has received nothing yet.                        *)
LEMMA ReadCall ==
    ASSUME FlowOK, CallInv, NEW addr \in Addresses, NEW n \in Nat, at24cxx_read(addr, n)
    PROVE  CallInv'
<1>1. /\ pc' = "start" /\ msgs' = ReadMsgs(addr, n) /\ mem' = mem
      /\ call' = [op |-> "read", addr |-> addr, data |-> <<>>, len |-> n, mem |-> mem]
  BY DEF at24cxx_read, chipVars
<1>2. call'.op = "read" /\ call'.addr = addr /\ call'.len = n /\ call'.mem = mem
  BY <1>1
<1>3. ReadInv'
  BY <1>1, <1>2 DEF ReadInv
<1> QED BY <1>1, <1>2, <1>3 DEF CallInv, WriteInv, WriteOutcome, ReadOutcome

(* Starting a message of a write stores nothing, and of a read receives    *)
(* nothing.                                                                *)
LEMMA StartCall ==
    ASSUME FlowOK, CallInv, StartMessage
    PROVE  CallInv'
<1>1. /\ FlowOK' /\ MsgOK(Head(msgs)) /\ msgs # <<>> /\ ~MessageOver'
      /\ p_cur_msg' = [Head(msgs) EXCEPT !.cnt = -1, !.err = 0]
  BY StartFlow
<1>2. /\ pc = "start" /\ pc' = "wait" /\ msgs' = Tail(msgs)
      /\ UNCHANGED <<call, ret, irq, mem, ptr>>
  BY DEF StartMessage, chipVars
<1>3. msgs \in Seq(Msg) /\ Head(msgs) \in Msg /\ call \in Calls
  BY <1>1 DEF FlowOK, TypeInv
<1>4. /\ p_cur_msg'.flags = Head(msgs).flags /\ p_cur_msg'.len = Head(msgs).len
      /\ p_cur_msg'.buf = Head(msgs).buf /\ p_cur_msg'.cnt = -1
  BY <1>1, <1>3 DEF Msg
<1>5. /\ Len(msgs) \in Nat /\ Len(msgs) > 0 /\ Len(msgs') = Len(msgs) - 1
      /\ Head(msgs) = msgs[1] /\ \A i \in 1..Len(msgs') : msgs'[i] = msgs[i + 1]
  BY <1>1, <1>2, <1>3
<1>6. call.len \in Nat
  BY <1>3 DEF Calls
<1>7. CASE call.op = "write"
  <2>1. /\ call.len = Len(call.data) /\ started \in Nat /\ mem = Stored(call, started)
        /\ \A i \in 1..Len(msgs) :
               msgs[i] = Message(0, <<Address(call, started + i - 1), call.data[started + i]>>)
    BY <1>2, <1>7 DEF CallInv, WriteInv
  <2>2. started' = started + 1
    BY <1>2, <1>5, <1>6 DEF started
  <2>3. msgs[1] = Message(0, <<Address(call, started), call.data[started + 1]>>)
    <3>1. 1 \in 1..Len(msgs) /\ started + 1 - 1 = started
      BY <1>5, <2>1
    <3> QED BY <2>1, <3>1
  <2>4. p_cur_msg'.flags = 0 /\ buf' = <<Address(call, started), call.data[started + 1]>>
    BY <1>4, <1>5, <2>3 DEF buf, Message
  <2>5. ASSUME NEW i \in 1..Len(msgs')
        PROVE  msgs'[i] = Message(0, <<Address(call', started' + i - 1), call'.data[started' + i]>>)
    <3>1. /\ i + 1 \in 1..Len(msgs) /\ started + (i + 1) - 1 = started' + i - 1
          /\ started + (i + 1) = started' + i
      BY <1>5, <2>1, <2>2
    <3>2. msgs'[i] = msgs[i + 1]
      BY <1>5
    <3> QED BY <1>2, <2>1, <3>1, <3>2
  <2>6. ~over' /\ started' - 1 = started /\ started' > 0 /\ started' \in Nat
    BY <1>1, <2>1, <2>2 DEF over
  <2>7. WriteInv'
    BY <1>2, <2>1, <2>2, <2>4, <2>5, <2>6 DEF WriteInv
  <2>8. WriteOutcome'
    <3>1. started \in 0..call.len
      BY <1>5, <1>6, <2>1 DEF started
    <3> QED BY <1>2, <1>7, <2>1, <3>1 DEF WriteOutcome
  <2> QED BY <1>2, <1>7, <2>7, <2>8 DEF CallInv, ReadInv, ReadOutcome
<1>8. CASE call.op = "read"
  <2> DEFINE m == ReadMsgs(call.addr, call.len)
  <2>1. /\ mem = call.mem
        /\ \/ msgs = m
           \/ msgs = Tail(m) /\ ptr = Address(call, 0)
    BY <1>2, <1>8 DEF CallInv, ReadInv
  <2>2. call.addr \in Addresses
    BY <1>3 DEF Calls
  <2>3. /\ m \in Seq(Msg) /\ Len(m) = 2 /\ Tail(m) = <<m[2]>>
        /\ m[1].flags = 0 /\ m[1].buf = <<call.addr % Size>>
        /\ m[2].flags = 1 /\ m[2].len = call.len
    BY <1>6, <2>2, ReadMsgsType
  <2> HIDE DEF m
  <2>4. Address(call, 0) = call.addr % Size
    BY <1>3, AddressStep
  <2>5. ~over'
    BY <1>1 DEF over
  <2>6. CASE msgs = m
    <3>1. msgs' = Tail(m) /\ p_cur_msg'.flags = 0 /\ buf' = <<Address(call, 0)>>
      BY <1>2, <1>4, <1>5, <2>3, <2>4, <2>6 DEF buf
    <3>2. ReadInv'
      BY <1>2, <2>1, <2>5, <3>1 DEF ReadInv, m
    <3> QED BY <1>2, <1>8, <2>1, <3>2 DEF CallInv, WriteInv, WriteOutcome, ReadOutcome
  <2>7. CASE msgs = Tail(m) /\ ptr = Address(call, 0)
    <3>1. msgs = <<m[2]>>
      BY <2>3, <2>7
    <3>2. msgs' = <<>> /\ msgs[1] = m[2]
      BY <1>2, <3>1
    <3>3. p_cur_msg'.flags = 1 /\ len' = call.len /\ done' = -1
      BY <1>4, <1>5, <2>3, <3>2 DEF len, done
    <3>4. Receiving'
      BY <1>2, <2>5, <2>7, <3>3 DEF Receiving
    <3>5. ReadInv'
      BY <1>2, <2>1, <3>2, <3>3, <3>4 DEF ReadInv
    <3> QED BY <1>2, <1>8, <2>1, <3>5 DEF CallInv, WriteInv, WriteOutcome, ReadOutcome
  <2> QED BY <2>1, <2>6, <2>7
<1> QED BY <1>2, <1>3, <1>7, <1>8 DEF CallInv, Calls

(* The bytes stored or received are those of the messages that are over.   *)
LEMMA FinishCall ==
    ASSUME FlowOK, CallInv, FinishMessage
    PROVE  CallInv'
<1>1. /\ pc = "wait" /\ MessageOver
      /\ UNCHANGED <<call, p_cur_msg, mem, ptr>>
      /\ \/ p_cur_msg.err # 0 /\ pc' = "idle" /\ ret' = -1 /\ msgs' = <<>>
         \/ p_cur_msg.err = 0 /\ msgs = <<>> /\ pc' = "idle" /\ ret' = 0 /\ msgs' = msgs
         \/ p_cur_msg.err = 0 /\ msgs # <<>> /\ pc' = "start" /\ msgs' = msgs
  BY DEF FinishMessage, chipVars
<1>2. /\ msgs \in Seq(Msg) /\ Len(msgs) \in Nat /\ call \in Calls
      /\ call.len \in Nat /\ call.addr \in Addresses
  BY DEF FlowOK, TypeInv, Calls
<1>3. call.op # "none"
  BY <1>1 DEF CallInv
<1>4. CASE call.op = "write"
  <2>1. /\ call.len = Len(call.data) /\ started \in Nat /\ started > 0 /\ started <= call.len
        /\ mem = Stored(call, IF over THEN started ELSE started - 1)
        /\ \A i \in 1..Len(msgs) :
               msgs[i] = Message(0, <<Address(call, started + i - 1), call.data[started + i]>>)
    <3>1. WriteInv
      BY <1>1, <1>4 DEF CallInv
    <3>2. call.len = Len(call.data) /\ started \in Nat /\ started > 0 /\ started <= call.len
      BY <1>1, <1>2, <1>4, <3>1 DEF WriteInv, started
    <3> QED BY <1>1, <1>4, <3>1, <3>2 DEF WriteInv
  <2>2. CASE p_cur_msg.err # 0 /\ pc' = "idle" /\ ret' = -1 /\ msgs' = <<>>
    <3>1. mem = Stored(call, started - 1) /\ started - 1 \in 0..call.len
      BY <1>2, <2>1, <2>2 DEF over
    <3>2. started' = call.len
      BY <1>1, <1>2, <2>2 DEF started
    <3>3. WriteInv'
      BY <1>1, <1>2, <2>1, <2>2, <3>2 DEF WriteInv
    <3>4. WriteOutcome'
      BY <1>1, <2>2, <3>1 DEF WriteOutcome
    <3> QED BY <1>1, <1>3, <1>4, <3>3, <3>4 DEF CallInv, ReadInv, ReadOutcome
  <2>3. CASE p_cur_msg.err = 0 /\ msgs = <<>> /\ pc' = "idle" /\ ret' = 0 /\ msgs' = msgs
    <3>1. started = call.len /\ started' = call.len
      BY <1>1, <1>2, <2>3 DEF started
    <3>2. mem = Stored(call, call.len)
      BY <1>1, <2>1, <2>3, <3>1 DEF over
    <3>3. WriteInv'
      BY <1>1, <1>2, <2>1, <2>3, <3>1 DEF WriteInv
    <3>4. WriteOutcome'
      BY <1>1, <2>3, <3>2 DEF WriteOutcome
    <3> QED BY <1>1, <1>3, <1>4, <3>3, <3>4 DEF CallInv, ReadInv, ReadOutcome
  <2>4. CASE p_cur_msg.err = 0 /\ msgs # <<>> /\ pc' = "start" /\ msgs' = msgs
    <3>1. started' = started /\ started \in 0..call.len
      BY <1>1, <1>2, <2>1, <2>4 DEF started
    <3>2. mem = Stored(call, started)
      BY <1>1, <2>1, <2>4 DEF over
    <3>3. WriteInv'
      BY <1>1, <2>1, <2>4, <3>1, <3>2 DEF WriteInv
    <3>4. WriteOutcome'
      BY <1>1, <2>4, <3>1, <3>2 DEF WriteOutcome
    <3> QED BY <1>1, <1>3, <1>4, <3>3, <3>4 DEF CallInv, ReadInv, ReadOutcome
  <2> QED BY <1>1, <2>2, <2>3, <2>4
<1>5. CASE call.op = "read"
  <2> DEFINE t == Tail(ReadMsgs(call.addr, call.len))
  <2>1. /\ mem = call.mem
        /\ \/ msgs = t /\ (over => ptr = Address(call, 0)) /\ p_cur_msg.flags = 0
           \/ msgs = <<>> /\ len = call.len /\ Receiving
    BY <1>1, <1>5 DEF CallInv, ReadInv
  <2>2. t # <<>>
    <3>1. t = <<ReadMsgs(call.addr, call.len)[2]>>
      BY <1>2, ReadMsgsType
    <3> QED BY <3>1
  <2> HIDE DEF t
  <2>3. CASE p_cur_msg.err # 0 /\ pc' = "idle" /\ ret' = -1 /\ msgs' = <<>>
    BY <1>1, <1>3, <1>5, <2>1, <2>3 DEF CallInv, WriteInv, WriteOutcome, ReadInv, ReadOutcome
  <2>4. CASE p_cur_msg.err = 0 /\ msgs = <<>> /\ pc' = "idle" /\ ret' = 0 /\ msgs' = msgs
    <3>1. over /\ done = call.len
      BY <1>1, <2>1, <2>2, <2>4 DEF over, MessageOver, done, len
    <3>2. Received(call.len - 1)
      BY <2>1, <2>2, <2>4, <3>1 DEF Receiving
    <3>3. ReadOutcome'
      BY <1>1, <2>1, <3>2 DEF ReadOutcome, Received, buf
    <3> QED BY <1>1, <1>3, <1>5, <2>1, <2>4, <3>3 DEF CallInv, WriteInv, WriteOutcome, ReadInv
  <2>5. CASE p_cur_msg.err = 0 /\ msgs # <<>> /\ pc' = "start" /\ msgs' = msgs
    <3>1. msgs = t /\ ptr = Address(call, 0) /\ p_cur_msg.flags = 0
      BY <1>1, <2>1, <2>5 DEF over
    <3>2. ReadInv'
      BY <1>1, <2>1, <2>5, <3>1 DEF ReadInv, t
    <3> QED BY <1>1, <1>3, <1>5, <2>1, <2>5, <3>2 DEF CallInv, WriteInv, WriteOutcome, ReadOutcome
  <2> QED BY <1>1, <2>3, <2>4, <2>5
<1> QED BY <1>2, <1>3, <1>4, <1>5 DEF Calls

(* The end of the write cycle changes no byte.                             *)
LEMMA CycleCall ==
    ASSUME FlowOK, CallInv, WriteCycleEnds
    PROVE  CallInv'
<1>1. UNCHANGED <<pc, call, msgs, ret, p_cur_msg, irq, IICDS, mem, ptr>>
  BY DEF WriteCycleEnds, mainVars
<1>2. WriteInv' /\ WriteOutcome'
  BY <1>1 DEF CallInv, WriteInv, WriteOutcome, started, over, MessageOver, buf
<1>3. Receiving' <=> Receiving
  BY <1>1 DEF Receiving, Received, over, MessageOver, done, buf, len
<1>4. ReadInv' /\ ReadOutcome'
  BY <1>1, <1>3 DEF CallInv, ReadInv, ReadOutcome, over, MessageOver, buf, len
<1> QED BY <1>1, <1>2, <1>4 DEF CallInv

(* Where the behaviour stops, no byte has changed.                         *)
LEMMA LostCall ==
    ASSUME FlowOK, CallInv, TooEarly
    PROVE  CallInv'
<1>1. /\ pc' = "lost" /\ pc # "wait" /\ UNCHANGED <<call, msgs, ret, p_cur_msg, mem, ptr>>
      /\ pc = "idle" => msgs = <<>>
  BY DEF TooEarly, chipVars, FlowOK, FlowInv
<1>2. WriteInv'
  BY <1>1 DEF CallInv, WriteInv, started
<1>3. WriteOutcome'
  <2>1. call.len \in Nat
    BY DEF FlowOK, TypeInv, Calls
  <2>2. call.op = "write" => \E k \in 0..call.len : mem = Stored(call, k)
    BY <2>1 DEF CallInv, WriteOutcome
  <2> QED BY <1>1, <2>2 DEF WriteOutcome
<1>4. ReadInv' /\ ReadOutcome'
  BY <1>1 DEF CallInv, ReadInv, ReadOutcome
<1> QED BY <1>1, <1>2, <1>3, <1>4 DEF CallInv

(* A byte on the bus comes from the cell that the address counter names.   *)
LEMMA BusCall ==
    ASSUME FlowOK, CallInv, BusByte
    PROVE  CallInv'
<1>1. /\ ~irq /\ irq' = TRUE
      /\ UNCHANGED <<pc, call, msgs, ret, p_cur_msg, mem>>
  BY DEF BusByte, mainVars
<1>2. bus # "off"
  BY DEF BusByte, SendAddress, SendWord, SendData, ReceiveData
<1>r. CASE Runaway
  <2>1. UNCHANGED <<len, done, buf, started, MessageOver, over>>
    BY <1>1 DEF len, done, buf, started, over, MessageOver
  <2>2. WriteInv' /\ WriteOutcome' /\ ReadOutcome'
    BY <1>1, <2>1 DEF CallInv, WriteInv, WriteOutcome, ReadOutcome, buf
  <2>3. len = 0 /\ done = 0 /\ p_cur_msg.flags = 1
    BY <1>r, InRunaway
  <2>4. Receiving'
    BY <2>1, <2>3 DEF Receiving, Received
  <2>5. ReadInv'
    BY <1>1, <2>1, <2>3, <2>4 DEF CallInv, ReadInv
  <2> QED BY <1>1, <2>2, <2>5 DEF CallInv
<1> SUFFICES ASSUME ~Runaway
             PROVE  CallInv'
  BY <1>r
<1>3. /\ pc = "wait" /\ ~MessageOver /\ len \in Nat /\ done \in -1..len - 1
      /\ TxStep \/ RxStep
  BY <1>2, InProgress
<1>4. /\ call \in Calls /\ call.op # "none"
  BY <1>3 DEF FlowOK, TypeInv, CallInv
<1>5. /\ UNCHANGED <<len, done, buf, started, MessageOver, over>> /\ ~over
  BY <1>1, <1>3 DEF len, done, buf, started, over, MessageOver
<1>6. WriteInv' /\ WriteOutcome' /\ ReadOutcome'
  BY <1>1, <1>5 DEF CallInv, WriteInv, WriteOutcome, ReadOutcome, buf
<1>7. ASSUME Receiving, p_cur_msg.flags = 1
      PROVE  Receiving'
  <2>1. CASE done = -1
    <3>1. bus = "start"
      BY <1>1, <1>3, <1>7, <2>1 DEF TxStep, RxStep
    <3>2. ptr' = ptr
      BY <3>1 DEF BusByte, SendAddress, SendWord, SendData, ReceiveData
    <3> QED BY <1>1, <1>3, <1>5, <1>7, <2>1, <3>2 DEF Receiving
  <2>2. CASE done \in 0..len - 1
    <3>1. bus = "read"
      BY <1>1, <1>3, <1>7, <2>2 DEF TxStep, RxStep
    <3>2. IICDS' = mem[ptr] /\ ptr' = (ptr + 1) % Size
      BY <3>1 DEF BusByte, SendAddress, SendWord, SendData, ReceiveData
    <3>3. ptr = Address(call, done) /\ Received(done) /\ done \in Nat
      BY <1>1, <1>3, <1>7, <2>2 DEF Receiving
    <3>4. ptr' = Address(call, done + 1)
      BY <1>4, <3>2, <3>3, AddressStep
    <3>5. Received(done)'
      BY <1>1, <1>5, <3>3 DEF Received
    <3> QED BY <1>1, <1>3, <1>5, <2>2, <3>2, <3>3, <3>4, <3>5 DEF Receiving
  <2> QED BY <1>3, <2>1, <2>2
<1>8. ReadInv'
  BY <1>1, <1>3, <1>5, <1>7 DEF CallInv, ReadInv
<1> QED BY <1>1, <1>4, <1>6, <1>8 DEF CallInv

(* The handler stores the byte received in its place and hands over the one*)
(* to send.                                                                *)
LEMMA InterruptCall ==
    ASSUME FlowOK, CallInv, i2c_interrupt_func
    PROVE  CallInv'
<1>1. /\ irq /\ irq' = FALSE /\ UNCHANGED <<pc, call, msgs, ret>>
      /\ NoDevice \/ Transmit \/ ReceiveFirst \/ Receive
  BY DEF i2c_interrupt_func, mainVars
<1>r. CASE Runaway
  <2>1. /\ len = 0 /\ p_cur_msg.flags = 1 /\ p_cur_msg.len = 0 /\ cnt = 1
        /\ p_cur_msg \in Msg /\ p_cur_msg.err = 0 /\ latched = <<>> /\ 1 \in Int
    BY <1>r, InRunaway DEF Runaway
  <2>2. pc = "wait" /\ Receive
    BY <1>1, <2>1 DEF NoDevice, Transmit, ReceiveFirst, i2c_interrupt_func
  <2>3. p_cur_msg' = [p_cur_msg EXCEPT !.cnt = 1] /\ Stop
    BY <2>1, <2>2 DEF Receive
  <2>4. /\ p_cur_msg'.len = p_cur_msg.len /\ p_cur_msg'.cnt = 1 /\ p_cur_msg'.err = p_cur_msg.err
        /\ p_cur_msg'.flags = p_cur_msg.flags
    BY <2>1, <2>3, SetCnt, Zenon
  <2>5. mem' = mem
    BY <2>1, <2>3 DEF Stop
  <2>6. call.op = "read"
    <3>1. call.op \in {"none", "write", "read"}
      BY DEF FlowOK, TypeInv, Calls
    <3> QED BY <2>1, <2>2, <3>1 DEF CallInv, WriteInv
  <2>7. Receiving'
    BY <2>1, <2>4 DEF Receiving, over, MessageOver, done, len
  <2>8. mem = call.mem /\ msgs = <<>> /\ len = call.len
    BY <2>1, <2>2, <2>6 DEF CallInv, ReadInv
  <2>9. ReadInv'
    BY <1>1, <2>1, <2>2, <2>4, <2>5, <2>7, <2>8 DEF ReadInv, len
  <2> QED BY <1>1, <2>2, <2>5, <2>6, <2>8, <2>9
          DEF CallInv, WriteInv, WriteOutcome, ReadOutcome
<1> SUFFICES ASSUME ~Runaway
             PROVE  CallInv'
  BY <1>r
<1>2. /\ pc = "wait" /\ p_cur_msg \in Msg /\ MsgOK(p_cur_msg) /\ p_cur_msg.err = 0
      /\ TxStep \/ RxStep
      /\ len \in Nat /\ done \in -1..len - 1 /\ done \in Int
      /\ cnt = done + 1 /\ cnt \in Int /\ ~MessageOver
  BY <1>1, InProgress
<1>3. /\ call \in Calls /\ call.op # "none" /\ call.len \in Nat /\ call.op \in {"none", "write", "read"}
      /\ msgs \in Seq(Msg) /\ Len(msgs) \in Nat
  BY <1>2 DEF FlowOK, TypeInv, CallInv, Calls
<1>4. p_cur_msg.len = len /\ p_cur_msg.buf = buf /\ Len(buf) = len /\ started' = started
  BY <1>1, <1>2 DEF len, buf, MsgOK, started
<1>5. NoDevice => /\ latched = <<>> /\ done = -1 /\ mem' = mem
                  /\ p_cur_msg'.flags = p_cur_msg.flags /\ len' = len /\ done' = 0 /\ buf' = buf
                  /\ MessageOver' /\ ~over'
  <2> SUFFICES ASSUME NoDevice
               PROVE  /\ latched = <<>> /\ done = -1 /\ mem' = mem
                      /\ p_cur_msg'.flags = p_cur_msg.flags /\ len' = len /\ done' = 0 /\ buf' = buf
                      /\ MessageOver' /\ ~over'
    OBVIOUS
  <2>1. p_cur_msg' = [p_cur_msg EXCEPT !.cnt = cnt, !.err = -1] /\ Stop /\ cnt = 0
    BY DEF NoDevice
  <2>2. done = -1 /\ latched = <<>>
    BY <1>2, <2>1 DEF TxStep, RxStep
  <2>3. mem' = mem
    BY <2>1, <2>2 DEF Stop
  <2>4. -1 \in {0, -1} /\ -1 # 0
    OBVIOUS
  <2>5. /\ p_cur_msg'.cnt = cnt /\ p_cur_msg'.err = -1 /\ p_cur_msg'.len = p_cur_msg.len
        /\ p_cur_msg'.flags = p_cur_msg.flags /\ p_cur_msg'.buf = p_cur_msg.buf
    BY <1>2, <2>1, <2>4, SetMsg, Zenon
  <2> QED BY <2>1, <2>2, <2>3, <2>4, <2>5 DEF len, done, buf, MessageOver, over
<1>6. ASSUME p_cur_msg' = [p_cur_msg EXCEPT !.cnt = cnt]
      PROVE  /\ p_cur_msg'.flags = p_cur_msg.flags
             /\ len' = len /\ done' = cnt /\ buf' = buf
             /\ cnt >= len => MessageOver' /\ over'
             /\ cnt < len => ~MessageOver' /\ ~over'
  <2>1. /\ p_cur_msg'.len = p_cur_msg.len /\ p_cur_msg'.cnt = cnt /\ p_cur_msg'.err = 0
        /\ p_cur_msg'.flags = p_cur_msg.flags /\ p_cur_msg'.buf = p_cur_msg.buf
    BY <1>2, <1>6, SetCnt, Zenon
  <2> QED BY <1>2, <1>4, <2>1 DEF MessageOver, len, done, buf, over
<1>7. Transmit => /\ p_cur_msg.flags = 0
                  /\ p_cur_msg' = [p_cur_msg EXCEPT !.cnt = cnt]
                  /\ \/ cnt < len /\ mem' = mem
                     \/ cnt >= len /\ Stop
  BY DEF Transmit, chipVars
<1>8. CASE call.op = "write"
  <2>1. /\ call.len = Len(call.data) /\ started \in Nat /\ started > 0 /\ started <= call.len
        /\ p_cur_msg.flags = 0 /\ mem = Stored(call, started - 1)
        /\ buf = <<Address(call, started - 1), call.data[started]>>
        /\ \A i \in 1..Len(msgs) :
               msgs[i] = Message(0, <<Address(call, started + i - 1), call.data[started + i]>>)
    BY <1>2, <1>3, <1>8 DEF CallInv, WriteInv, over, started
  <2>2. SUFFICES /\ p_cur_msg'.flags = 0 /\ buf' = buf
                 /\ mem' = Stored(call, IF over' THEN started ELSE started - 1)
    <3>1. started - 1 \in 0..call.len /\ started \in 0..call.len
      BY <1>3, <2>1
    <3> SUFFICES ASSUME p_cur_msg'.flags = 0, buf' = buf,
                        mem' = Stored(call, IF over' THEN started ELSE started - 1)
                 PROVE  CallInv'
      OBVIOUS
    <3>2. WriteInv'
      <4>1. mem' = Stored(call', IF over' THEN started' ELSE started' - 1)
        BY <1>1, <1>4
      <4>2. buf' = <<Address(call', started' - 1), call'.data[started']>>
        BY <1>1, <1>4, <2>1
      <4>3. \A i \in 1..Len(msgs') :
              msgs'[i] = Message(0, <<Address(call', started' + i - 1), call'.data[started' + i]>>)
        BY <1>1, <1>4, <2>1
      <4> QED BY <1>1, <1>2, <1>4, <2>1, <4>1, <4>2, <4>3 DEF WriteInv
    <3>3. \E k \in 0..call.len : mem' = Stored(call, k)
      BY <3>1
    <3>4. WriteOutcome'
      BY <1>1, <1>2, <3>3 DEF WriteOutcome
    <3> QED BY <1>1, <1>3, <1>8, <3>2, <3>4 DEF CallInv, ReadInv, ReadOutcome
  <2>3. CASE NoDevice
    BY <1>5, <2>1, <2>3
  <2>4. CASE Transmit /\ cnt < len
    BY <1>2, <1>6, <1>7, <2>1, <2>4
  <2>5. CASE Transmit /\ cnt >= len
    <3>1. Stop /\ over' /\ buf' = buf /\ p_cur_msg'.flags = 0
      BY <1>2, <1>6, <1>7, <2>1, <2>5
    <3>2. len = 2 /\ buf[1] = Address(call, started - 1) /\ buf[2] = call.data[started]
      BY <1>4, <2>1
    <3>3. done = 1 /\ ptr = buf[1] /\ latched = <<buf[2]>>
      BY <1>1, <1>2, <2>1, <2>5, <3>2 DEF TxStep, RxStep
    <3>4. latched # <<>> /\ latched[1] = buf[2]
      BY <3>3
    <3>5. mem' = [mem EXCEPT ![ptr] = buf[2]]
      BY <3>1, <3>4 DEF Stop
    <3>6. Stored(call, started) = [Stored(call, started - 1) EXCEPT ![Address(call, started - 1)] = call.data[started]]
      BY <1>3, <2>1, StoredStep
    <3>7. mem' = Stored(call, started)
      BY <2>1, <3>2, <3>3, <3>5, <3>6
    <3> QED BY <3>1, <3>7
  <2>6. ~ReceiveFirst /\ ~Receive
    BY <2>1 DEF ReceiveFirst, Receive
  <2> QED BY <1>1, <1>2, <2>3, <2>4, <2>5, <2>6
<1>9. CASE call.op = "read"
  <2> DEFINE t == Tail(ReadMsgs(call.addr, call.len))
  <2>1. /\ mem = call.mem
        /\ \/ msgs = t /\ p_cur_msg.flags = 0 /\ buf = <<Address(call, 0)>>
           \/ msgs = <<>> /\ p_cur_msg.flags = 1 /\ len = call.len /\ Receiving
    BY <1>2, <1>9 DEF CallInv, ReadInv
  <2>2. SUFFICES /\ mem' = mem
                 /\ \/ /\ msgs = t /\ p_cur_msg'.flags = 0 /\ buf' = <<Address(call, 0)>>
                       /\ over' => ptr' = Address(call, 0)
                    \/ msgs = <<>> /\ p_cur_msg'.flags = 1 /\ len' = call.len /\ Receiving'
    <3>1. SUFFICES ASSUME mem' = mem, ReadInv'
                   PROVE  CallInv'
      BY <1>1, <1>2, <2>1 DEF ReadInv
    <3> QED BY <1>1, <1>2, <1>3, <1>9, <2>1, <3>1 DEF CallInv, WriteInv, WriteOutcome, ReadOutcome
  <2> HIDE DEF t
  <2>3. CASE msgs = t /\ p_cur_msg.flags = 0 /\ buf = <<Address(call, 0)>>
    <3>1. ~ReceiveFirst /\ ~Receive
      BY <2>3 DEF ReceiveFirst, Receive
    <3>2. CASE NoDevice
      BY <1>5, <2>3, <3>2
    <3>3. CASE Transmit /\ cnt < len
      BY <1>2, <1>6, <1>7, <2>3, <3>3
    <3>4. CASE Transmit /\ cnt >= len
      <4>1. Stop /\ buf' = buf /\ p_cur_msg'.flags = 0
        BY <1>2, <1>6, <1>7, <2>3, <3>4
      <4>2. len = 1 /\ buf[1] = Address(call, 0)
        BY <1>4, <2>3
      <4>3. done = 0 /\ ptr = buf[1] /\ latched = <<>>
        BY <1>1, <1>2, <2>3, <3>4, <4>2 DEF TxStep, RxStep
      <4>4. mem' = mem /\ ptr' = ptr
        BY <4>1, <4>3 DEF Stop
      <4> QED BY <2>3, <4>1, <4>2, <4>3, <4>4
    <3> QED BY <1>1, <1>2, <3>1, <3>2, <3>3, <3>4
  <2>4. CASE msgs = <<>> /\ p_cur_msg.flags = 1 /\ len = call.len /\ Receiving
    <3>1. latched = <<>> /\ ~Transmit
      BY <1>2, <1>7, <2>4 DEF TxStep, RxStep
    <3>2. Stop => mem' = mem /\ ptr' = ptr
      BY <3>1 DEF Stop
    <3>3. CASE NoDevice
      <4>1. Receiving'
        BY <1>5, <3>3 DEF Receiving
      <4> QED BY <1>5, <2>4, <3>3, <4>1
    <3>4. CASE ReceiveFirst
      <4>1. /\ cnt = 0 /\ p_cur_msg' = [p_cur_msg EXCEPT !.cnt = cnt] /\ mem' = mem /\ ptr' = ptr
        BY <3>4 DEF ReceiveFirst, chipVars
      <4>2. done = -1 /\ ptr = Address(call, 0)
        BY <1>2, <2>4, <4>1 DEF Receiving
      <4>3. done' = 0 /\ p_cur_msg'.flags = 1 /\ len' = len
        BY <1>2, <1>6, <2>4, <4>1
      <4>4. Received(done)' /\ Received(done - 1)'
        BY <4>3 DEF Received
      <4>5. Receiving'
        BY <1>1, <4>1, <4>2, <4>3, <4>4 DEF Receiving
      <4> QED BY <2>4, <4>1, <4>3, <4>5
    <3>5. CASE Receive /\ cnt < len
      <4>1. /\ p_cur_msg' = [p_cur_msg EXCEPT !.cnt = cnt, !.buf[cnt] = IICDS]
            /\ mem' = mem /\ ptr' = ptr /\ cnt > 0
        BY <1>2, <3>5 DEF Receive, chipVars
      <4>2. /\ p_cur_msg'.cnt = cnt /\ p_cur_msg'.err = p_cur_msg.err /\ p_cur_msg'.len = p_cur_msg.len
            /\ p_cur_msg'.flags = p_cur_msg.flags /\ p_cur_msg'.buf = [buf EXCEPT ![cnt] = IICDS]
        BY <1>2, <4>1 DEF Msg, buf
      <4>3. done >= 0 /\ done \in Nat /\ cnt - 1 = done
        BY <1>2, <4>1
      <4>4. IICDS = mem[Address(call, done)] /\ ptr = Address(call, done + 1) /\ Received(done)
        BY <1>1, <1>2, <2>4, <4>3 DEF Receiving
      <4>5. buf' = [buf EXCEPT ![cnt] = IICDS] /\ done' = cnt /\ len' = len /\ ~over'
        BY <1>2, <1>4, <3>5, <4>2 DEF buf, done, len, over, MessageOver
      <4>6. Received(done)'
        <5>1. buf \in Seq(Byte \cup {Junk})
          BY <1>2, <1>4, MsgFields
        <5>2. ASSUME NEW i \in 1..cnt
              PROVE  buf'[i] = mem'[Address(call', i - 1)]
          <6>1. CASE i = cnt
            <7>1. cnt \in 1..Len(buf)
              BY <1>2, <1>4, <3>5, <4>1
            <7>2. buf'[cnt] = IICDS
              BY <4>5, <5>1, <7>1
            <7> QED BY <1>1, <4>1, <4>3, <4>4, <6>1, <7>2
          <6>2. CASE i # cnt
            <7>1. i \in 1..done /\ i \in 1..Len(buf)
              BY <1>2, <1>4, <3>5, <4>3, <6>2
            <7>2. buf'[i] = buf[i]
              BY <4>5, <5>1, <6>2, <7>1
            <7> QED BY <1>1, <4>1, <4>4, <7>1, <7>2 DEF Received
          <6> QED BY <6>1, <6>2
        <5> QED BY <4>5, <5>2 DEF Received
      <4>7. Receiving'
        BY <1>1, <1>2, <4>1, <4>3, <4>4, <4>5, <4>6 DEF Receiving
      <4> QED BY <2>4, <4>1, <4>2, <4>5, <4>7
    <3>6. CASE Receive /\ cnt >= len
      <4>1. p_cur_msg' = [p_cur_msg EXCEPT !.cnt = cnt] /\ Stop /\ cnt > 0
        BY <1>2, <3>6 DEF Receive
      <4>2. /\ done' = cnt /\ buf' = buf /\ len' = len /\ MessageOver' /\ over'
            /\ p_cur_msg'.flags = 1 /\ mem' = mem
        BY <1>6, <2>4, <3>2, <3>6, <4>1
      <4>3. done >= 0 /\ cnt - 1 = done /\ cnt # -1
        BY <1>2, <4>1
      <4>4. Received(done)
        BY <1>2, <2>4, <4>3 DEF Receiving
      <4>5. Received(done - 1)'
        BY <1>1, <4>2, <4>3, <4>4 DEF Received
      <4>6. Receiving'
        BY <4>2, <4>3, <4>5 DEF Receiving
      <4> QED BY <2>4, <4>2, <4>6
    <3> QED BY <1>1, <1>2, <3>1, <3>3, <3>4, <3>5, <3>6
  <2> QED BY <2>1, <2>3, <2>4
<1> QED BY <1>3, <1>8, <1>9

(* No call has been made at the start.                                     *)
LEMMA CallInit == Init => CallInv
<1> SUFFICES ASSUME Init PROVE CallInv
  OBVIOUS
<1>1. pc = "idle" /\ call.op = "none"
  BY DEF Init, NoCall
<1> QED BY <1>1 DEF CallInv, WriteInv, ReadInv, WriteOutcome, ReadOutcome

(* Every step keeps what is known of the bytes of the call.                *)
LEMMA CallStep ==
    ASSUME FlowOK, CallInv, [Next]_vars
    PROVE  CallInv'
<1>1. ASSUME NEW addr \in Addresses, NEW data \in Data, at24cxx_write(addr, data)
      PROVE  CallInv'
  BY <1>1, WriteCall
<1>2. ASSUME NEW addr \in Addresses, NEW n \in Lens, at24cxx_read(addr, n)
      PROVE  CallInv'
  <2>1. n \in Nat
    BY I2cAssumption
  <2> QED BY <1>2, <2>1, ReadCall
<1>3. CASE UNCHANGED vars
  <2>1. UNCHANGED <<pc, call, msgs, ret, p_cur_msg, irq, IICDS, mem, ptr>>
    BY <1>3 DEF vars
  <2>2. WriteInv' /\ WriteOutcome'
    BY <2>1 DEF CallInv, WriteInv, WriteOutcome, started, over, MessageOver, buf
  <2>3. Receiving' <=> Receiving
    BY <2>1 DEF Receiving, Received, over, MessageOver, done, buf, len
  <2>4. ReadInv' /\ ReadOutcome'
    BY <2>1, <2>3 DEF CallInv, ReadInv, ReadOutcome, over, MessageOver, buf, len
  <2> QED BY <2>1, <2>2, <2>4 DEF CallInv
<1> QED
  BY <1>1, <1>2, <1>3, StartCall, FinishCall, LostCall, BusCall, CycleCall, InterruptCall
     DEF Next

(* What a call has done so far, at every point of its messages.            *)
THEOREM CallInvariant == Spec => []CallInv
  BY FlowInvariant, CallInit, CallStep, PTL DEF Spec

(* at24cxx_write stores a prefix of its string, byte by byte from its      *)
(* address on, around the end of the chip; it leaves the rest of the chip  *)
(* alone, and it returns 0 only when all of the string is stored.          *)
THEOREM WriteStoresPrefix == Spec => []WriteOutcome
<1>1. CallInv => WriteOutcome
  BY DEF CallInv
<1> QED BY <1>1, CallInvariant, PTL

(* at24cxx_read leaves the chip alone; when it returns 0 all bytes of its  *)
(* buffer but the last are those of the chip, from its address on.         *)
THEOREM ReadReturnsChip == Spec => []ReadOutcome
<1>1. CallInv => ReadOutcome
  BY DEF CallInv
<1> QED BY <1>1, CallInvariant, PTL
===============================================================================
