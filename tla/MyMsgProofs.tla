----------------------------- MODULE MyMsgProofs ------------------------------
(***************************************************************************)
(* Proofs about MyMsg, for a buffer of any length, any number of readers   *)
(* and of characters.  Only ringbufffputc changes the ring; LogIsTail is   *)
(* inductive relative to TypeOK.                                           *)
(***************************************************************************)
EXTENDS MyMsg, TLAPS

(* The ring has at least two places (MYLOG_BUF_LEN).                       *)
LEMMA LengthIsPositive == N \in Nat /\ N >= 2
  BY MyMsgAssumption DEF N

(* The lengths of reads are numbers.                                       *)
LEMMA CountsAreNat == \A n \in Counts \cup {0} : n \in Nat
  BY MyMsgAssumption

(* The index after k, which goes around at the end of the buffer.          *)
LEMMA SuccType ==
    ASSUME NEW k \in Index
    PROVE  /\ Succ(k) \in Index
           /\ k = N - 1 => Succ(k) = 0
           /\ k # N - 1 => Succ(k) = k + 1
  BY LengthIsPositive DEF Succ, Index

(* How far an index is from another is an index.                           *)
LEMMA DistType ==
    ASSUME NEW a \in Index, NEW b \in Index
    PROVE  Dist(a, b) \in Index
  BY LengthIsPositive DEF Dist, Index

(* How far an index is from another one when either of them moves on.      *)
LEMMA DistToSucc ==
    ASSUME NEW a \in Index, NEW b \in Index, Succ(b) # a
    PROVE  Dist(a, Succ(b)) = Dist(a, b) + 1
  BY LengthIsPositive DEF Dist, Succ, Index

(* Moving the first index on takes it one nearer.                          *)
LEMMA DistFromSucc ==
    ASSUME NEW a \in Index, NEW b \in Index, a # b
    PROVE  Dist(Succ(a), b) = Dist(a, b) - 1
  BY LengthIsPositive DEF Dist, Succ, Index

(* An index is at distance 0 of itself, and N - 1 behind when it has moved *)
(* on.                                                                     *)
LEMMA DistSelf ==
    ASSUME NEW a \in Index
    PROVE  /\ Dist(a, a) = 0
           /\ Dist(Succ(a), a) = N - 1
  BY LengthIsPositive DEF Dist, Succ, Index

(* Only an index itself is at distance 0.                                  *)
LEMMA DistZero ==
    ASSUME NEW a \in Index, NEW b \in Index
    PROVE  Dist(a, b) = 0 <=> a = b
  BY LengthIsPositive DEF Dist, Index

(* An index is right behind another when it is N - 1 from it.              *)
LEMMA DistToSuccWraps ==
    ASSUME NEW a \in Index, NEW b \in Index
    PROVE  Succ(b) = a <=> Dist(a, b) = N - 1
  BY LengthIsPositive DEF Dist, Succ, Index

(* An index is known by its distance.                                      *)
LEMMA DistInjective ==
    ASSUME NEW a \in Index, NEW b \in Index, NEW d \in Index, Dist(a, b) = Dist(a, d)
    PROVE  b = d
  BY LengthIsPositive DEF Dist, Index

-------------------------------------------------------------------------------
(* The test of line 110 comes before __put_user: there is room for the     *)
(* character.                                                              *)
RoomForChar == \A p \in Readers : rpc[p] = "put" => i[p] < count[p]

IInv == TypeOK /\ RoomForChar

(* Both parts together are inductive.                                      *)
THEOREM Invariant == Spec => []IInv
<1> USE MyMsgAssumption, LengthIsPositive
<1>1. Init => IInv
  BY DEF Init, IInv, TypeOK, RoomForChar, Index
<1>2. IInv /\ [Next]_vars => IInv'
  <2> SUFFICES ASSUME TypeOK, RoomForChar, [Next]_vars
               PROVE  TypeOK' /\ RoomForChar'
    BY DEF IInv
  <2> USE DEF ringVars, readVars
  <2>1. CASE UNCHANGED vars
    <3>1. TypeOK'
      BY <2>1 DEF TypeOK, vars
    <3>2. RoomForChar'
      BY <2>1 DEF RoomForChar, vars
    <3> QED BY <3>1, <3>2
  <2>2. CASE ringbufffputc
    <3>1. mylog_r' \in Index /\ mylog_r_for_read' \in Index
      BY <2>2, SuccType DEF ringbufffputc, DropOldest, TypeOK
    <3>2. mylog_w' \in Index /\ last' \in 0..MaxChars
      BY <2>2, SuccType DEF ringbufffputc, TypeOK
    <3>3. mylog_buf' \in [Index -> 0..MaxChars]
      BY <2>2, <3>2 DEF ringbufffputc, TypeOK
    <3>4. rpc' \in [Readers -> {"closed", "open", "wait", "asleep", "get", "store", "put"}]
      BY <2>2 DEF ringbufffputc, WakeUp, TypeOK
    <3>5. RoomForChar'
      BY <2>2 DEF ringbufffputc, WakeUp, RoomForChar
    <3>6. UNCHANGED <<cpu, c, pos, i, count, got, alone>>
      BY <2>2 DEF ringbufffputc
    <3> QED
      BY <3>1, <3>2, <3>3, <3>4, <3>5, <3>6 DEF TypeOK
  <2>3. ASSUME NEW p \in Readers, mymsg_open(p)
        PROVE  TypeOK' /\ RoomForChar'
    <3>1. alone' \in [Readers -> BOOLEAN]
      BY <2>3 DEF mymsg_open
    <3> QED BY <2>3, <3>1 DEF mymsg_open, TypeOK, RoomForChar
  <2>4. ASSUME NEW p \in Readers, Close(p)
        PROVE  TypeOK' /\ RoomForChar'
    BY <2>4 DEF Close, TypeOK, RoomForChar
  <2>5. ASSUME NEW p \in Readers, NEW n \in Counts, mymsg_read(p, n)
        PROVE  TypeOK' /\ RoomForChar'
    <3>1. n \in Nat
      OBVIOUS
    <3>2. \A q \in Readers : i'[q] <= count'[q]
      BY <2>5, <3>1 DEF mymsg_read, TypeOK, RoomForChar
    <3> QED BY <2>5, <3>2 DEF mymsg_read, TypeOK, RoomForChar
  <2>6. ASSUME NEW p \in Readers, Wait(p) \/ Interrupted(p)
        PROVE  TypeOK' /\ RoomForChar'
    BY <2>6 DEF Wait, Interrupted, TypeOK, RoomForChar
  <2>7. ASSUME NEW p \in Readers, GetChar(p)
        PROVE  TypeOK' /\ RoomForChar'
    BY <2>7 DEF GetChar, TypeOK, RoomForChar
  <2>8. ASSUME NEW p \in Readers, StoreIndex(p)
        PROVE  TypeOK' /\ RoomForChar'
    <3>1. mylog_r_for_read' \in Index
      BY <2>8, SuccType DEF StoreIndex, TypeOK, RoomForChar
    <3> QED BY <2>8, <3>1 DEF StoreIndex, TypeOK, RoomForChar
  <2>9. ASSUME NEW p \in Readers, PutUser(p)
        PROVE  TypeOK' /\ RoomForChar'
    <3>1. rpc[p] = "put" /\ i[p] < count[p] /\ i[p] \in Nat /\ count[p] \in Nat
      <4>1. i[p] \in Nat
        BY DEF TypeOK
      <4>2. count[p] \in Counts \cup {0}
        BY DEF TypeOK
      <4>3. count[p] \in Nat
        BY <4>2, CountsAreNat, Zenon
      <4>4. rpc[p] = "put" /\ i[p] < count[p]
        BY <2>9 DEF PutUser, RoomForChar
      <4> QED BY <4>1, <4>3, <4>4
    <3>2. i' \in [Readers -> Nat] /\ \A q \in Readers : i'[q] <= count[q]
      BY <2>9, <3>1 DEF PutUser, TypeOK
    <3> QED BY <2>9, <3>1, <3>2 DEF PutUser, TypeOK, RoomForChar
  <2> QED
    BY <2>1, <2>2, <2>3, <2>4, <2>5, <2>6, <2>7, <2>8, <2>9 DEF Next
<1> QED
  BY <1>1, <1>2, PTL DEF Spec

(* Every variable has its type; a reader is never given more characters    *)
(* than it asked for.                                                      *)
THEOREM TypeCorrect == Spec => []TypeOK
<1>1. IInv => TypeOK
  BY DEF IInv
<1> QED BY <1>1, Invariant, PTL

-------------------------------------------------------------------------------
(* Only ringbufffputc changes the ring.                                    *)
LEMMA RingSteps ==
    ASSUME [Next]_vars, ~ringbufffputc
    PROVE  UNCHANGED ringVars
  BY DEF Next, vars, ringVars, mymsg_open, Close, mymsg_read, Wait, Interrupted,
         GetChar, StoreIndex, PutUser

(* ringbufffputc adds the new character and drops the oldest one when the  *)
(* ring is full.                                                           *)
LEMMA PutKeepsTail == TypeOK /\ LogIsTail /\ ringbufffputc => LogIsTail'
<1> SUFFICES ASSUME TypeOK, LogIsTail, ringbufffputc
             PROVE  LogIsTail'
  OBVIOUS
<1> USE LengthIsPositive
<1> DEFINE r == mylog_r
           w == mylog_w
<1>1. /\ r \in Index /\ w \in Index /\ last \in Nat /\ last' = last + 1
      /\ w' = Succ(w) /\ Succ(w) \in Index /\ Succ(r) \in Index
      /\ mylog_buf' = [mylog_buf EXCEPT ![w] = last + 1]
      /\ mylog_buf \in [Index -> 0..MaxChars]
  BY SuccType, MyMsgAssumption DEF ringbufffputc, TypeOK
<1>2. /\ Dist(r, w) = IF last < N THEN last ELSE N - 1
      /\ \A k \in Index : Dist(r, k) < Dist(r, w) =>
             mylog_buf[k] = last - Dist(r, w) + Dist(r, k) + 1
  BY DEF LogIsTail, Held
<1> HIDE DEF r, w
<1>3. CASE Succ(w) # r
  <2>1. r' = r
    BY <1>3 DEF ringbufffputc, DropOldest, ringbufffull, r, w
  <2>2. Dist(r, Succ(w)) = Dist(r, w) + 1 /\ Dist(r, w) \in Index /\ Dist(r, w) # N - 1
    BY <1>1, <1>3, DistToSucc, DistType, DistToSuccWraps
  <2>3. last + 1 < N /\ Dist(r, w) = last
    BY <1>1, <1>2, <2>2 DEF Index
  <2>4. ASSUME NEW k \in Index, Dist(r, k) < Dist(r, w) + 1
        PROVE  mylog_buf'[k] = Dist(r, k) + 1
    <3>1. CASE k = w
      BY <1>1, <2>3, <3>1
    <3>2. CASE k # w
      <4>1. Dist(r, k) # Dist(r, w) /\ Dist(r, k) \in Index
        BY <1>1, <3>2, DistInjective, DistType
      <4>2. Dist(r, k) < Dist(r, w)
        BY <2>2, <2>4, <4>1 DEF Index
      <4>3. mylog_buf[k] = Dist(r, k) + 1
        BY <1>1, <1>2, <2>3, <4>1, <4>2 DEF Index
      <4> QED BY <1>1, <3>2, <4>3
    <3> QED BY <3>1, <3>2
  <2>5. Dist(r', w') = Dist(r, w) + 1 /\ last' = Dist(r, w) + 1
    BY <1>1, <2>1, <2>2, <2>3
  <2>6. last' = last + 1 /\ last' < N /\ last' \in Nat
    BY <1>1, <2>2, <2>3, <2>5 DEF Index
  <2>7. Dist(r', w') = IF last' < N THEN last' ELSE N - 1
    BY <2>5, <2>6
  <2>8. ASSUME NEW k \in Index, Dist(r', k) < Dist(r', w')
        PROVE  mylog_buf'[k] = last' - Dist(r', w') + Dist(r', k) + 1
    <3>1. Dist(r, k) \in Index /\ mylog_buf'[k] = Dist(r, k) + 1
      BY <1>1, <2>1, <2>4, <2>5, <2>8, DistType
    <3>2. last' - Dist(r', w') = 0
      BY <2>5, <2>6
    <3>3. 0 + Dist(r, k) = Dist(r, k)
      BY <3>1 DEF Index
    <3> QED BY <2>1, <3>1, <3>2, <3>3
  <2> QED BY <2>7, <2>8 DEF LogIsTail, Held, r, w, Index
<1>4. CASE Succ(w) = r
  <2>1. r' = Succ(r)
    BY <1>4 DEF ringbufffputc, DropOldest, ringbufffull, r, w
  <2>2. Dist(r, w) = N - 1 /\ last >= N - 1
    BY <1>1, <1>2, <1>4, DistToSuccWraps
  <2>3. Dist(Succ(r), r) = N - 1
    BY <1>1, DistSelf
  <2>4. ASSUME NEW k \in Index, Dist(Succ(r), k) < N - 1
        PROVE  mylog_buf'[k] = last + 1 - (N - 1) + Dist(Succ(r), k) + 1
    <3>1. k # r /\ Dist(r, k) \in Index
      BY <1>1, <2>3, <2>4, DistType
    <3>2. Dist(Succ(r), k) = Dist(r, k) - 1
      BY <1>1, <3>1, DistFromSucc
    <3>3. CASE k = w
      BY <1>1, <2>2, <3>2, <3>3
    <3>4. CASE k # w
      <4>1. Dist(r, k) # N - 1
        BY <1>1, <2>2, <3>4, DistInjective
      <4>2. mylog_buf[k] = last - (N - 1) + Dist(r, k) + 1
        BY <1>2, <2>2, <3>1, <4>1 DEF Index
      <4>3. mylog_buf'[k] = mylog_buf[k]
        BY <1>1, <3>4
      <4> QED BY <1>1, <3>1, <3>2, <4>2, <4>3 DEF Index
    <3> QED BY <3>3, <3>4
  <2>5. Dist(r', w') = N - 1 /\ last' >= N
    BY <1>1, <1>4, <2>1, <2>2, <2>3
  <2> QED
    BY <1>1, <2>1, <2>2, <2>4, <2>5 DEF LogIsTail, Held, r, w
<1> QED BY <1>3, <1>4

(* The buffer holds the last characters written, in their order, however   *)
(* often the writer has gone around and overtaken the readers.             *)
THEOREM BufferIsTail == Spec => []LogIsTail
<1>1. Init => LogIsTail
  <2> SUFFICES ASSUME Init
               PROVE  LogIsTail
    OBVIOUS
  <2>1. 0 \in Index /\ mylog_r = 0 /\ mylog_w = 0 /\ last = 0
    BY LengthIsPositive DEF Init, Index
  <2>2. Dist(0, 0) = 0 /\ \A k \in Index : Dist(0, k) >= 0
    BY <2>1, LengthIsPositive DEF Dist, Index
  <2> QED BY <2>1, <2>2, LengthIsPositive, DistType DEF LogIsTail, Held, Index
<1>2. TypeOK /\ LogIsTail /\ [Next]_vars => LogIsTail'
  <2> SUFFICES ASSUME TypeOK, LogIsTail, [Next]_vars
               PROVE  LogIsTail'
    OBVIOUS
  <2>1. CASE ringbufffputc
    BY <2>1, PutKeepsTail
  <2>2. CASE ~ringbufffputc
    BY <2>2, RingSteps DEF ringVars, LogIsTail, Held
  <2> QED BY <2>1, <2>2
<1> QED
  BY <1>1, <1>2, TypeCorrect, PTL DEF Spec

-------------------------------------------------------------------------------
(* Sleeping on data.  A reader that is alone is the only one that opened:  *)
(* the others are closed, so nobody moves mylog_r_for_read while it        *)
(* sleeps, except a writer, who wakes it.                                  *)
OthersClosed == \A p, q \in Readers : alone[p] /\ p # q => rpc[q] = "closed"

(* While a reader is alone the others have the file closed, and none sleeps*)
(* on data.                                                                *)
LEMMA AloneInvariant == Spec => [](OthersClosed /\ NoSleepOnData)
<1> DEFINE Inv == OthersClosed /\ NoSleepOnData
<1>1. Init => Inv
  BY DEF Init, OthersClosed, NoSleepOnData
<1>2. TypeOK /\ Inv /\ [Next]_vars => Inv'
  <2> SUFFICES ASSUME TypeOK, OthersClosed, NoSleepOnData, [Next]_vars
               PROVE  OthersClosed' /\ NoSleepOnData'
    OBVIOUS
  <2> USE DEF OthersClosed, NoSleepOnData, ringbuffempty_for_read, ringVars, TypeOK
  <2>1. CASE UNCHANGED vars
    BY <2>1 DEF vars
  <2>2. CASE ringbufffputc
    BY <2>2 DEF ringbufffputc, WakeUp
  <2>3. ASSUME NEW p \in Readers, mymsg_open(p)
        PROVE  OthersClosed' /\ NoSleepOnData'
    BY <2>3 DEF mymsg_open
  <2>4. ASSUME NEW p \in Readers, Close(p)
        PROVE  OthersClosed' /\ NoSleepOnData'
    BY <2>4 DEF Close
  <2>5. ASSUME NEW p \in Readers, NEW n \in Counts, mymsg_read(p, n)
        PROVE  OthersClosed' /\ NoSleepOnData'
    BY <2>5 DEF mymsg_read
  <2>6. ASSUME NEW p \in Readers, Wait(p) \/ Interrupted(p)
        PROVE  OthersClosed' /\ NoSleepOnData'
    BY <2>6 DEF Wait, Interrupted
  <2>7. ASSUME NEW p \in Readers, GetChar(p) \/ StoreIndex(p)
        PROVE  OthersClosed' /\ NoSleepOnData'
    BY <2>7 DEF GetChar, StoreIndex
  <2>8. ASSUME NEW p \in Readers, PutUser(p)
        PROVE  OthersClosed' /\ NoSleepOnData'
    BY <2>8 DEF PutUser
  <2> QED
    BY <2>1, <2>2, <2>3, <2>4, <2>5, <2>6, <2>7, <2>8 DEF Next
<1> QED
  BY <1>1, <1>2, TypeCorrect, PTL DEF Spec

(* A reader that has the file for itself never sleeps while there is       *)
(* something to read.                                                      *)
THEOREM NobodySleepsOnData == Spec => []NoSleepOnData
  BY AloneInvariant, PTL

-------------------------------------------------------------------------------
(* The order in which a reader is given the characters, when interrupt     *)
(* handlers do not log.  The position of the readers stays in the part of  *)
(* the ring that is filled; NextNumber is the number of the character it   *)
(* stands at, or of the one that will be written there.                    *)
InFilledPart == Dist(mylog_r, mylog_r_for_read) <= Held

NextNumber == last - Dist(mylog_r_for_read, mylog_w) + 1

(* b can be given after a when n characters have been written: it is the   *)
(* next one, or all those between them have been overwritten.              *)
Follows(a, b, n) == b = a + 1 \/ (b > a + 1 /\ b <= n - (N - 1) + 1)

(* Between the two statements of ringbuffgetc_for_read nothing has moved.  *)
Loaded ==
    \A p \in Readers : rpc[p] = "store" =>
        /\ cpu = p
        /\ pos[p] = mylog_r_for_read
        /\ ~ringbuffempty_for_read
        /\ c[p] = NextNumber

InOrder ==
    \A p \in Readers : alone[p] =>
        /\ rpc[p] = "get" /\ i[p] > 0 => Follows(got[p], NextNumber, last)
        /\ rpc[p] \in {"store", "put"} /\ i[p] > 0 => Follows(got[p], c[p], last)
        /\ rpc[p] = "put" => Follows(c[p], NextNumber, last)

(* read starts to count when it is called.                                 *)
NoneGiven == \A p \in Readers : rpc[p] \in {"wait", "asleep"} => i[p] = 0

OrderInv == NoneGiven /\ InFilledPart /\ Loaded /\ InOrder

(* What a writer does to the number of the next character: nothing, or it  *)
(* has overwritten that one and the next is now the oldest.                *)
LEMMA PutMovesReader ==
    ASSUME TypeOK, LogIsTail, InFilledPart, ringbufffputc
    PROVE  /\ InFilledPart'
           /\ \/ NextNumber' = NextNumber
              \/ NextNumber' = NextNumber + 1 /\ NextNumber' <= last' - (N - 1) + 1
<1> USE LengthIsPositive
<1> DEFINE r == mylog_r
           w == mylog_w
           f == mylog_r_for_read
<1>1. /\ r \in Index /\ w \in Index /\ f \in Index /\ last \in Nat
      /\ last' = last + 1 /\ w' = Succ(w)
      /\ Succ(w) \in Index /\ Succ(r) \in Index
  BY SuccType, MyMsgAssumption DEF ringbufffputc, TypeOK
<1>2. /\ Dist(r, w) = IF last < N THEN last ELSE N - 1
      /\ Dist(r, f) <= Dist(r, w)
  BY DEF LogIsTail, InFilledPart, Held
<1>3. IF Succ(w) = r THEN r' = Succ(r) /\ f' = IF Succ(f) = Succ(r) THEN Succ(r) ELSE f
                     ELSE r' = r /\ f' = f
  BY DEF ringbufffputc, DropOldest, ringbufffull
<1>4. SUFFICES /\ Dist(r', f') <= Dist(r', w')
               /\ \/ last' - Dist(f', w') + 1 = last - Dist(f, w) + 1
                  \/ /\ last' - Dist(f', w') + 1 = last - Dist(f, w) + 1 + 1
                     /\ last' - Dist(f', w') + 1 <= last' - (N - 1) + 1
  BY DEF InFilledPart, Held, NextNumber
<1> HIDE DEF r, w, f
<1>5. CASE Succ(w) # r
  <2>1. r' = r /\ f' = f
    BY <1>3, <1>5
  <2>2. Dist(r, Succ(w)) = Dist(r, w) + 1 /\ Dist(f, Succ(w)) = Dist(f, w) + 1
    BY <1>1, <1>2, <1>5 DEF Dist, Succ, Index
  <2> QED
    BY <1>1, <1>2, <2>1, <2>2, DistType DEF Index
<1>6. CASE Succ(w) = r /\ f = r
  <2>1. r' = Succ(r) /\ f' = Succ(r) /\ w' = r
    BY <1>1, <1>3, <1>6
  <2>2. Dist(Succ(r), Succ(r)) = 0 /\ Dist(Succ(r), r) = N - 1 /\ Dist(r, w) = N - 1
    BY <1>1, <1>6, DistSelf, DistToSuccWraps
  <2> QED
    BY <1>1, <1>6, <2>1, <2>2
<1>7. CASE Succ(w) = r /\ f # r
  <2>1. r' = Succ(r) /\ f' = f /\ w' = r
    BY <1>1, <1>3, <1>7 DEF Succ, Index
  <2>2. /\ Dist(Succ(r), f) = Dist(r, f) - 1 /\ Dist(Succ(r), r) = N - 1
        /\ Dist(r, w) = N - 1 /\ Dist(f, r) = Dist(f, w) + 1
    BY <1>1, <1>7, DistSelf, DistToSuccWraps, DistFromSucc, DistToSucc
  <2> QED
    BY <1>1, <1>2, <2>1, <2>2, DistType DEF Index
<1> QED BY <1>5, <1>6, <1>7

(* A character that follows another goes on to do so as more are written.  *)
LEMMA FollowsKept ==
    ASSUME NEW a \in Nat, NEW b \in Nat, NEW n \in Nat, Follows(a, b, n)
    PROVE  /\ Follows(a, b, n + 1)
           /\ b + 1 <= n + 1 - (N - 1) + 1 => Follows(a, b + 1, n + 1)
  BY LengthIsPositive DEF Follows

(* The character the reader is at is the one its place in the ring stands  *)
(* for.                                                                    *)
LEMMA NextNumberType ==
    ASSUME TypeOK, LogIsTail, InFilledPart
    PROVE  /\ NextNumber \in Nat
           /\ ~ringbuffempty_for_read => mylog_buf[mylog_r_for_read] = NextNumber
<1> USE LengthIsPositive
<1> DEFINE r == mylog_r
           w == mylog_w
           f == mylog_r_for_read
<1>1. r \in Index /\ w \in Index /\ f \in Index /\ last \in Nat
  BY MyMsgAssumption DEF TypeOK
<1>2. /\ Dist(r, w) = IF last < N THEN last ELSE N - 1
      /\ Dist(r, f) <= Dist(r, w)
      /\ Dist(r, f) < Dist(r, w) => mylog_buf[f] = last - Dist(r, w) + Dist(r, f) + 1
  BY <1>1 DEF LogIsTail, InFilledPart, Held
<1>3. /\ Dist(f, w) = Dist(r, w) - Dist(r, f)
      /\ f # w => Dist(r, f) # Dist(r, w)
  BY <1>1, <1>2, DistInjective DEF Dist, Index
<1>4. Dist(r, w) \in Index /\ Dist(r, f) \in Index
  BY <1>1, DistType
<1> HIDE DEF r, w, f
<1>5. /\ last - Dist(f, w) + 1 \in Nat
      /\ f # w => mylog_buf[f] = last - Dist(f, w) + 1
  BY <1>1, <1>2, <1>3, <1>4 DEF Index
<1> QED BY <1>5 DEF NextNumber, ringbuffempty_for_read, f, w

(* The invariant of reading in order holds in every state.                 *)
LEMMA OrderInvariant ==
    ASSUME IrqLogs = FALSE
    PROVE  Spec => []OrderInv
<1> USE LengthIsPositive
<1>1. Init => OrderInv
  <2> SUFFICES ASSUME Init
               PROVE  OrderInv
    OBVIOUS
  <2>1. 0 \in Index
    BY DEF Index
  <2>2. InFilledPart
    BY <2>1, DistSelf DEF Init, InFilledPart, Held
  <2> QED BY <2>2 DEF Init, OrderInv, NoneGiven, Loaded, InOrder
<1>2. TypeOK /\ LogIsTail /\ OthersClosed /\ OrderInv /\ [Next]_vars => OrderInv'
  <2> SUFFICES ASSUME TypeOK, LogIsTail, OthersClosed, NoneGiven, InFilledPart, Loaded, InOrder,
                      [Next]_vars
               PROVE  NoneGiven' /\ InFilledPart' /\ Loaded' /\ InOrder'
    BY DEF OrderInv
  <2>1. /\ NextNumber \in Nat /\ last \in Nat
        /\ \A p \in Readers : got[p] \in Nat /\ c[p] \in Nat /\ i[p] \in Nat
    BY NextNumberType, MyMsgAssumption DEF TypeOK
  <2>2. ~ringbuffempty_for_read => mylog_buf[mylog_r_for_read] = NextNumber
    BY NextNumberType
  <2>a. NoneGiven'
    <3> USE DEF NoneGiven, TypeOK
    <3>1. ASSUME NEW p \in Readers, NEW n \in Counts, mymsg_read(p, n)
          PROVE  NoneGiven'
      BY <3>1 DEF mymsg_read
    <3>2. ASSUME NEW p \in Readers, mymsg_open(p) \/ Close(p) \/ Wait(p) \/ Interrupted(p)
                                       \/ GetChar(p) \/ StoreIndex(p) \/ PutUser(p)
          PROVE  NoneGiven'
      BY <3>2 DEF mymsg_open, Close, Wait, Interrupted, GetChar, StoreIndex, PutUser, readVars
    <3>3. CASE ringbufffputc
      BY <3>3 DEF ringbufffputc, WakeUp, readVars
    <3>4. CASE UNCHANGED vars
      BY <3>4 DEF vars
    <3> QED BY <3>1, <3>2, <3>3, <3>4 DEF Next
  <2>3. CASE UNCHANGED vars
    BY <2>3, <2>a DEF vars, InFilledPart, Held, Loaded, InOrder, NextNumber, ringbuffempty_for_read
  <2>4. CASE ringbufffputc
    <3>1. cpu = Nobody /\ last' = last + 1 /\ UNCHANGED <<cpu, c, pos, i, got, alone>>
      BY <2>4 DEF ringbufffputc, readVars
    <3>2. \A p \in Readers : /\ rpc[p] # "store" /\ rpc'[p] # "store"
                             /\ rpc'[p] \in {"get", "put"} => rpc'[p] = rpc[p]
      BY <2>4, <3>1, MyMsgAssumption DEF ringbufffputc, WakeUp, Loaded
    <3>3. /\ InFilledPart'
          /\ \/ NextNumber' = NextNumber
             \/ NextNumber' = NextNumber + 1 /\ NextNumber' <= last' - (N - 1) + 1
      BY <2>4, PutMovesReader
    <3>4. ASSUME NEW x \in Nat, Follows(x, NextNumber, last)
          PROVE  Follows(x, NextNumber', last')
      BY <2>1, <3>1, <3>3, <3>4, FollowsKept
    <3>5. ASSUME NEW x \in Nat, NEW y \in Nat, Follows(x, y, last)
          PROVE  Follows(x, y, last')
      BY <2>1, <3>1, <3>5, FollowsKept
    <3>6. InOrder'
      BY <2>1, <3>1, <3>2, <3>4, <3>5 DEF InOrder
    <3> QED BY <2>a, <3>2, <3>3, <3>6 DEF Loaded
  <2>5. CASE UNCHANGED <<ringVars, mylog_r_for_read>>
    <3>1. InFilledPart' /\ NextNumber' = NextNumber /\ last' = last
          /\ ringbuffempty_for_read' = ringbuffempty_for_read
      BY <2>5 DEF ringVars, InFilledPart, Held, NextNumber, ringbuffempty_for_read
    <3>2. ASSUME NEW p \in Readers, Close(p) \/ Wait(p) \/ Interrupted(p)
          PROVE  Loaded' /\ InOrder'
      <4>1. \A q \in Readers : rpc[q] # "store"
        BY <3>2, MyMsgAssumption DEF Close, Wait, Interrupted, Loaded
      <4>2. \A q \in Readers : \/ rpc'[q] = rpc[q]
                               \/ rpc'[q] \in {"closed", "open", "asleep"}
                               \/ rpc'[q] = "get" /\ i[q] = 0
        <5>1. \A q \in Readers : q # p => rpc'[q] = rpc[q]
          BY <3>2 DEF Close, Wait, Interrupted, TypeOK
        <5>2. rpc'[p] \in {"closed", "open", "asleep"} \/ (rpc'[p] = "get" /\ rpc[p] = "wait")
          BY <3>2 DEF Close, Wait, Interrupted, TypeOK
        <5> QED BY <5>1, <5>2 DEF NoneGiven
      <4>3. UNCHANGED <<c, i, got, alone>>
        BY <3>2 DEF Close, Wait, Interrupted, readVars
      <4> QED BY <3>1, <2>1, <4>1, <4>2, <4>3 DEF Loaded, InOrder
    <3>3. ASSUME NEW p \in Readers, NEW n \in Counts, mymsg_read(p, n)
          PROVE  Loaded' /\ InOrder'
      BY <3>3, <2>5, <3>1 DEF mymsg_read, Loaded, InOrder, TypeOK
    <3>4. ASSUME NEW p \in Readers, GetChar(p)
          PROVE  Loaded' /\ InOrder'
      <4>1. \A q \in Readers : rpc[q] # "store"
        BY <3>4, MyMsgAssumption DEF GetChar, Loaded
      <4>2. UNCHANGED <<i, got, alone>> /\ rpc[p] = "get"
        BY <3>4 DEF GetChar
      <4>3. CASE ringbuffempty_for_read
        <5>1. rpc' = [rpc EXCEPT ![p] = "open"] /\ UNCHANGED c
          BY <3>4, <4>3 DEF GetChar
        <5> QED BY <3>1, <4>1, <4>2, <5>1 DEF Loaded, InOrder, TypeOK
      <4>4. CASE ~ringbuffempty_for_read
        <5>1. /\ rpc' = [rpc EXCEPT ![p] = "store"] /\ cpu' = p
              /\ c' = [c EXCEPT ![p] = NextNumber]
              /\ pos' = [pos EXCEPT ![p] = mylog_r_for_read]
          BY <2>2, <3>4, <4>4 DEF GetChar
        <5>2. mylog_r_for_read' = mylog_r_for_read
          BY <2>5
        <5>3. Loaded'
          BY <3>1, <4>1, <4>4, <5>1, <5>2 DEF Loaded, TypeOK
        <5>4. \A q \in Readers : q # p => rpc'[q] = rpc[q] /\ c'[q] = c[q]
          BY <5>1 DEF TypeOK
        <5>5. rpc'[p] = "store" /\ c'[p] = NextNumber
          BY <5>1 DEF TypeOK
        <5> QED BY <3>1, <4>2, <5>3, <5>4, <5>5 DEF InOrder
      <4> QED BY <4>3, <4>4
    <3>5. ASSUME NEW p \in Readers, PutUser(p)
          PROVE  Loaded' /\ InOrder'
      BY <3>5, <2>1, <2>5, <3>1 DEF PutUser, Loaded, InOrder, TypeOK
    <3>6. ASSUME NEW p \in Readers, mymsg_open(p)
          PROVE  Loaded' /\ InOrder'
      BY <3>6, <2>5, <3>1 DEF mymsg_open, Loaded, InOrder, TypeOK, readVars
    <3>7. ASSUME NEW p \in Readers, StoreIndex(p)
          PROVE  FALSE
      BY <3>7, <2>5, SuccType DEF StoreIndex, Loaded, TypeOK, Succ, Index
    <3>8. ~ringbufffputc
      BY <2>1, <2>5 DEF ringbufffputc, ringVars
    <3> QED
      BY <2>a, <2>3, <3>1, <3>2, <3>3, <3>4, <3>5, <3>6, <3>7, <3>8 DEF Next
  <2>6. ASSUME NEW p \in Readers, mymsg_open(p)
        PROVE  InFilledPart' /\ Loaded' /\ InOrder'
    <3>1. InFilledPart'
      BY <2>6, DistSelf, DistType DEF mymsg_open, InFilledPart, Held, ringVars, TypeOK, Index
    <3>2. \A q \in Readers : rpc'[q] # "store"
      BY <2>6, MyMsgAssumption DEF mymsg_open, Loaded, TypeOK
    <3>3. \A q \in Readers : alone'[q] => rpc'[q] = "open"
      BY <2>6 DEF mymsg_open, TypeOK
    <3> QED BY <3>1, <3>2, <3>3 DEF Loaded, InOrder
  <2>7. ASSUME NEW p \in Readers, StoreIndex(p)
        PROVE  InFilledPart' /\ Loaded' /\ InOrder'
    <3>1. /\ cpu = p /\ pos[p] = mylog_r_for_read
          /\ mylog_r_for_read # mylog_w /\ c[p] = NextNumber
          /\ mylog_r_for_read' = Succ(mylog_r_for_read)
          /\ UNCHANGED <<mylog_r, mylog_w, last, c, i, got, alone>>
          /\ rpc' = [rpc EXCEPT ![p] = IF i[p] < count[p] THEN "put" ELSE "open"]
      BY <2>7 DEF StoreIndex, Loaded, ringbuffempty_for_read, ringVars, readVars
    <3>2. mylog_r \in Index /\ mylog_w \in Index /\ mylog_r_for_read \in Index
      BY DEF TypeOK
    <3>3. InFilledPart'
      BY <3>1, <3>2 DEF InFilledPart, Held, Dist, Succ, Index
    <3>4. NextNumber' = NextNumber + 1
      BY <2>1, <3>1, <3>2, DistFromSucc, DistType DEF NextNumber, Index
    <3>5. \A q \in Readers : q # p => rpc[q] # "store"
      BY <3>1 DEF Loaded
    <3>6. Loaded'
      BY <3>1, <3>5 DEF Loaded, TypeOK
    <3>7. ASSUME NEW q \in Readers, alone'[q]
          PROVE  /\ rpc'[q] = "get" /\ i'[q] > 0 => Follows(got'[q], NextNumber', last')
                 /\ rpc'[q] \in {"store", "put"} /\ i'[q] > 0 => Follows(got'[q], c'[q], last')
                 /\ rpc'[q] = "put" => Follows(c'[q], NextNumber', last')
      <4>1. q = p
        BY <2>7, <3>1, <3>7 DEF OthersClosed, StoreIndex
      <4>2. Follows(c[p], NextNumber', last)
        BY <3>1, <3>4 DEF Follows
      <4>3. i[p] > 0 => Follows(got[p], c[p], last)
        BY <2>7, <3>1, <3>7, <4>1 DEF InOrder, StoreIndex
      <4>4. rpc'[p] \in {"put", "open"}
        BY <3>1 DEF TypeOK
      <4> QED BY <3>1, <4>1, <4>2, <4>3, <4>4
    <3> QED BY <3>3, <3>6, <3>7 DEF InOrder
  <2>8. ASSUME NEW p \in Readers, Close(p) \/ Wait(p) \/ Interrupted(p) \/ GetChar(p) \/ PutUser(p)
        PROVE  UNCHANGED <<ringVars, mylog_r_for_read>>
    BY <2>8 DEF Close, Wait, Interrupted, GetChar, PutUser
  <2>9. ASSUME NEW p \in Readers, NEW n \in Counts, mymsg_read(p, n)
        PROVE  UNCHANGED <<ringVars, mylog_r_for_read>>
    BY <2>9 DEF mymsg_read
  <2> QED
    BY <2>a, <2>3, <2>4, <2>5, <2>6, <2>7, <2>8, <2>9 DEF Next
<1> QED
  BY <1>1, <1>2, TypeCorrect, BufferIsTail, AloneInvariant, PTL DEF Spec, OrderInv

(* Within a call of read, a reader that has the file for itself is given   *)
(* the next character each time, or the oldest one that was not            *)
(* overwritten, when interrupt handlers do not log.                        *)
THEOREM ReadsInOrder ==
    ASSUME IrqLogs = FALSE
    PROVE  Spec => ReadInOrder
<1>1. ASSUME TypeOK, OrderInv, [Next]_vars,
             NEW p \in Readers, Given(p), alone[p], i[p] > 0
      PROVE  NextOrOverwritten(p)
  <2>1. got'[p] = c[p]
    <3>1. ASSUME NEW q \in Readers, PutUser(q)
          PROVE  got'[p] = c[p]
      BY <1>1, <3>1 DEF PutUser, Given, TypeOK
    <3>2. ASSUME NEW q \in Readers, StoreIndex(q) \/ GetChar(q) \/ Wait(q) \/ Interrupted(q)
                                      \/ Close(q) \/ mymsg_open(q)
          PROVE  FALSE
      BY <1>1, <3>2 DEF StoreIndex, GetChar, Wait, Interrupted, Close, mymsg_open, Given, TypeOK
    <3>3. ASSUME NEW q \in Readers, NEW n \in Counts, mymsg_read(q, n)
          PROVE  FALSE
      BY <1>1, <3>3 DEF mymsg_read, Given, TypeOK
    <3>4. ~ringbufffputc
      BY <1>1 DEF ringbufffputc, WakeUp, Given, TypeOK
    <3>5. ~UNCHANGED vars
      BY <1>1 DEF vars, Given
    <3> QED BY <1>1, <3>1, <3>2, <3>3, <3>4, <3>5 DEF Next
  <2>2. Follows(got[p], c[p], last)
    BY <1>1 DEF OrderInv, InOrder, Given
  <2> QED BY <2>1, <2>2 DEF NextOrOverwritten, Follows
<1>2. TypeOK /\ OrderInv /\ [Next]_vars
        => [\A p \in Readers : (Given(p) /\ alone[p] /\ i[p] > 0) => NextOrOverwritten(p)]_vars
  BY <1>1
<1> QED
  BY <1>2, TypeCorrect, OrderInvariant, PTL DEF Spec, ReadInOrder
===============================================================================
