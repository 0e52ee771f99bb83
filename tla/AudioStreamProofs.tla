-------------------------- MODULE AudioStreamProofs ---------------------------
(***************************************************************************)
(* Proofs about AudioStream, for any samples, any shapes of the ring with  *)
(* two fragments or more, and calls of any length.                         *)
(***************************************************************************)
EXTENDS AudioStream, TLAPS

RingType == /\ buffers \in BOOLEAN /\ failed \in BOOLEAN
            /\ shape \in Shapes
            /\ size \in [Frags -> 0..fragsize]
            /\ sem \in [Frags -> {0, 1}]
            /\ mem \in [Frags -> Contents]
            /\ buf_idx \in Frags
            /\ dma \in Seq(Frags \X (1..fragsize))

CallType == /\ file \in {"closed", "write", "read"}
            /\ nonblock \in BOOLEAN /\ closing \in BOOLEAN
            /\ pc \in {"idle", "write", "read", "sync", "await", "synced", "poll", "woken"}
            /\ data \in UpTo(MaxCount)
            /\ count \in 0..MaxCount
            /\ waitq \in Frags
            /\ moved \in Seq(Unit)

(* What the process may be doing, and how it finds the ring.  poll leaves  *)
(* no wait queue behind, and a ring that is not allocated is as Init.      *)
Phase == /\ pc # "idle" => file # "closed"
         /\ pc \in {"write", "sync", "await"} => file = "write" /\ buffers
         /\ pc = "read" => file = "read" /\ buffers
         /\ pc \in {"poll", "woken"} => buffers
         /\ pc \notin {"poll", "woken"} => waitq = 0
         /\ ~buffers => buf_idx = 0 /\ dma = <<>> /\ size = [f \in Frags |-> 0]

(* The fragments queued are distinct and their semaphores taken, also      *)
(* after the DMA has refused one.                                          *)
Queued == /\ \A i \in 1..Len(dma) : sem[dma[i][1]] = 0
          /\ \A i, j \in 1..Len(dma) : dma[i][1] = dma[j][1] => i = j

(* The fragment k steps before fragment b of a ring of n, k in 1..n.       *)
Behind(b, k, n) == IF k <= b THEN b - k ELSE b + n - k

Order == buffers /\ ~failed =>
             /\ Len(dma) <= nbfrags
             /\ \A i \in 1..Len(dma) : dma[i][1] = Behind(buf_idx, Len(dma) - i + 1, nbfrags)
             /\ \A f \in Frags : sem[f] = 0 => \E i \in 1..Len(dma) : dma[i][1] = f

(* Why it is enough to wait for the previous fragment: it was queued last, *)
(* or refused, and nothing waits in any but the current one.               *)
LastQueued ==
    dma # <<>> => sem[Previous] = 0 /\ \A i \in 1..Len(dma) - 1 : dma[i][1] # Previous

Output == file = "write" =>
              /\ LastQueued
              /\ \A f \in Frags : f # buf_idx => size[f] = 0
              /\ pc \in {"await", "synced"} => size[buf_idx] = 0
              /\ pc = "synced" => dma = <<>>

AudioInv == RingType /\ CallType /\ Phase /\ Queued /\ Order /\ Output

-------------------------------------------------------------------------------
(* Shapes, and steps around a ring.                                        *)
LEMMA ShapeFacts ==
    ASSUME NEW sh \in Shapes
    PROVE  sh[1] \in Nat /\ sh[1] >= 2 /\ sh[2] \in Nat /\ sh[2] >= 1
<1>1. sh \in (Nat \ {0, 1}) \X (Nat \ {0})
  BY AudioAssumption
<1> QED BY <1>1

(* A ring has at least two fragments, of at least one unit each.           *)
LEMMA RingFacts ==
    ASSUME RingType
    PROVE  /\ nbfrags \in Nat /\ nbfrags >= 2 /\ fragsize \in Nat /\ fragsize >= 1
           /\ Frags = 0..nbfrags - 1 /\ 0 \in Frags /\ buf_idx \in Frags
<1>1. nbfrags \in Nat /\ nbfrags >= 2 /\ fragsize \in Nat /\ fragsize >= 1
  BY ShapeFacts DEF RingType, nbfrags, fragsize
<1> QED BY <1>1 DEF Frags, RingType

(* The fragment k places behind the current one, as an index modulo the    *)
(* length of the ring.                                                     *)
LEMMA BehindIs ==
    ASSUME NEW n \in Nat, n >= 2, NEW b \in 0..n - 1, NEW k \in 1..n
    PROVE  /\ Behind(b, k, n) \in 0..n - 1
           /\ (b + n - k) % n = Behind(b, k, n)
           /\ Behind(b, k, n) = b <=> k = n
           /\ \A l \in 1..n : Behind(b, k, n) = Behind(b, l, n) => k = l
<1>1. CASE k <= b
  <2>1. b + n - k = n * 1 + (b - k) /\ b - k \in 0..n - 1 /\ b + n - k \in n..2 * n - 1
    BY <1>1
  <2>2. (b + n - k) % n = b - k
    BY <2>1
  <2> QED BY <1>1, <2>1, <2>2 DEF Behind
<1>2. CASE k > b
  <2>1. b + n - k \in 0..n - 1
    BY <1>2
  <2>2. (b + n - k) % n = b + n - k
    BY <2>1
  <2> QED BY <1>2, <2>1, <2>2 DEF Behind
<1> QED BY <1>1, <1>2

(* Every fragment is some number of places behind the current one.         *)
LEMMA BehindAll ==
    ASSUME NEW n \in Nat, n >= 2, NEW b \in 0..n - 1, NEW f \in 0..n - 1
    PROVE  \E k \in 1..n : Behind(b, k, n) = f
<1>1. CASE f < b
  <2>1. b - f \in 1..n /\ Behind(b, b - f, n) = f
    BY <1>1 DEF Behind
  <2> QED BY <2>1
<1>2. CASE f >= b
  <2>1. b + n - f \in 1..n /\ Behind(b, b + n - f, n) = f
    BY <1>2 DEF Behind
  <2> QED BY <2>1
<1> QED BY <1>1, <1>2

(* When NEXT_BUF moves on, the fragment just left is one place behind.     *)
LEMMA BehindNext ==
    ASSUME NEW n \in Nat, n >= 2, NEW b \in 0..n - 1
    PROVE  /\ (b + 1) % n \in 0..n - 1
           /\ (b + 1) % n # b
           /\ Behind((b + 1) % n, 1, n) = b
           /\ \A k \in 1..n - 1 : Behind((b + 1) % n, k + 1, n) = Behind(b, k, n)
<1>1. CASE b + 1 < n
  <2>1. (b + 1) % n = b + 1
    BY <1>1
  <2> QED BY <1>1, <2>1 DEF Behind
<1>2. CASE b + 1 = n
  <2>1. (b + 1) % n = 0
    BY <1>2
  <2> QED BY <1>2, <2>1 DEF Behind
<1> QED BY <1>1, <1>2

(* The fragment that sync waits for is another one than the current one.   *)
LEMMA PreviousIs ==
    ASSUME RingType
    PROVE  /\ Previous = Behind(buf_idx, 1, nbfrags)
           /\ Previous \in Frags /\ Previous # buf_idx
<1>1. /\ nbfrags \in Nat /\ nbfrags >= 2 /\ Frags = 0..nbfrags - 1 /\ buf_idx \in 0..nbfrags - 1
  BY RingFacts
<1>2. 1 \in 1..nbfrags /\ nbfrags + buf_idx - 1 = buf_idx + nbfrags - 1 /\ nbfrags # 1
  BY <1>1
<1>3. /\ Behind(buf_idx, 1, nbfrags) \in 0..nbfrags - 1
      /\ (buf_idx + nbfrags - 1) % nbfrags = Behind(buf_idx, 1, nbfrags)
      /\ Behind(buf_idx, 1, nbfrags) # buf_idx
  BY <1>1, <1>2, BehindIs
<1> QED BY <1>1, <1>2, <1>3 DEF Previous

(* NEXT_BUF takes every fragment one place further behind.                 *)
LEMMA NextIdxIs ==
    ASSUME RingType, buf_idx' = NextIdx, UNCHANGED shape
    PROVE  /\ buf_idx' \in Frags /\ buf_idx' # buf_idx
           /\ Previous' = buf_idx
           /\ \A k \in 1..nbfrags - 1 : Behind(buf_idx', k + 1, nbfrags) = Behind(buf_idx, k, nbfrags)
           /\ Behind(buf_idx', 1, nbfrags) = buf_idx
<1>1. /\ nbfrags \in Nat /\ nbfrags >= 2 /\ Frags = 0..nbfrags - 1 /\ buf_idx \in 0..nbfrags - 1
      /\ nbfrags' = nbfrags
  BY RingFacts DEF nbfrags
<1>2. /\ buf_idx' = (buf_idx + 1) % nbfrags /\ buf_idx' \in 0..nbfrags - 1 /\ buf_idx' # buf_idx
      /\ Behind(buf_idx', 1, nbfrags) = buf_idx
      /\ \A k \in 1..nbfrags - 1 : Behind(buf_idx', k + 1, nbfrags) = Behind(buf_idx, k, nbfrags)
  BY <1>1, BehindNext DEF NextIdx
<1>3. Previous' = (buf_idx' + nbfrags - 1) % nbfrags
  <2>1. nbfrags + buf_idx' - 1 = buf_idx' + nbfrags - 1
    BY <1>1, <1>2
  <2> QED BY <1>1, <2>1 DEF Previous
<1>4. 1 \in 1..nbfrags
  BY <1>1
<1>5. Previous' = Behind(buf_idx', 1, nbfrags)
  <2>1. buf_idx' \in 0..nbfrags - 1
    BY <1>2
  <2>2. (buf_idx' + nbfrags - 1) % nbfrags = Behind(buf_idx', 1, nbfrags)
    BY <1>1, <1>4, <2>1, BehindIs
  <2> QED BY <1>3, <2>2
<1> QED BY <1>1, <1>2, <1>5

(* The sequences the calls work on.                                        *)
LEMMA UpToIs ==
    ASSUME NEW n \in Nat
    PROVE  \A s : s \in UpTo(n) <=> s \in Seq(Unit) /\ Len(s) <= n
<1>1. ASSUME NEW s \in UpTo(n)
      PROVE  s \in Seq(Unit) /\ Len(s) <= n
  <2>1. PICK k \in 0..n : s \in [1..k -> Unit]
    BY DEF UpTo
  <2> QED BY <2>1
<1>2. ASSUME NEW s \in Seq(Unit), Len(s) <= n
      PROVE  s \in UpTo(n)
  <2>1. Len(s) \in 0..n /\ s \in [1..Len(s) -> Unit]
    BY <1>2
  <2> QED BY <2>1 DEF UpTo
<1> QED BY <1>1, <1>2

(* The memory that audio_setup_buf gets is that of a ring.                 *)
LEMMA BlankIs ==
    ASSUME NEW sh \in Shapes
    PROVE  Blank(sh) \in [0..(sh[1] - 1) -> [1..sh[2] -> Unit]]
<1>1. (CHOOSE u \in Unit : TRUE) \in Unit
  BY AudioAssumption
<1> QED BY <1>1 DEF Blank

(* A part of a fragment is a sequence of units.                            *)
LEMMA PartType ==
    ASSUME NEW n \in Nat, NEW c \in [1..n -> Unit], NEW i \in 1..n + 1, NEW j \in 0..n
    PROVE  SubSeq(c, i, j) \in Seq(Unit)
<1>1. c \in Seq(Unit) /\ Len(c) = n
  OBVIOUS
<1> QED BY <1>1

-------------------------------------------------------------------------------
(* What happens to the ring: it is emptied, a fragment is queued or        *)
(* refused, the oldest one comes back.                                     *)
LEMMA EmptyRing ==
    ASSUME NEW sh \in Shapes, NEW a \in BOOLEAN, Ring(a, sh)
    PROVE  /\ RingType' /\ Queued' /\ Order' /\ LastQueued'
           /\ buffers' = a /\ buf_idx' = 0 /\ dma' = <<>> /\ 0 \in Frags'
           /\ size' = [f \in Frags' |-> 0] /\ \A f \in Frags' : size'[f] = 0
<1>1. /\ shape' = sh /\ buffers' = a /\ buf_idx' = 0 /\ dma' = <<>> /\ failed' = FALSE
      /\ size' = [f \in 0..(sh[1] - 1) |-> 0] /\ sem' = [f \in 0..(sh[1] - 1) |-> 1]
      /\ mem' = Blank(sh)
  BY DEF Ring
<1>2. sh[1] \in Nat /\ sh[1] >= 2 /\ sh[2] \in Nat /\ sh[2] >= 1
  BY ShapeFacts
<1>3. /\ nbfrags' = sh[1] /\ fragsize' = sh[2] /\ Frags' = 0..(sh[1] - 1) /\ 0 \in Frags'
      /\ Contents' = [1..sh[2] -> Unit]
  BY <1>1, <1>2 DEF nbfrags, fragsize, Frags, Contents
<1>4. RingType'
  <2>1. mem' \in [Frags' -> Contents']
    BY <1>1, <1>3, BlankIs
  <2>2. size' \in [Frags' -> 0..fragsize'] /\ sem' \in [Frags' -> {0, 1}]
    BY <1>1, <1>2, <1>3
  <2>3. dma' \in Seq(Frags' \X (1..fragsize')) /\ buf_idx' \in Frags'
    BY <1>1, <1>3
  <2> QED BY <1>1, <2>1, <2>2, <2>3 DEF RingType
<1>5. Queued' /\ LastQueued'
  BY <1>1 DEF Queued, LastQueued
<1>6. Order'
  BY <1>1, <1>2, <1>3 DEF Order
<1> QED BY <1>1, <1>3, <1>4, <1>5, <1>6

(* The current fragment is queued: the queue stays in the order of the     *)
(* ring.                                                                   *)
LEMMA Enqueued ==
    ASSUME RingType, Queued, Order, sem[buf_idx] = 1, NEW m \in 1..fragsize,
           sem' = [sem EXCEPT ![buf_idx] = 0], Enqueue(buf_idx, m), buf_idx' = NextIdx,
           UNCHANGED <<shape, buffers>>
    PROVE  /\ sem' \in [Frags -> {0, 1}] /\ buf_idx' \in Frags /\ buf_idx' # buf_idx
           /\ dma' \in Seq(Frags \X (1..fragsize)) /\ failed' = failed
           /\ Queued' /\ Order' /\ LastQueued'
<1> DEFINE L == Len(dma)
<1>1. /\ nbfrags \in Nat /\ nbfrags >= 2 /\ Frags = 0..nbfrags - 1 /\ buf_idx \in Frags
      /\ nbfrags' = nbfrags /\ Frags' = Frags
  BY RingFacts DEF nbfrags, Frags
<1>2. /\ dma \in Seq(Frags \X (1..fragsize)) /\ L \in Nat
      /\ dma' = Append(dma, <<buf_idx, m>>) /\ failed' = failed
      /\ sem \in [Frags -> {0, 1}]
  BY DEF RingType, Enqueue
<1>3. /\ buf_idx' \in Frags /\ buf_idx' # buf_idx /\ Previous' = buf_idx
      /\ \A k \in 1..nbfrags - 1 : Behind(buf_idx', k + 1, nbfrags) = Behind(buf_idx, k, nbfrags)
      /\ Behind(buf_idx', 1, nbfrags) = buf_idx
  BY NextIdxIs
<1>4. /\ Len(dma') = L + 1 /\ dma'[L + 1] = <<buf_idx, m>>
      /\ \A i \in 1..L : dma'[i] = dma[i] /\ dma'[i][1] \in Frags
      /\ dma' \in Seq(Frags \X (1..fragsize))
  BY <1>1, <1>2
<1>5. dma'[L + 1][1] = buf_idx
  BY <1>4
<1>6. \A i \in 1..L : sem[dma[i][1]] = 0 /\ dma[i][1] # buf_idx
  BY DEF Queued
<1>7. /\ sem' \in [Frags -> {0, 1}] /\ sem'[buf_idx] = 0
      /\ \A f \in Frags : f # buf_idx => sem'[f] = sem[f]
  BY <1>1, <1>2
<1>8. Queued'
  <2>1. ASSUME NEW i \in 1..L + 1
        PROVE  sem'[dma'[i][1]] = 0
    BY <1>2, <1>4, <1>5, <1>6, <1>7
  <2>2. ASSUME NEW i \in 1..L + 1, NEW j \in 1..L + 1, dma'[i][1] = dma'[j][1]
        PROVE  i = j
    <3>1. CASE i = L + 1 \/ j = L + 1
      BY <1>2, <1>4, <1>5, <1>6, <2>2, <3>1
    <3>2. CASE i \in 1..L /\ j \in 1..L
      BY <1>4, <2>2, <3>2 DEF Queued
    <3> QED BY <1>2, <3>1, <3>2
  <2> QED BY <1>4, <2>1, <2>2 DEF Queued
<1>9. LastQueued'
  BY <1>2, <1>3, <1>4, <1>6, <1>7 DEF LastQueued
<1>10. Order'
  <2> SUFFICES ASSUME buffers', ~failed'
               PROVE  /\ Len(dma') <= nbfrags'
                      /\ \A i \in 1..Len(dma') :
                             dma'[i][1] = Behind(buf_idx', Len(dma') - i + 1, nbfrags')
                      /\ \A f \in Frags' : sem'[f] = 0 => \E i \in 1..Len(dma') : dma'[i][1] = f
    BY DEF Order
  <2>0. buffers /\ ~failed
    BY <1>2
  <2>1. /\ L <= nbfrags
        /\ \A i \in 1..L : dma[i][1] = Behind(buf_idx, L - i + 1, nbfrags)
        /\ \A f \in Frags : sem[f] = 0 => \E i \in 1..L : dma[i][1] = f
    BY <2>0 DEF Order
  <2>2. L < nbfrags
    <3> SUFFICES ASSUME L = nbfrags PROVE FALSE
      BY <1>1, <1>2, <2>1
    <3>1. 1 \in 1..L /\ L - 1 + 1 = nbfrags /\ nbfrags \in 1..nbfrags /\ buf_idx \in 0..nbfrags - 1
      BY <1>1
    <3>2. Behind(buf_idx, nbfrags, nbfrags) = buf_idx
      BY <1>1, <3>1, BehindIs
    <3>3. dma[1][1] = buf_idx
      BY <2>1, <3>1, <3>2
    <3> QED BY <1>6, <3>1, <3>3
  <2>3. ASSUME NEW i \in 1..L + 1
        PROVE  dma'[i][1] = Behind(buf_idx', L + 1 - i + 1, nbfrags)
    <3>1. CASE i = L + 1
      <4>1. L + 1 - i + 1 = 1
        BY <1>2, <3>1
      <4> QED BY <1>3, <1>5, <3>1, <4>1
    <3>2. CASE i \in 1..L
      <4>1. L - i + 1 \in 1..nbfrags - 1 /\ L + 1 - i + 1 = (L - i + 1) + 1
        BY <1>1, <1>2, <2>2, <3>2
      <4>2. Behind(buf_idx', L + 1 - i + 1, nbfrags) = Behind(buf_idx, L - i + 1, nbfrags)
        BY <1>3, <4>1
      <4> QED BY <1>4, <2>1, <3>2, <4>2
    <3> QED BY <1>2, <3>1, <3>2
  <2>4. ASSUME NEW f \in Frags, sem'[f] = 0
        PROVE  \E i \in 1..L + 1 : dma'[i][1] = f
    <3>1. CASE f = buf_idx
      BY <1>2, <1>5, <3>1
    <3>2. CASE f # buf_idx
      <4>1. PICK i \in 1..L : dma[i][1] = f
        BY <1>7, <2>1, <2>4, <3>2
      <4> QED BY <1>2, <1>4, <4>1
    <3> QED BY <3>1, <3>2
  <2>5. L + 1 <= nbfrags
    BY <1>1, <1>2, <2>2
  <2>6. Len(dma') = L + 1 /\ nbfrags' = nbfrags /\ Frags' = Frags
    BY <1>1, <1>4
  <2> QED BY <2>3, <2>4, <2>5, <2>6
<1> QED BY <1>2, <1>3, <1>4, <1>7, <1>8, <1>9, <1>10

(* An enqueue that fails leaves a fragment with semaphore 0 outside the    *)
(* queue.                                                                  *)
LEMMA Refused ==
    ASSUME RingType, Queued, sem[buf_idx] = 1,
           sem' = [sem EXCEPT ![buf_idx] = 0], Refuse, UNCHANGED shape,
           buf_idx' = NextIdx \/ buf_idx' = buf_idx
    PROVE  /\ sem' \in [Frags -> {0, 1}] /\ buf_idx' \in Frags
           /\ dma' \in Seq(Frags \X (1..fragsize)) /\ failed' = TRUE
           /\ Queued' /\ Order'
           /\ buf_idx' = NextIdx \/ LastQueued => LastQueued'
           /\ buf_idx' = NextIdx => buf_idx' # buf_idx
<1>1. /\ nbfrags \in Nat /\ nbfrags >= 2 /\ buf_idx \in Frags
      /\ sem \in [Frags -> {0, 1}] /\ dma \in Seq(Frags \X (1..fragsize))
  BY RingFacts DEF RingType
<1>2. dma' = dma /\ failed' = TRUE
  BY DEF Refuse
<1>3. /\ sem' \in [Frags -> {0, 1}] /\ sem'[buf_idx] = 0
      /\ \A f \in Frags : f # buf_idx => sem'[f] = sem[f]
  BY <1>1
<1>4. \A i \in 1..Len(dma) : dma[i][1] \in Frags /\ sem[dma[i][1]] = 0 /\ dma[i][1] # buf_idx
  BY <1>1 DEF Queued
<1>5. Queued'
  BY <1>2, <1>3, <1>4 DEF Queued
<1>6. Order'
  BY <1>2 DEF Order
<1>7. CASE buf_idx' = NextIdx
  <2>1. buf_idx' \in Frags /\ Previous' = buf_idx /\ buf_idx' # buf_idx
    BY <1>7, NextIdxIs
  <2>2. LastQueued'
    <3>1. \A i \in 1..Len(dma) - 1 : dma[i][1] # buf_idx
      BY <1>1, <1>4
    <3> QED BY <1>2, <1>3, <2>1, <3>1 DEF LastQueued
  <2> QED BY <1>1, <1>2, <1>3, <1>5, <1>6, <2>1, <2>2
<1>8. CASE buf_idx' = buf_idx
  <2>1. Previous' = Previous /\ Previous \in Frags /\ Previous # buf_idx
    BY <1>8, PreviousIs DEF Previous, nbfrags
  <2>2. NextIdx # buf_idx
    <3>1. (buf_idx + 1) % nbfrags # buf_idx
      BY RingFacts, BehindNext
    <3> QED BY <3>1 DEF NextIdx
  <2>3. LastQueued => LastQueued'
    BY <1>2, <1>3, <2>1 DEF LastQueued
  <2> QED BY <1>1, <1>2, <1>3, <1>5, <1>6, <1>8, <2>2, <2>3
<1> QED BY <1>7, <1>8

(* A fragment that the DMA is done with leaves the queue at its head.      *)
LEMMA Done ==
    ASSUME RingType, Queued, Order, dma # <<>>,
           sem' = [sem EXCEPT ![Head(dma)[1]] = @ + 1], dma' = Tail(dma),
           UNCHANGED <<shape, buffers, buf_idx, failed>>
    PROVE  /\ sem' \in [Frags -> {0, 1}]
           /\ dma' \in Seq(Frags \X (1..fragsize))
           /\ Head(dma)[1] \in Frags /\ Head(dma)[2] \in 1..fragsize
           /\ Queued' /\ Order' /\ (LastQueued => LastQueued')
<1> DEFINE L == Len(dma)
           f == Head(dma)[1]
<1>1. /\ sem \in [Frags -> {0, 1}] /\ dma \in Seq(Frags \X (1..fragsize))
      /\ nbfrags \in Nat /\ nbfrags >= 2 /\ nbfrags' = nbfrags /\ Frags' = Frags
  BY RingFacts DEF RingType, nbfrags, Frags
<1>2. /\ L \in Nat /\ L >= 1 /\ Len(dma') = L - 1
      /\ dma' \in Seq(Frags \X (1..fragsize))
      /\ \A i \in 1..L - 1 : dma'[i] = dma[i + 1]
      /\ Head(dma) = dma[1] /\ dma[1] \in Frags \X (1..fragsize)
  BY <1>1
<1>3. f \in Frags /\ Head(dma)[2] \in 1..fragsize
  BY <1>2
<1>4. \A i \in 1..L : dma[i][1] \in Frags
  BY <1>1
<1>5. sem[f] = 0
  BY <1>2 DEF Queued
<1>6. /\ sem' \in [Frags -> {0, 1}] /\ sem'[f] = 1
      /\ \A g \in Frags : g # f => sem'[g] = sem[g]
  BY <1>1, <1>3, <1>5
<1>7. \A i \in 1..L - 1 : /\ i + 1 \in 1..L /\ dma'[i][1] = dma[i + 1][1]
                          /\ dma[i + 1][1] # f /\ dma[i + 1][1] \in Frags
  BY <1>2, <1>4 DEF Queued
<1>8. Queued'
  <2>1. ASSUME NEW i \in 1..L - 1
        PROVE  sem'[dma'[i][1]] = 0
    BY <1>6, <1>7 DEF Queued
  <2>2. ASSUME NEW i \in 1..L - 1, NEW j \in 1..L - 1, dma'[i][1] = dma'[j][1]
        PROVE  i = j
    <3>1. i + 1 = j + 1
      BY <1>7, <2>2 DEF Queued
    <3> QED BY <3>1
  <2> QED BY <1>2, <2>1, <2>2 DEF Queued
<1>9. Order'
  <2> SUFFICES ASSUME buffers, ~failed
               PROVE  /\ L - 1 <= nbfrags
                      /\ \A i \in 1..L - 1 :
                             dma'[i][1] = Behind(buf_idx, (L - 1) - i + 1, nbfrags)
                      /\ \A g \in Frags : sem'[g] = 0 => \E i \in 1..L - 1 : dma'[i][1] = g
    BY <1>1, <1>2 DEF Order
  <2>1. /\ L <= nbfrags
        /\ \A i \in 1..L : dma[i][1] = Behind(buf_idx, L - i + 1, nbfrags)
        /\ \A g \in Frags : sem[g] = 0 => \E i \in 1..L : dma[i][1] = g
    BY DEF Order
  <2>2. ASSUME NEW i \in 1..L - 1
        PROVE  dma'[i][1] = Behind(buf_idx, (L - 1) - i + 1, nbfrags)
    <3>1. L - (i + 1) + 1 = (L - 1) - i + 1
      BY <1>2
    <3> QED BY <1>7, <2>1, <3>1
  <2>3. ASSUME NEW g \in Frags, sem'[g] = 0
        PROVE  \E i \in 1..L - 1 : dma'[i][1] = g
    <3>1. g # f /\ sem[g] = 0
      BY <1>6, <2>3
    <3>2. PICK i \in 1..L : dma[i][1] = g
      BY <2>1, <3>1
    <3>3. i # 1
      BY <1>2, <3>1, <3>2
    <3>4. i - 1 \in 1..L - 1 /\ (i - 1) + 1 = i
      BY <1>2, <3>3
    <3> QED BY <1>7, <3>2, <3>4
  <2> QED BY <1>1, <1>2, <2>1, <2>2, <2>3
<1>10. ASSUME LastQueued PROVE LastQueued'
  <2>1. /\ Previous' = Previous /\ Previous \in Frags
        /\ sem[Previous] = 0 /\ \A i \in 1..L - 1 : dma[i][1] # Previous
    BY <1>10, PreviousIs DEF Previous, LastQueued, nbfrags
  <2> SUFFICES ASSUME dma' # <<>>
               PROVE  sem'[Previous] = 0 /\ \A i \in 1..Len(dma') - 1 : dma'[i][1] # Previous
    BY <2>1 DEF LastQueued
  <2>2. L > 1
    BY <1>2
  <2>3. f # Previous
    BY <1>2, <2>1, <2>2
  <2>4. \A i \in 1..(L - 1) - 1 : i + 1 \in 1..L - 1 /\ i \in 1..L - 1
    BY <1>2
  <2> QED BY <1>2, <1>6, <1>7, <2>1, <2>3, <2>4
<1> QED BY <1>2, <1>3, <1>6, <1>8, <1>9, <1>10

-------------------------------------------------------------------------------
(* Steps that leave the ring alone, and steps that empty it.               *)
LEMMA RingSame ==
    ASSUME AudioInv, UNCHANGED <<ringVars, failed>>
    PROVE  /\ RingType' /\ Queued' /\ Order' /\ (LastQueued => LastQueued')
           /\ Frags' = Frags
           /\ UNCHANGED <<shape, buffers, size, sem, mem, buf_idx, dma, failed>>
<1>1. UNCHANGED <<shape, buffers, size, sem, mem, buf_idx, dma, failed>>
  BY DEF ringVars
<1>2. UNCHANGED <<nbfrags, fragsize, Frags, Contents, Previous>>
  BY <1>1 DEF nbfrags, fragsize, Frags, Contents, Previous
<1>3. RingType'
  BY <1>1, <1>2 DEF AudioInv, RingType
<1>4. Queued' /\ Order' /\ (LastQueued => LastQueued')
  BY <1>1, <1>2 DEF AudioInv, Queued, Order, LastQueued
<1> QED BY <1>1, <1>2, <1>3, <1>4

(* The steps that leave the ring alone.                                    *)
LEMMA QuietStep ==
    ASSUME AudioInv, UNCHANGED <<ringVars, failed>>,
           SetNonBlock \/ CopyFails \/ Interrupted \/ Sync \/ SyncNoPart \/ AwaitPrevious
             \/ (pc \in {"synced", "await"} /\ SyncReturns) \/ PollAgain \/ PollEnds
    PROVE  AudioInv'
<1>1. /\ RingType' /\ Queued' /\ Order' /\ (LastQueued => LastQueued') /\ Frags' = Frags
      /\ UNCHANGED <<shape, buffers, size, sem, mem, buf_idx, dma, failed>>
  BY RingSame
<1>2. 0 \in Frags /\ <<>> \in UpTo(MaxCount) /\ 0 \in 0..MaxCount
  <2>1. MaxCount \in Nat /\ <<>> \in Seq(Unit) /\ Len(<<>>) <= MaxCount
    BY AudioAssumption
  <2>2. <<>> \in UpTo(MaxCount)
    BY <2>1, UpToIs
  <2> QED BY <2>1, <2>2, RingFacts DEF AudioInv
<1>3. /\ waitq' = waitq \/ waitq' = 0
      /\ data' = data \/ data' = <<>>
      /\ count' = count \/ count' = 0
      /\ file' = file /\ moved' = moved
  BY DEF SetNonBlock, CopyFails, Interrupted, Sync, SyncNoPart, AwaitPrevious, SyncReturns,
         PollAgain, PollEnds, Return, Stay, callVars
<1>4. CallType'
  <2>1. waitq' \in Frags' /\ data' \in UpTo(MaxCount) /\ count' \in 0..MaxCount
    BY <1>1, <1>2, <1>3 DEF AudioInv, CallType
  <2>2. nonblock' \in BOOLEAN /\ closing' \in BOOLEAN
    BY DEF SetNonBlock, CopyFails, Interrupted, Sync, SyncNoPart, AwaitPrevious, SyncReturns,
           PollAgain, PollEnds, Return, Stay, callVars, AudioInv, CallType
  <2>3. pc' \in {pc, "idle", "sync", "synced", "await", "poll"}
    BY DEF SetNonBlock, CopyFails, Interrupted, Sync, SyncNoPart, AwaitPrevious, SyncReturns,
           PollAgain, PollEnds, Return, Stay
  <2> QED BY <1>3, <2>1, <2>2, <2>3 DEF AudioInv, CallType
<1>5. Phase'
  <2>1. ~buffers' => buf_idx' = 0 /\ dma' = <<>> /\ size' = [f \in Frags' |-> 0]
    BY <1>1 DEF AudioInv, Phase
  <2>2. CASE SetNonBlock \/ CopyFails \/ Interrupted
    BY <1>1, <1>3, <2>1, <2>2 DEF SetNonBlock, CopyFails, Interrupted, Return, callVars,
                                  AudioInv, Phase
  <2>3. CASE Sync \/ SyncNoPart \/ AwaitPrevious \/ (pc \in {"synced", "await"} /\ SyncReturns)
    BY <1>1, <1>3, <2>1, <2>3 DEF Sync, Idle, SyncNoPart, AwaitPrevious, SyncReturns, Stay, callVars,
                                  AudioInv, Phase
  <2>4. CASE PollAgain \/ PollEnds
    BY <1>1, <1>3, <2>1, <2>4 DEF PollAgain, PollEnds, AudioInv, Phase
  <2> QED BY <2>2, <2>3, <2>4
<1>6. Output'
  <2> SUFFICES ASSUME file = "write"
               PROVE  /\ pc' \in {"await", "synced"} => size[buf_idx] = 0
                      /\ pc' = "synced" => dma = <<>>
    BY <1>1, <1>3 DEF AudioInv, Output
  <2>1. buf_idx \in Frags
    BY DEF AudioInv, RingType
  <2>2. CASE pc' \in {"await", "synced"} /\ pc \in {"await", "synced"}
    <3>1. size[buf_idx] = 0
      BY <2>2 DEF AudioInv, Output
    <3>2. pc' = "synced" => pc = "synced" \/ sem[Previous] = 1
      BY <2>2 DEF SetNonBlock, CopyFails, Interrupted, Sync, Idle, SyncNoPart, AwaitPrevious,
                  SyncReturns, PollAgain, PollEnds, Return, Stay
    <3> QED BY <3>1, <3>2 DEF AudioInv, Output, LastQueued
  <2>3. CASE pc' \in {"await", "synced"} /\ pc \notin {"await", "synced"}
    <3>1. \/ pc' = "await" /\ size[buf_idx] = 0
          \/ pc' = "synced" /\ ~buffers
      BY <2>3 DEF SetNonBlock, CopyFails, Interrupted, Sync, Idle, SyncNoPart, AwaitPrevious,
                  SyncReturns, PollAgain, PollEnds, Return, Stay
    <3> QED BY <2>1, <3>1 DEF AudioInv, Phase
  <2> QED BY <2>2, <2>3
<1> QED BY <1>1, <1>4, <1>5, <1>6 DEF AudioInv

(* A step that sets the ring up, or drops it, leaves nothing queued.       *)
LEMMA EmptyStep ==
    ASSUME AudioInv, NEW sh \in Shapes, NEW a \in BOOLEAN, Ring(a, sh), UNCHANGED waitq,
           pc = "idle" \/ pc' = "idle", pc \notin {"poll", "woken"},
           pc' \in {"idle", "write"}, file' \in {"closed", "write", "read"},
           pc' = "write" => file' = "write" /\ a = TRUE,
           nonblock' \in BOOLEAN, closing' \in BOOLEAN, data' \in UpTo(MaxCount),
           UNCHANGED <<count, moved>>
    PROVE  AudioInv'
<1>1. /\ RingType' /\ Queued' /\ Order' /\ LastQueued'
      /\ buffers' = a /\ buf_idx' = 0 /\ dma' = <<>> /\ 0 \in Frags'
      /\ size' = [f \in Frags' |-> 0] /\ \A f \in Frags' : size'[f] = 0
  BY EmptyRing
<1>2. waitq' = 0
  BY DEF AudioInv, Phase
<1>3. CallType'
  BY <1>1, <1>2 DEF AudioInv, CallType
<1>4. Phase'
  BY <1>1, <1>2 DEF Phase
<1>5. Output'
  BY <1>1 DEF Output
<1> QED BY <1>1, <1>3, <1>4, <1>5 DEF AudioInv

(* The operations that set the ring up or drop it.                         *)
LEMMA Emptied ==
    ASSUME AudioInv,
           \/ \E m \in {"write", "read"} : Open(m)
           \/ SetFragment \/ Reset
           \/ Write /\ ~buffers
           \/ Poll /\ ~buffers
           \/ SyncEnds /\ Release
    PROVE  AudioInv'
<1>0. /\ shape \in Shapes /\ Default \in Shapes /\ nonblock \in BOOLEAN /\ closing \in BOOLEAN
      /\ data \in UpTo(MaxCount) /\ file \in {"closed", "write", "read"}
      /\ file = "closed" => pc = "idle"
  BY AudioAssumption DEF AudioInv, RingType, CallType, Phase
<1>1. ASSUME NEW m \in {"write", "read"}, Open(m)
      PROVE  AudioInv'
  <2>1. /\ pc = "idle" /\ pc' = "idle" /\ nonblock' \in BOOLEAN /\ file' = m /\ Ring(FALSE, Default)
        /\ UNCHANGED <<data, count, closing, waitq, moved>>
    BY <1>0, <1>1 DEF Open, callVars
  <2> QED BY <1>0, <2>1, EmptyStep
<1>2. CASE SetFragment
  <2>1. PICK sh \in Shapes : Ring(TRUE, sh) \/ Ring(FALSE, sh)
    BY <1>2 DEF SetFragment, audio_setup_buf, SetupFails
  <2>2. pc = "idle" /\ UNCHANGED <<file, nonblock, pc, data, count, closing, waitq, moved>>
    BY <1>2 DEF SetFragment, Idle, callVars
  <2> QED BY <1>0, <2>1, <2>2, EmptyStep
<1>3. CASE Reset
  <2>1. Ring(FALSE, shape) /\ pc = "idle" /\ UNCHANGED <<file, nonblock, pc, data, count, closing, waitq, moved>>
    BY <1>3 DEF Reset, audio_clear_buf, Idle, callVars
  <2> QED BY <1>0, <2>1, EmptyStep
<1>4. CASE Write /\ ~buffers
  <2>1. /\ Ring(TRUE, shape) /\ pc = "idle" /\ pc' = "write" /\ file = "write"
        /\ data' \in UpTo(MaxCount)
        /\ UNCHANGED <<file, nonblock, count, closing, waitq, moved>>
    BY <1>4 DEF Write, audio_setup_buf, Idle
  <2> QED BY <1>0, <2>1, EmptyStep
<1>5. CASE Poll /\ ~buffers
  <2>1. /\ Ring(TRUE, shape) /\ pc = "idle" /\ UNCHANGED <<file, nonblock, pc, data, count, closing, waitq, moved>>
    BY <1>5 DEF Poll, audio_setup_buf, Idle
  <2> QED BY <1>0, <2>1, EmptyStep
<1>6. CASE SyncEnds /\ Release
  <2>1. /\ Ring(FALSE, shape) /\ pc \in {"synced", "await"} /\ pc' = "idle"
        /\ file' = "closed" /\ closing' = FALSE /\ UNCHANGED <<nonblock, data, count, waitq, moved>>
    BY <1>6 DEF SyncEnds, Release, audio_clear_buf
  <2> QED BY <1>0, <2>1, EmptyStep
<1> QED BY <1>1, <1>2, <1>3, <1>4, <1>5, <1>6

-------------------------------------------------------------------------------
(* The first steps of write, read and poll.                                *)
LEMMA WriteStep ==
    ASSUME AudioInv, Write
    PROVE  AudioInv'
<1>1. CASE ~buffers
  BY <1>1, Emptied
<1>2. CASE buffers
  <2>1. /\ file = "write" /\ pc' = "write" /\ data' \in UpTo(MaxCount) /\ pc = "idle"
        /\ UNCHANGED <<file, nonblock, count, closing, waitq, moved>>
        /\ UNCHANGED <<ringVars, failed>>
    BY <1>2 DEF Write, Idle
  <2>2. /\ RingType' /\ Queued' /\ Order' /\ (LastQueued => LastQueued') /\ Frags' = Frags
        /\ UNCHANGED <<shape, buffers, size, sem, mem, buf_idx, dma, failed>>
    BY <2>1, RingSame
  <2>3. CallType'
    BY <2>1, <2>2 DEF AudioInv, CallType
  <2>4. Phase' /\ Output'
    BY <1>2, <2>1, <2>2 DEF AudioInv, Phase, Output
  <2> QED BY <2>2, <2>3, <2>4 DEF AudioInv
<1> QED BY <1>1, <1>2 DEF AudioInv, RingType

(* One lemma for each of the other operations: poll,                       *)
LEMMA PollStep ==
    ASSUME AudioInv, Poll
    PROVE  AudioInv'
<1>1. CASE ~buffers
  BY <1>1, Emptied
<1>2. CASE buffers
  <2>1. /\ pc = "idle" /\ file # "closed"
        /\ UNCHANGED <<file, nonblock, data, count, closing, moved>>
        /\ UNCHANGED <<ringVars, failed>>
        /\ \/ UNCHANGED <<pc, waitq>>
           \/ pc' = "poll" /\ waitq' = buf_idx
    BY <1>2 DEF Poll, Idle
  <2>2. /\ RingType' /\ Queued' /\ Order' /\ (LastQueued => LastQueued') /\ Frags' = Frags
        /\ UNCHANGED <<shape, buffers, size, sem, mem, buf_idx, dma, failed>>
    BY <2>1, RingSame
  <2>3. CallType'
    BY <2>1, <2>2 DEF AudioInv, CallType, RingType
  <2>4. Phase' /\ Output'
    BY <1>2, <2>1, <2>2 DEF AudioInv, Phase, Output
  <2> QED BY <2>2, <2>3, <2>4 DEF AudioInv
<1> QED BY <1>1, <1>2 DEF AudioInv, RingType

(* a call of read, which queues the ring for input the first time,         *)
LEMMA ReadStep ==
    ASSUME AudioInv, Read
    PROVE  AudioInv'
<1>1. /\ pc = "idle" /\ file = "read" /\ count' \in 1..MaxCount /\ pc' = "read"
      /\ UNCHANGED <<file, nonblock, data, closing, waitq, moved>>
  BY DEF Read, Idle
<1>2. count' \in 0..MaxCount
  BY <1>1, AudioAssumption
<1>3. CASE buffers
  <2>1. UNCHANGED <<ringVars, failed>>
    BY <1>3 DEF Read
  <2>2. /\ RingType' /\ Queued' /\ Order' /\ Frags' = Frags
        /\ UNCHANGED <<shape, buffers, size, sem, mem, buf_idx, dma, failed>>
    BY <2>1, RingSame
  <2>3. CallType'
    BY <1>1, <1>2, <2>2 DEF AudioInv, CallType
  <2>4. Phase' /\ Output'
    BY <1>1, <1>3, <2>2 DEF AudioInv, Phase, Output
  <2> QED BY <2>2, <2>3, <2>4 DEF AudioInv
<1>4. CASE ~buffers
  <2>1. /\ buffers' = TRUE /\ sem' = [f \in Frags |-> 0] /\ (QueueAll \/ QueueSome)
        /\ UNCHANGED <<shape, size, mem, buf_idx>>
    BY <1>4 DEF Read
  <2>2. /\ UNCHANGED <<nbfrags, fragsize, Frags, Contents>>
    BY <2>1 DEF nbfrags, fragsize, Frags, Contents
  <2>3. /\ nbfrags \in Nat /\ nbfrags >= 2 /\ fragsize \in Nat /\ fragsize >= 1
        /\ Frags = 0..nbfrags - 1 /\ buf_idx = 0 /\ 0 \in Frags /\ fragsize \in 1..fragsize
    BY <1>4, RingFacts DEF AudioInv, Phase
  <2>4. sem' \in [Frags -> {0, 1}] /\ \A f \in Frags : sem'[f] = 0
    BY <2>1
  <2>5. SUFFICES /\ dma' \in Seq(Frags \X (1..fragsize)) /\ Queued' /\ Order' /\ failed' \in BOOLEAN
    <3> SUFFICES ASSUME dma' \in Seq(Frags \X (1..fragsize)), Queued', Order', failed' \in BOOLEAN
                 PROVE  AudioInv'
      OBVIOUS
    <3>1. RingType'
      BY <2>1, <2>2, <2>4 DEF AudioInv, RingType
    <3>2. CallType'
      BY <1>1, <1>2, <2>2 DEF AudioInv, CallType
    <3>3. Phase' /\ Output'
      BY <1>1, <2>1 DEF AudioInv, Phase, Output
    <3> QED BY <3>1, <3>2, <3>3 DEF AudioInv
  <2>6. CASE QueueAll
    <3>1. dma' = [i \in 1..nbfrags |-> <<i - 1, fragsize>>] /\ failed' = failed
      BY <2>6 DEF QueueAll
    <3>2. \A i \in 1..nbfrags : i - 1 \in Frags
      BY <2>3
    <3>3. dma' \in [1..nbfrags -> Frags \X (1..fragsize)]
      BY <2>3, <3>1, <3>2
    <3>4. /\ dma' \in Seq(Frags \X (1..fragsize)) /\ Len(dma') = nbfrags
          /\ \A i \in 1..nbfrags : dma'[i][1] = i - 1
      BY <2>3, <3>1, <3>3
    <3> HIDE <3>1, <3>3
    <3>5. Queued'
      <4>1. \A i \in 1..nbfrags : sem'[dma'[i][1]] = 0
        BY <2>4, <3>2, <3>4
      <4>2. \A i, j \in 1..nbfrags : dma'[i][1] = dma'[j][1] => i = j
        BY <2>3, <3>4
      <4> QED BY <3>4, <4>1, <4>2 DEF Queued
    <3>6. \A i \in 1..nbfrags : i - 1 = Behind(0, nbfrags - i + 1, nbfrags)
      BY <2>3 DEF Behind
    <3>7. \A f \in Frags : f + 1 \in 1..nbfrags /\ (f + 1) - 1 = f
      BY <2>3
    <3>8. \A f \in Frags : \E i \in 1..nbfrags : dma'[i][1] = f
      BY <3>4, <3>7
    <3>9. Order'
      BY <2>1, <2>2, <2>3, <3>4, <3>6, <3>8 DEF Order
    <3> QED BY <3>1, <3>4, <3>5, <3>9 DEF AudioInv, RingType
  <2>7. CASE QueueSome
    <3>1. PICK n \in 0..nbfrags - 1 : \E q \in [1..n -> Frags] :
              /\ \A i, j \in 1..n : i < j => q[i] < q[j]
              /\ dma' = [i \in 1..n |-> <<q[i], fragsize>>]
      BY <2>7 DEF QueueSome
    <3>2. PICK q \in [1..n -> Frags] : /\ \A i, j \in 1..n : i < j => q[i] < q[j]
                                       /\ dma' = [i \in 1..n |-> <<q[i], fragsize>>]
      BY <3>1
    <3>3. failed' = TRUE /\ n \in Nat
      BY <2>3, <2>7 DEF QueueSome
    <3>4. dma' \in [1..n -> Frags \X (1..fragsize)]
      BY <2>3, <3>2
    <3>5. /\ dma' \in Seq(Frags \X (1..fragsize)) /\ Len(dma') = n
          /\ \A i \in 1..n : dma'[i][1] = q[i] /\ q[i] \in Frags
      <4>1. dma' \in Seq(Frags \X (1..fragsize)) /\ Len(dma') = n
        BY <3>3, <3>4
      <4>2. ASSUME NEW i \in 1..n
            PROVE  dma'[i][1] = q[i] /\ q[i] \in Frags
        <5>1. dma'[i] = <<q[i], fragsize>>
          BY <3>2
        <5> QED BY <5>1
      <4> QED BY <4>1, <4>2
    <3>6. \A i, j \in 1..n : q[i] = q[j] => i = j
      <4> SUFFICES ASSUME NEW i \in 1..n, NEW j \in 1..n, q[i] = q[j] PROVE i = j
        OBVIOUS
      <4>1. q[i] \in Nat /\ q[j] \in Nat
        BY <2>3, <3>5
      <4>2. ~(i < j) /\ ~(j < i)
        BY <3>2, <4>1
      <4> QED BY <4>2
    <3>7. Queued'
      BY <2>4, <3>5, <3>6 DEF Queued
    <3> QED BY <3>3, <3>5, <3>7 DEF Order
  <2> QED BY <2>1, <2>6, <2>7
<1> QED BY <1>3, <1>4 DEF AudioInv, RingType

-------------------------------------------------------------------------------
(* The callbacks.                                                          *)
LEMMA OutDone ==
    ASSUME AudioInv, audio_dmaout_done_callback
    PROVE  AudioInv'
<1>1. /\ file = "write" /\ dma # <<>> /\ dma' = Tail(dma)
      /\ sem' = [sem EXCEPT ![Head(dma)[1]] = @ + 1]
      /\ moved' = SubSeq(mem[Head(dma)[1]], 1, Head(dma)[2])
      /\ WakePoll(Head(dma)[1])
      /\ UNCHANGED <<file, nonblock, shape, buffers, size, mem, buf_idx, failed>>
      /\ UNCHANGED <<data, count, closing, waitq>>
  BY DEF audio_dmaout_done_callback, callVars
<1>2. /\ sem' \in [Frags -> {0, 1}] /\ dma' \in Seq(Frags \X (1..fragsize))
      /\ Head(dma)[1] \in Frags /\ Head(dma)[2] \in 1..fragsize
      /\ Queued' /\ Order' /\ (LastQueued => LastQueued')
  BY <1>1, Done DEF AudioInv
<1>3. UNCHANGED <<nbfrags, fragsize, Frags, Contents>>
  BY <1>1 DEF nbfrags, fragsize, Frags, Contents
<1>4. RingType'
  BY <1>1, <1>2, <1>3 DEF AudioInv, RingType
<1>5. moved' \in Seq(Unit)
  <2>1. fragsize \in Nat /\ fragsize >= 1 /\ mem[Head(dma)[1]] \in [1..fragsize -> Unit]
    BY <1>2, RingFacts DEF AudioInv, RingType, Contents
  <2>2. 1 \in 1..fragsize + 1 /\ Head(dma)[2] \in 0..fragsize
    BY <1>2, <2>1
  <2> QED BY <1>1, <2>1, <2>2, PartType
<1>6. pc' = pc \/ (pc = "poll" /\ pc' = "woken")
  BY <1>1 DEF WakePoll
<1>7. CallType'
  BY <1>1, <1>3, <1>5, <1>6 DEF AudioInv, CallType
<1>8. Phase'
  BY <1>1, <1>3, <1>6 DEF AudioInv, Phase
<1>9. Output'
  BY <1>1, <1>2, <1>3, <1>6 DEF AudioInv, Output
<1> QED BY <1>2, <1>4, <1>7, <1>8, <1>9 DEF AudioInv

(* the callback of a fragment that was recorded.                           *)
LEMMA InDone ==
    ASSUME AudioInv, audio_dmain_done_callback
    PROVE  AudioInv'
<1>1. /\ file = "read" /\ dma # <<>> /\ dma' = Tail(dma)
      /\ sem' = [sem EXCEPT ![Head(dma)[1]] = @ + 1]
      /\ size' = [size EXCEPT ![Head(dma)[1]] = Head(dma)[2]]
      /\ \E s \in Contents : mem' = [mem EXCEPT ![Head(dma)[1]] = s]
      /\ WakePoll(Head(dma)[1])
      /\ UNCHANGED <<file, nonblock, shape, buffers, buf_idx, failed, moved>>
      /\ UNCHANGED <<data, count, closing, waitq>>
  BY DEF audio_dmain_done_callback, callVars
<1>2. /\ sem' \in [Frags -> {0, 1}] /\ dma' \in Seq(Frags \X (1..fragsize))
      /\ Head(dma)[1] \in Frags /\ Head(dma)[2] \in 1..fragsize
      /\ Queued' /\ Order'
  BY <1>1, Done DEF AudioInv
<1>3. UNCHANGED <<nbfrags, fragsize, Frags, Contents>>
  BY <1>1 DEF nbfrags, fragsize, Frags, Contents
<1>4. size' \in [Frags -> 0..fragsize] /\ mem' \in [Frags -> Contents]
  <2>1. Head(dma)[2] \in 0..fragsize
    BY <1>2, RingFacts DEF AudioInv
  <2> QED BY <1>1, <1>2, <2>1 DEF AudioInv, RingType
<1>5. RingType'
  BY <1>1, <1>2, <1>3, <1>4 DEF AudioInv, RingType
<1>6. pc' = pc \/ (pc = "poll" /\ pc' = "woken")
  BY <1>1 DEF WakePoll
<1>7. CallType'
  BY <1>1, <1>3, <1>6 DEF AudioInv, CallType
<1>8. Phase' /\ Output'
  BY <1>1, <1>3, <1>6 DEF AudioInv, Phase, Output
<1> QED BY <1>2, <1>5, <1>7, <1>8 DEF AudioInv

-------------------------------------------------------------------------------
(* The loops of write, read and audio_sync.                                *)
LEMMA ChunkIs ==
    ASSUME NEW n \in Nat, NEW room \in Nat
    PROVE  /\ Chunk(n, room) \in Nat /\ Chunk(n, room) <= n /\ Chunk(n, room) <= room
           /\ Chunk(n, room) < room => Chunk(n, room) = n
  BY DEF Chunk

(* What the invariant says of the current fragment.                        *)
LEMMA FragmentFacts ==
    ASSUME AudioInv
    PROVE  /\ fragsize \in Nat /\ fragsize >= 1 /\ MaxCount \in Nat
           /\ buf_idx \in Frags /\ size[buf_idx] \in 0..fragsize
           /\ mem[buf_idx] \in [1..fragsize -> Unit]
           /\ data \in Seq(Unit) /\ Len(data) \in Nat /\ Len(data) <= MaxCount
           /\ count \in 0..MaxCount
<1>1. MaxCount \in Nat /\ data \in UpTo(MaxCount) /\ count \in 0..MaxCount
  BY AudioAssumption DEF AudioInv, CallType
<1>2. data \in Seq(Unit) /\ Len(data) \in Nat /\ Len(data) <= MaxCount
  <2>1. data \in Seq(Unit) /\ Len(data) <= MaxCount
    BY <1>1, UpToIs
  <2> QED BY <2>1
<1>3. buf_idx \in Frags /\ size[buf_idx] \in 0..fragsize /\ mem[buf_idx] \in [1..fragsize -> Unit]
  BY DEF AudioInv, RingType, Contents
<1> QED BY <1>1, <1>2, <1>3, RingFacts DEF AudioInv

(* Storing in the current fragment keeps the memory a ring of fragments.   *)
LEMMA StoreType ==
    ASSUME AudioInv, NEW s \in [1..fragsize -> Unit], mem' = [mem EXCEPT ![buf_idx] = s]
    PROVE  mem' \in [Frags -> Contents]
  BY DEF AudioInv, RingType, Contents

(* Copying a part of a write into the current fragment.                    *)
LEMMA FillType ==
    ASSUME AudioInv, NEW k \in Nat, k <= Len(data), size[buf_idx] + k <= fragsize, Fill(k)
    PROVE  /\ mem' \in [Frags -> Contents]
           /\ data' \in UpTo(MaxCount)
<1> DEFINE s == [i \in 1..fragsize |-> IF i > size[buf_idx] /\ i <= size[buf_idx] + k
                                       THEN data[i - size[buf_idx]] ELSE mem[buf_idx][i]]
<1>1. /\ fragsize \in Nat /\ MaxCount \in Nat /\ size[buf_idx] \in Nat
      /\ mem[buf_idx] \in [1..fragsize -> Unit]
      /\ data \in Seq(Unit) /\ Len(data) \in Nat /\ Len(data) <= MaxCount
  BY FragmentFacts
<1>2. s \in [1..fragsize -> Unit]
  <2>1. ASSUME NEW i \in 1..fragsize
        PROVE  s[i] \in Unit
    <3>1. CASE i > size[buf_idx] /\ i <= size[buf_idx] + k
      <4>1. i - size[buf_idx] \in 1..Len(data)
        BY <1>1, <3>1
      <4>2. data[i - size[buf_idx]] \in Unit
        BY <1>1, <4>1
      <4> QED BY <3>1, <4>2
    <3>2. CASE ~(i > size[buf_idx] /\ i <= size[buf_idx] + k)
      BY <1>1, <3>2
    <3> QED BY <3>1, <3>2
  <2> QED BY <2>1
<1>3. mem' = [mem EXCEPT ![buf_idx] = s]
  BY DEF Fill
<1>4. mem' \in [Frags -> Contents]
  <2> HIDE DEF s
  <2> QED BY <1>2, <1>3, StoreType
<1>5. data' = SubSeq(data, k + 1, Len(data))
  BY DEF Fill
<1>6. data' \in Seq(Unit) /\ Len(data') <= MaxCount
  BY <1>1, <1>5
<1> QED BY <1>1, <1>4, <1>6, UpToIs

(* A write that leaves room in the fragment does not queue it.             *)
LEMMA WritePartStep ==
    ASSUME AudioInv, WritePart
    PROVE  AudioInv'
<1> DEFINE k == Chunk(Len(data), fragsize - size[buf_idx])
<1>1. /\ fragsize \in Nat /\ fragsize >= 1 /\ buf_idx \in Frags /\ size[buf_idx] \in 0..fragsize
      /\ Len(data) \in Nat
  BY FragmentFacts
<1>2. fragsize - size[buf_idx] \in Nat
  BY <1>1
<1>3. k \in Nat /\ k <= Len(data) /\ k <= fragsize - size[buf_idx]
  BY <1>1, <1>2, ChunkIs
<1>4. /\ pc = "write" /\ Fill(k) /\ size' = [size EXCEPT ![buf_idx] = @ + k] /\ pc' = "idle"
      /\ size[buf_idx] + k < fragsize
      /\ UNCHANGED <<file, nonblock, shape, buffers, sem, buf_idx, dma, count, closing, waitq,
                     moved, failed>>
  BY DEF WritePart
<1> HIDE DEF k
<1>5. mem' \in [Frags -> Contents] /\ data' \in UpTo(MaxCount)
  BY <1>1, <1>3, <1>4, FillType
<1>6. size[buf_idx] + k \in 0..fragsize
  BY <1>1, <1>3, <1>4
<1>7. /\ size' \in [Frags -> 0..fragsize]
      /\ \A f \in Frags : f # buf_idx => size'[f] = size[f]
  BY <1>1, <1>4, <1>6 DEF AudioInv, RingType
<1>8. UNCHANGED <<nbfrags, fragsize, Frags, Contents, Previous>>
  BY <1>4 DEF nbfrags, fragsize, Frags, Contents, Previous
<1>9. RingType'
  BY <1>4, <1>5, <1>7, <1>8 DEF AudioInv, RingType
<1>10. CallType'
  BY <1>4, <1>5, <1>8 DEF AudioInv, CallType
<1>11. Queued' /\ Order'
  BY <1>4, <1>8 DEF AudioInv, Queued, Order
<1>12. Phase' /\ Output'
  BY <1>4, <1>7, <1>8 DEF AudioInv, Phase, Output, LastQueued
<1> QED BY <1>9, <1>10, <1>11, <1>12 DEF AudioInv

(* A write that fills the fragment queues it.                              *)
LEMMA WriteFullStep ==
    ASSUME AudioInv, WriteFull
    PROVE  AudioInv'
<1> DEFINE k == Chunk(Len(data), fragsize - size[buf_idx])
<1>1. /\ fragsize \in Nat /\ fragsize >= 1 /\ buf_idx \in Frags /\ size[buf_idx] \in 0..fragsize
      /\ Len(data) \in Nat
  BY FragmentFacts
<1>2. fragsize - size[buf_idx] \in Nat
  BY <1>1
<1>3. k \in Nat /\ k <= Len(data) /\ k <= fragsize - size[buf_idx]
  BY <1>1, <1>2, ChunkIs
<1>4. /\ pc = "write" /\ sem[buf_idx] = 1 /\ Fill(k) /\ size[buf_idx] + k = fragsize
      /\ sem' = [sem EXCEPT ![buf_idx] = 0] /\ Enqueue(buf_idx, fragsize)
      /\ size' = [size EXCEPT ![buf_idx] = 0] /\ buf_idx' = NextIdx
      /\ pc' \in {"idle", "write"}
      /\ UNCHANGED <<file, nonblock, shape, buffers, count, closing, waitq, moved>>
  BY DEF WriteFull
<1> HIDE DEF k
<1>5. mem' \in [Frags -> Contents] /\ data' \in UpTo(MaxCount)
  BY <1>1, <1>3, <1>4, FillType
<1>6. /\ sem' \in [Frags -> {0, 1}] /\ buf_idx' \in Frags /\ buf_idx' # buf_idx
      /\ dma' \in Seq(Frags \X (1..fragsize)) /\ failed' = failed
      /\ Queued' /\ Order' /\ LastQueued'
  <2>1. fragsize \in 1..fragsize
    BY <1>1
  <2> QED BY <1>4, <2>1, Enqueued DEF AudioInv
<1>7. /\ size' \in [Frags -> 0..fragsize] /\ size'[buf_idx] = 0
      /\ \A f \in Frags : f # buf_idx => size'[f] = size[f]
  BY <1>1, <1>4 DEF AudioInv, RingType
<1>8. UNCHANGED <<nbfrags, fragsize, Frags, Contents>>
  BY <1>4 DEF nbfrags, fragsize, Frags, Contents
<1>9. RingType'
  BY <1>4, <1>5, <1>6, <1>7, <1>8 DEF AudioInv, RingType
<1>10. CallType'
  BY <1>4, <1>5, <1>8 DEF AudioInv, CallType
<1>11. Phase'
  BY <1>4 DEF AudioInv, Phase
<1>12. Output'
  <2>1. \A f \in Frags : size'[f] = 0
    BY <1>4, <1>7 DEF AudioInv, Phase, Output
  <2> QED BY <1>4, <1>6, <1>8, <2>1 DEF Output
<1> QED BY <1>6, <1>9, <1>10, <1>11, <1>12 DEF AudioInv

(* A write that fills the fragment, when the DMA refuses it.               *)
LEMMA WriteRefusedStep ==
    ASSUME AudioInv, WriteRefused
    PROVE  AudioInv'
<1> DEFINE k == Chunk(Len(data), fragsize - size[buf_idx])
           s == [i \in 1..fragsize |-> IF i > size[buf_idx] THEN data[i - size[buf_idx]]
                                                            ELSE mem[buf_idx][i]]
<1>1. /\ fragsize \in Nat /\ fragsize >= 1 /\ buf_idx \in Frags /\ size[buf_idx] \in 0..fragsize
      /\ Len(data) \in Nat /\ data \in Seq(Unit) /\ mem[buf_idx] \in [1..fragsize -> Unit]
      /\ MaxCount \in Nat
  BY FragmentFacts
<1>2. fragsize - size[buf_idx] \in Nat
  BY <1>1
<1>3. k \in Nat /\ k <= Len(data) /\ k <= fragsize - size[buf_idx]
  BY <1>1, <1>2, ChunkIs
<1>4. /\ pc = "write" /\ sem[buf_idx] = 1 /\ size[buf_idx] + k = fragsize
      /\ mem' = [mem EXCEPT ![buf_idx] = s]
      /\ sem' = [sem EXCEPT ![buf_idx] = 0] /\ Refuse
      /\ size' = [size EXCEPT ![buf_idx] = fragsize]
      /\ pc' = "idle" /\ data' = <<>> /\ count' = 0
      /\ UNCHANGED <<file, nonblock, shape, buffers, buf_idx, moved, closing, waitq>>
  BY DEF WriteRefused, Return
<1> HIDE DEF k
<1>5. s \in [1..fragsize -> Unit]
  <2>1. ASSUME NEW i \in 1..fragsize
        PROVE  s[i] \in Unit
    <3>1. CASE i > size[buf_idx]
      <4>1. i - size[buf_idx] \in 1..Len(data)
        BY <1>1, <1>3, <1>4, <3>1
      <4>2. data[i - size[buf_idx]] \in Unit
        BY <1>1, <4>1
      <4> QED BY <3>1, <4>2
    <3>2. CASE ~(i > size[buf_idx])
      BY <1>1, <3>2
    <3> QED BY <3>1, <3>2
  <2> QED BY <2>1
<1>6. mem' \in [Frags -> Contents]
  <2> HIDE DEF s
  <2> QED BY <1>4, <1>5, StoreType
<1> HIDE DEF s
<1>7. data' \in UpTo(MaxCount) /\ count' \in 0..MaxCount
  <2>1. data' \in Seq(Unit) /\ Len(data') <= MaxCount
    BY <1>1, <1>4
  <2>2. data' \in UpTo(MaxCount)
    BY <1>1, <2>1, UpToIs
  <2>3. count' \in 0..MaxCount
    BY <1>1, <1>4
  <2> QED BY <2>2, <2>3
<1>8. /\ sem' \in [Frags -> {0, 1}] /\ dma' \in Seq(Frags \X (1..fragsize)) /\ failed' = TRUE
      /\ Queued' /\ Order' /\ (LastQueued => LastQueued')
  BY <1>4, Refused DEF AudioInv
<1>9. /\ size' \in [Frags -> 0..fragsize]
      /\ \A f \in Frags : f # buf_idx => size'[f] = size[f]
  BY <1>1, <1>4 DEF AudioInv, RingType
<1>10. UNCHANGED <<nbfrags, fragsize, Frags, Contents>>
  BY <1>4 DEF nbfrags, fragsize, Frags, Contents
<1>11. RingType'
  BY <1>4, <1>6, <1>8, <1>9, <1>10 DEF AudioInv, RingType
<1>12. CallType'
  BY <1>4, <1>7, <1>10 DEF AudioInv, CallType
<1>13. Phase' /\ Output'
  BY <1>4, <1>8, <1>9, <1>10 DEF AudioInv, Phase, Output
<1> QED BY <1>8, <1>11, <1>12, <1>13 DEF AudioInv

(* Giving units of the current fragment to the user.                       *)
LEMMA GiveType ==
    ASSUME AudioInv, NEW k \in Nat, k <= count, k <= size[buf_idx], Give(k)
    PROVE  /\ moved' \in Seq(Unit) /\ count' \in 0..MaxCount
           /\ size' \in [Frags -> 0..fragsize]
<1>1. /\ fragsize \in Nat /\ buf_idx \in Frags /\ size[buf_idx] \in 0..fragsize
      /\ count \in 0..MaxCount /\ MaxCount \in Nat /\ mem[buf_idx] \in [1..fragsize -> Unit]
  BY FragmentFacts
<1>2. /\ size' = [size EXCEPT ![buf_idx] = @ - k] /\ count' = count - k
      /\ moved' = IF k = 0 THEN moved
                  ELSE SubSeq(mem[buf_idx], fragsize - size[buf_idx] + 1,
                              fragsize - size[buf_idx] + k)
  BY DEF Give
<1>3. size[buf_idx] - k \in 0..fragsize /\ count' \in 0..MaxCount
  BY <1>1, <1>2
<1>4. size' \in [Frags -> 0..fragsize]
  BY <1>1, <1>2, <1>3 DEF AudioInv, RingType
<1>5. CASE k = 0
  BY <1>2, <1>3, <1>4, <1>5 DEF AudioInv, CallType
<1>6. CASE k # 0
  <2>1. /\ fragsize - size[buf_idx] + 1 \in 1..fragsize + 1
        /\ fragsize - size[buf_idx] + k \in 0..fragsize
    BY <1>1
  <2>2. moved' \in Seq(Unit)
    BY <1>1, <1>2, <1>6, <2>1, PartType
  <2> QED BY <1>3, <1>4, <2>2
<1> QED BY <1>5, <1>6

(* A read that leaves units in the fragment does not queue it.             *)
LEMMA ReadPartStep ==
    ASSUME AudioInv, ReadPart
    PROVE  AudioInv'
<1> DEFINE k == Chunk(count, size[buf_idx])
<1>1. /\ fragsize \in Nat /\ size[buf_idx] \in 0..fragsize /\ count \in 0..MaxCount /\ MaxCount \in Nat
  BY FragmentFacts
<1>2. k \in Nat /\ k <= count /\ k <= size[buf_idx]
  <2>1. count \in Nat /\ size[buf_idx] \in Nat
    BY <1>1
  <2> QED BY <2>1, ChunkIs
<1>3. /\ pc = "read" /\ Give(k) /\ pc' = "idle"
      /\ UNCHANGED <<file, nonblock, shape, buffers, sem, mem, buf_idx, dma, data, closing, waitq,
                     failed>>
  BY DEF ReadPart
<1> HIDE DEF k
<1>4. moved' \in Seq(Unit) /\ count' \in 0..MaxCount /\ size' \in [Frags -> 0..fragsize]
  BY <1>2, <1>3, GiveType
<1>5. UNCHANGED <<nbfrags, fragsize, Frags, Contents>>
  BY <1>3 DEF nbfrags, fragsize, Frags, Contents
<1>6. RingType'
  BY <1>3, <1>4, <1>5 DEF AudioInv, RingType
<1>7. CallType'
  BY <1>3, <1>4, <1>5 DEF AudioInv, CallType
<1>8. Queued' /\ Order'
  BY <1>3, <1>5 DEF AudioInv, Queued, Order
<1>9. Phase' /\ Output'
  BY <1>3 DEF AudioInv, Phase, Output
<1> QED BY <1>6, <1>7, <1>8, <1>9 DEF AudioInv

(* A read that empties the fragment queues it again.                       *)
LEMMA ReadAllStep ==
    ASSUME AudioInv, ReadAll
    PROVE  AudioInv'
<1> DEFINE k == Chunk(count, size[buf_idx])
<1>1. /\ fragsize \in Nat /\ fragsize >= 1 /\ size[buf_idx] \in 0..fragsize
      /\ count \in 0..MaxCount /\ MaxCount \in Nat
  BY FragmentFacts
<1>2. k \in Nat /\ k <= count /\ k <= size[buf_idx]
  <2>1. count \in Nat /\ size[buf_idx] \in Nat
    BY <1>1
  <2> QED BY <2>1, ChunkIs
<1>3. /\ pc = "read" /\ sem[buf_idx] = 1 /\ Give(k) /\ sem' = [sem EXCEPT ![buf_idx] = 0]
      /\ Enqueue(buf_idx, fragsize) \/ Refuse
      /\ buf_idx' = NextIdx /\ pc' \in {"idle", "read"}
      /\ UNCHANGED <<file, nonblock, shape, buffers, mem, data, closing, waitq>>
  BY DEF ReadAll
<1> HIDE DEF k
<1>4. moved' \in Seq(Unit) /\ count' \in 0..MaxCount /\ size' \in [Frags -> 0..fragsize]
  BY <1>2, <1>3, GiveType
<1>5. UNCHANGED <<nbfrags, fragsize, Frags, Contents>>
  BY <1>3 DEF nbfrags, fragsize, Frags, Contents
<1>6. /\ sem' \in [Frags -> {0, 1}] /\ buf_idx' \in Frags
      /\ dma' \in Seq(Frags \X (1..fragsize)) /\ failed' \in BOOLEAN
      /\ Queued' /\ Order'
  <2>1. CASE Enqueue(buf_idx, fragsize)
    <3>1. fragsize \in 1..fragsize
      BY <1>1
    <3> QED BY <1>3, <2>1, <3>1, Enqueued DEF AudioInv, RingType
  <2>2. CASE Refuse
    BY <1>3, <2>2, Refused DEF AudioInv
  <2> QED BY <1>3, <2>1, <2>2
<1>7. RingType'
  BY <1>3, <1>4, <1>5, <1>6 DEF AudioInv, RingType
<1>8. CallType'
  BY <1>3, <1>4, <1>5 DEF AudioInv, CallType
<1>9. Phase' /\ Output'
  BY <1>3 DEF AudioInv, Phase, Output
<1> QED BY <1>6, <1>7, <1>8, <1>9 DEF AudioInv

(* audio_sync queues a fragment that is partly filled.                     *)
LEMMA SyncPartStep ==
    ASSUME AudioInv, SyncPart
    PROVE  AudioInv'
<1>1. /\ fragsize \in Nat /\ fragsize >= 1 /\ size[buf_idx] \in 0..fragsize /\ buf_idx \in Frags
  BY FragmentFacts
<1>2. /\ pc = "sync" /\ size[buf_idx] # 0 /\ sem[buf_idx] = 1
      /\ sem' = [sem EXCEPT ![buf_idx] = 0]
      /\ Enqueue(buf_idx, size[buf_idx]) \/ Refuse
      /\ size' = [size EXCEPT ![buf_idx] = 0]
      /\ buf_idx' = NextIdx /\ pc' = "await"
      /\ UNCHANGED <<file, nonblock, shape, buffers, mem, moved, data, count, closing, waitq>>
  BY DEF SyncPart, Stay, callVars
<1>3. UNCHANGED <<nbfrags, fragsize, Frags, Contents>>
  BY <1>2 DEF nbfrags, fragsize, Frags, Contents
<1>4. /\ sem' \in [Frags -> {0, 1}] /\ buf_idx' \in Frags /\ buf_idx' # buf_idx
      /\ dma' \in Seq(Frags \X (1..fragsize)) /\ failed' \in BOOLEAN
      /\ Queued' /\ Order' /\ LastQueued'
  <2>1. CASE Enqueue(buf_idx, size[buf_idx])
    <3>1. size[buf_idx] \in 1..fragsize
      BY <1>1, <1>2
    <3> QED BY <1>2, <2>1, <3>1, Enqueued DEF AudioInv, RingType
  <2>2. CASE Refuse
    BY <1>2, <2>2, Refused DEF AudioInv
  <2> QED BY <1>2, <2>1, <2>2
<1>5. /\ size' \in [Frags -> 0..fragsize] /\ size'[buf_idx] = 0
      /\ \A f \in Frags : f # buf_idx => size'[f] = size[f]
  BY <1>1, <1>2 DEF AudioInv, RingType
<1>6. RingType'
  BY <1>2, <1>3, <1>4, <1>5 DEF AudioInv, RingType
<1>7. CallType'
  BY <1>2, <1>3 DEF AudioInv, CallType
<1>8. Phase'
  BY <1>2 DEF AudioInv, Phase
<1>9. Output'
  <2>1. \A f \in Frags : size'[f] = 0
    BY <1>2, <1>5 DEF AudioInv, Phase, Output
  <2> QED BY <1>2, <1>3, <1>4, <2>1 DEF Output
<1> QED BY <1>4, <1>6, <1>7, <1>8, <1>9 DEF AudioInv

-------------------------------------------------------------------------------
(* The invariant holds when the driver has been loaded.                    *)
LEMMA AudioInit == Init => AudioInv
<1> SUFFICES ASSUME Init PROVE AudioInv
  OBVIOUS
<1>1. /\ shape \in Shapes /\ MaxCount \in Nat
      /\ file = "closed" /\ nonblock = FALSE /\ shape = Default /\ buffers = FALSE
      /\ size = [f \in Frags |-> 0] /\ sem = [f \in Frags |-> 1]
      /\ mem = Blank(shape) /\ buf_idx = 0 /\ dma = <<>>
      /\ pc = "idle" /\ data = <<>> /\ count = 0 /\ closing = FALSE /\ waitq = 0
      /\ moved = <<>> /\ failed = FALSE
  BY AudioAssumption DEF Init
<1>2. nbfrags \in Nat /\ nbfrags >= 2 /\ fragsize \in Nat /\ fragsize >= 1
  BY <1>1, ShapeFacts DEF nbfrags, fragsize
<1>3. 0 \in Frags
  BY <1>2 DEF Frags
<1>4. mem \in [Frags -> Contents]
  BY <1>1, BlankIs DEF Frags, Contents, nbfrags, fragsize
<1>5. RingType
  <2>1. size \in [Frags -> 0..fragsize] /\ sem \in [Frags -> {0, 1}]
    BY <1>1, <1>2
  <2> QED BY <1>1, <1>3, <1>4, <2>1 DEF RingType
<1>6. CallType
  <2>1. data \in Seq(Unit) /\ Len(data) <= MaxCount /\ count \in 0..MaxCount /\ moved \in Seq(Unit)
    BY <1>1
  <2>2. data \in UpTo(MaxCount)
    BY <1>1, <2>1, UpToIs
  <2> QED BY <1>1, <1>3, <2>1, <2>2 DEF CallType
<1>7. Phase
  BY <1>1 DEF Phase
<1>8. Queued /\ Order /\ Output
  BY <1>1 DEF Queued, Order, Output
<1> QED BY <1>5, <1>6, <1>7, <1>8 DEF AudioInv

(* Every step keeps the invariant.                                         *)
LEMMA AudioStep ==
    ASSUME AudioInv, [Next]_vars
    PROVE  AudioInv'
<1>1. CASE UNCHANGED vars
  <2>1. /\ UNCHANGED <<ringVars, failed>>
        /\ UNCHANGED <<file, nonblock, pc, data, count, closing, waitq, moved>>
    BY <1>1 DEF vars, callVars
  <2>2. /\ RingType' /\ Queued' /\ Order' /\ (LastQueued => LastQueued') /\ Frags' = Frags
        /\ UNCHANGED <<shape, buffers, size, sem, mem, buf_idx, dma, failed>>
    BY <2>1, RingSame
  <2>3. CallType' /\ Phase' /\ Output'
    BY <2>1, <2>2 DEF AudioInv, CallType, Phase, Output
  <2> QED BY <2>2, <2>3 DEF AudioInv
<1>2. CASE Callback
  BY <1>2, OutDone, InDone DEF Callback
<1>3. CASE Call
  <2>1. CASE SetNonBlock \/ Sync
    <3>1. UNCHANGED <<ringVars, failed>>
      BY <2>1 DEF SetNonBlock, Sync
    <3> QED BY <2>1, <3>1, QuietStep
  <2> QED BY <1>3, <2>1, Emptied, WriteStep, ReadStep, PollStep DEF Call
<1>4. CASE (pc \in {"synced", "await"} /\ SyncEnds)
  <2>1. CASE Release
    BY <1>4, <2>1, Emptied
  <2>2. CASE SyncReturns
    <3>1. UNCHANGED <<ringVars, failed>>
      BY <2>2 DEF SyncReturns
    <3> QED BY <1>4, <2>2, <3>1, QuietStep
  <2> QED BY <1>4, <2>1, <2>2 DEF SyncEnds
<1>5. CASE SyncNoPart \/ AwaitPrevious \/ PollAgain \/ CopyFails \/ PollEnds \/ Interrupted
  <2>1. UNCHANGED <<ringVars, failed>>
    BY <1>5 DEF SyncNoPart, AwaitPrevious, PollAgain, CopyFails, PollEnds, Interrupted
  <2> QED BY <1>5, <2>1, QuietStep
<1> QED
  BY <1>1, <1>2, <1>3, <1>4, <1>5, WritePartStep, WriteFullStep, WriteRefusedStep,
     ReadPartStep, ReadAllStep, SyncPartStep DEF Next, Running, Fault

(* The inductive invariant.                                                *)
THEOREM AudioInvariant == Spec => []AudioInv
  BY AudioInit, AudioStep, PTL DEF Spec

(* Every variable has its type: no semaphore counts above one, no fragment *)
(* is filled past its end, and none is queued empty.                       *)
THEOREM TypeCorrect == Spec => []TypeOK
<1>1. AudioInv => TypeOK
  BY DEF AudioInv, RingType, CallType, TypeOK
<1> QED BY <1>1, AudioInvariant, PTL

(* Unless the DMA has refused one, the fragments queued are those before   *)
(* the current one, in the order of the ring, and exactly their semaphores *)
(* are taken.                                                              *)
THEOREM RingStaysInOrder == Spec => []RingInOrder
<1>1. AudioInv => RingInOrder
  <2> SUFFICES ASSUME AudioInv, buffers, ~failed
               PROVE  /\ \A i \in 1..Len(dma) :
                             dma[i][1] = (buf_idx + nbfrags - Len(dma) + i - 1) % nbfrags
                      /\ \A f \in Frags :
                             sem[f] = IF \E i \in 1..Len(dma) : dma[i][1] = f THEN 0 ELSE 1
    BY DEF RingInOrder
  <2>1. /\ nbfrags \in Nat /\ nbfrags >= 2 /\ Frags = 0..nbfrags - 1 /\ buf_idx \in Frags
        /\ Len(dma) \in Nat /\ sem \in [Frags -> {0, 1}]
    BY RingFacts DEF AudioInv, RingType
  <2>2. /\ Len(dma) <= nbfrags
        /\ \A i \in 1..Len(dma) : dma[i][1] = Behind(buf_idx, Len(dma) - i + 1, nbfrags)
        /\ \A f \in Frags : sem[f] = 0 => \E i \in 1..Len(dma) : dma[i][1] = f
    BY DEF AudioInv, Order
  <2>3. ASSUME NEW i \in 1..Len(dma)
        PROVE  dma[i][1] = (buf_idx + nbfrags - Len(dma) + i - 1) % nbfrags
    <3> DEFINE k == Len(dma) - i + 1
    <3>1. k \in 1..nbfrags /\ buf_idx + nbfrags - Len(dma) + i - 1 = buf_idx + nbfrags - k
      BY <2>1, <2>2
    <3> HIDE DEF k
    <3>2. (buf_idx + nbfrags - k) % nbfrags = Behind(buf_idx, k, nbfrags)
      BY <2>1, <3>1, BehindIs
    <3> QED BY <2>2, <3>1, <3>2 DEF k
  <2>4. ASSUME NEW f \in Frags
        PROVE  sem[f] = IF \E i \in 1..Len(dma) : dma[i][1] = f THEN 0 ELSE 1
    BY <2>1, <2>2 DEF AudioInv, Queued
  <2> QED BY <2>3, <2>4
<1> QED BY <1>1, AudioInvariant, PTL

(* When audio_sync returns 0 on an output stream, also after the DMA has   *)
(* refused a fragment, nothing is queued and nothing waits to be.          *)
THEOREM SyncWaitsForAll == Spec => []SyncMeansPlayed
<1>1. AudioInv => SyncMeansPlayed
  BY DEF AudioInv, Output, SyncMeansPlayed
<1> QED BY <1>1, AudioInvariant, PTL

(* Fragment 0, which poll looks at, is free only if the current one is.    *)
THEOREM PollTellsTruth == Spec => []PollTruth
<1>1. AudioInv => PollTruth
  <2> SUFFICES ASSUME AudioInv, buffers, ~failed, Mask, sem[buf_idx] # 1
               PROVE  FALSE
    BY DEF PollTruth
  <2>1. /\ nbfrags \in Nat /\ nbfrags >= 2 /\ Frags = 0..nbfrags - 1 /\ buf_idx \in Frags
        /\ Len(dma) \in Nat /\ sem \in [Frags -> {0, 1}] /\ 0 \in Frags
    BY RingFacts DEF AudioInv, RingType
  <2>2. /\ Len(dma) <= nbfrags
        /\ \A i \in 1..Len(dma) : dma[i][1] = Behind(buf_idx, Len(dma) - i + 1, nbfrags)
        /\ \A f \in Frags : sem[f] = 0 => \E i \in 1..Len(dma) : dma[i][1] = f
    BY DEF AudioInv, Order
  <2>3. sem[buf_idx] = 0
    BY <2>1
  <2>4. PICK i \in 1..Len(dma) : dma[i][1] = buf_idx
    BY <2>1, <2>2, <2>3
  <2>5. Len(dma) = nbfrags
    <3>0. Len(dma) - i + 1 \in 1..nbfrags
      BY <2>1, <2>2
    <3>1. PICK k \in 1..nbfrags : k = Len(dma) - i + 1
      BY <3>0
    <3>2. Behind(buf_idx, k, nbfrags) = buf_idx
      BY <2>2, <2>4, <3>1
    <3>3. Behind(buf_idx, k, nbfrags) = buf_idx <=> k = nbfrags
      BY <2>1, BehindIs
    <3> QED BY <2>1, <2>2, <3>1, <3>2, <3>3
  <2>6. PICK k \in 1..nbfrags : Behind(buf_idx, k, nbfrags) = 0
    BY <2>1, BehindAll
  <2>7. /\ nbfrags - k + 1 \in 1..Len(dma) /\ Len(dma) - (nbfrags - k + 1) + 1 = k
    BY <2>1, <2>5
  <2>8. dma[nbfrags - k + 1][1] = 0
    BY <2>2, <2>6, <2>7
  <2>9. sem[0] = 0
    BY <2>7, <2>8 DEF AudioInv, Queued
  <2> QED BY <2>9 DEF Mask
<1> QED BY <1>1, AudioInvariant, PTL
===============================================================================
