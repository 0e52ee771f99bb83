----------------------------- MODULE AudioStream ------------------------------
(***************************************************************************)
(* The audio stream of linux_driver/code/声卡驱动/s3c-wm8976.c: a ring of   *)
(* fragments, each with a semaphore, between the process that opened       *)
(* /dev/dsp for writing or for reading and the DMA channel.                *)
(*                                                                         *)
(* One process uses the device, with one thread: open refuses a second one *)
(* in the same direction.  Opened for reading and writing, it has two      *)
(* streams that share nothing after they are set up.  The driver's code    *)
(* is left only where it sleeps on a semaphore or in poll; the callback of *)
(* the DMA may come anywhere, but what a call does between taking the      *)
(* semaphore of a fragment and giving it up or queueing the fragment       *)
(* touches nothing the callback does, and is one step.                     *)
(*                                                                         *)
(* A unit is one sample of both channels, the 4 bytes to which write       *)
(* rounds its count.  The channel moves the fragments in the order of      *)
(* s3c2410_dma_enqueue, which may refuse one (-ENOMEM).                    *)
(***************************************************************************)
EXTENDS Naturals, SequencesExt

CONSTANTS Unit,         \* the samples
          Shapes,       \* <<nbfrags, fragsize>> that SETFRAGMENT may ask for
          Default,      \* of them, the one of a stream just opened
          MaxCount      \* units in a call of write or read

ASSUME AudioAssumption ==
    /\ Unit # {}
    /\ Shapes \subseteq (Nat \ {0, 1}) \X (Nat \ {0})
    /\ Default \in Shapes
    /\ MaxCount \in Nat \ {0}

VARIABLES file,         \* "closed", or the mode of open: "write", "read"
          nonblock,     \* O_NONBLOCK in f_flags
          shape,        \* audio_nbfrags and audio_fragsize
          buffers,      \* the ring is allocated
          size, sem,    \* of each fragment
          mem,          \* the units at start
          buf_idx,
          dma,          \* <<fragment, units>> queued, the oldest first
          pc,           \* where the process is in the driver
          data,         \* units write has still to take from the user
          count,        \* units read has still to give
          closing,      \* audio_sync was called by release
          waitq,        \* the fragment whose wait queue poll is in
          moved,        \* the units played, or given to the user, last
          failed        \* s3c2410_dma_enqueue has refused a fragment of this ring

ringVars == <<shape, buffers, size, sem, mem, buf_idx, dma>>
callVars == <<data, count, closing, waitq>>
vars == <<file, nonblock, ringVars, pc, callVars, moved, failed>>

nbfrags == shape[1]
fragsize == shape[2]
Frags == 0..(nbfrags - 1)
Contents == [1..fragsize -> Unit]
UpTo(n) == UNION {[1..k -> Unit] : k \in 0..n}

TypeOK == /\ file \in {"closed", "write", "read"}
          /\ {nonblock, buffers, closing, failed} \subseteq BOOLEAN
          /\ shape \in Shapes
          /\ size \in [Frags -> 0..fragsize]
          /\ sem \in [Frags -> {0, 1}]
          /\ mem \in [Frags -> Contents]
          /\ buf_idx \in Frags
          /\ dma \in Seq(Frags \X (1..fragsize))
          /\ pc \in {"idle", "write", "read", "sync", "await", "synced", "poll", "woken"}
          /\ data \in UpTo(MaxCount)
          /\ count \in 0..MaxCount
          /\ waitq \in Frags
          /\ moved \in Seq(Unit)

Blank(sh) == [f \in 0..(sh[1] - 1) |-> [i \in 1..sh[2] |-> CHOOSE u \in Unit : TRUE]]

Init == /\ file = "closed" /\ nonblock = FALSE
        /\ shape = Default /\ buffers = FALSE
        /\ size = [f \in Frags |-> 0] /\ sem = [f \in Frags |-> 1]
        /\ mem = Blank(shape) /\ buf_idx = 0
        /\ dma = <<>>
        /\ pc = "idle" /\ data = <<>> /\ count = 0 /\ closing = FALSE /\ waitq = 0
        /\ moved = <<>> /\ failed = FALSE

-------------------------------------------------------------------------------
(* The ring empty, with every semaphore free and the given shape: as       *)
(* audio_setup_buf leaves it, and as audio_clear_buf does, when no field   *)
(* but buffers has a meaning.  The flush calls every callback, whose ups   *)
(* end here too, and a poll sleeps through neither.                        *)
Ring(allocated, sh) ==
    /\ shape' = sh
    /\ buffers' = allocated
    /\ size' = [f \in 0..(sh[1] - 1) |-> 0]
    /\ sem' = [f \in 0..(sh[1] - 1) |-> 1]
    /\ mem' = Blank(sh)
    /\ buf_idx' = 0
    /\ dma' = <<>>
    /\ failed' = FALSE

audio_clear_buf == Ring(FALSE, shape)

(* audio_setup_buf succeeds, or runs out of memory.                        *)
audio_setup_buf(sh) == Ring(TRUE, sh)
SetupFails(sh) == Ring(FALSE, sh)

NextIdx == (buf_idx + 1) % nbfrags                      \* NEXT_BUF
Previous == (nbfrags + buf_idx - 1) % nbfrags

(* s3c2410_dma_enqueue of fragment f with n units, or its refusal.         *)
Enqueue(f, n) == dma' = Append(dma, <<f, n>>) /\ UNCHANGED failed
Refuse == failed' = TRUE /\ UNCHANGED dma

Return == pc' = "idle" /\ data' = <<>> /\ count' = 0 /\ UNCHANGED <<closing, waitq>>
Stay(p) == pc' = p /\ UNCHANGED callVars

-------------------------------------------------------------------------------
(* The DMA channel moves the oldest fragment, and its callback gives the   *)
(* semaphore up and wakes its wait queue.                                  *)
WakePoll(f) == pc' = IF pc = "poll" /\ waitq = f THEN "woken" ELSE pc

OutDoneNoUp ==                  \* mutant: the callback does not give the semaphore up
    /\ file = "write" /\ dma # <<>>
    /\ LET f == Head(dma)[1] IN
       /\ moved' = SubSeq(mem[f], 1, Head(dma)[2])
       /\ WakePoll(f)
    /\ dma' = Tail(dma)
    /\ UNCHANGED <<sem, file, nonblock, shape, buffers, size, mem, buf_idx, callVars, failed>>

audio_dmaout_done_callback ==
    /\ file = "write" /\ dma # <<>>
    /\ LET f == Head(dma)[1] IN
       /\ moved' = SubSeq(mem[f], 1, Head(dma)[2])
       /\ sem' = [sem EXCEPT ![f] = @ + 1]
       /\ WakePoll(f)
    /\ dma' = Tail(dma)
    /\ UNCHANGED <<file, nonblock, shape, buffers, size, mem, buf_idx, callVars, failed>>

audio_dmain_done_callback ==
    /\ file = "read" /\ dma # <<>>
    /\ LET f == Head(dma)[1] IN
       /\ \E s \in Contents : mem' = [mem EXCEPT ![f] = s]
       /\ size' = [size EXCEPT ![f] = Head(dma)[2]]
       /\ sem' = [sem EXCEPT ![f] = @ + 1]
       /\ WakePoll(f)
    /\ dma' = Tail(dma)
    /\ UNCHANGED <<file, nonblock, shape, buffers, buf_idx, callVars, moved, failed>>

-------------------------------------------------------------------------------
(* smdk2410_audio_open: the counts of users are 0, so that it is "cold".   *)
Open(m) ==
    /\ file = "closed"
    /\ file' = m
    /\ \E nb \in BOOLEAN : nonblock' = nb
    /\ Ring(FALSE, Default)
    /\ UNCHANGED <<pc, callVars, moved>>

Idle == file # "closed" /\ pc = "idle"

SetFragment ==                  \* SNDCTL_DSP_SETFRAGMENT, -EBUSY with buffers
    /\ Idle /\ ~buffers
    /\ \E sh \in Shapes : audio_setup_buf(sh) \/ SetupFails(sh)
    /\ UNCHANGED <<file, nonblock, pc, callVars, moved>>

SetNonBlock ==                  \* SNDCTL_DSP_NONBLOCK
    /\ Idle /\ nonblock' = TRUE
    /\ UNCHANGED <<file, ringVars, pc, callVars, moved, failed>>

Reset ==                        \* SNDCTL_DSP_RESET
    /\ Idle /\ audio_clear_buf
    /\ UNCHANGED <<file, nonblock, pc, callVars, moved>>

-------------------------------------------------------------------------------
(* smdk2410_audio_write.  In mono, copy_from_user_mono_stereo refuses the  *)
(* buffers that access_ok accepts, so that no unit is ever taken: the      *)
(* CopyFails of a user's bad pointer.                                      *)
Write ==
    /\ Idle /\ file = "write"
    /\ data' \in UpTo(MaxCount) \ {<<>>}
    /\ pc' = "write"
    /\ UNCHANGED <<file, nonblock, count, closing, waitq, moved>>
    /\ IF buffers THEN UNCHANGED <<ringVars, failed>> ELSE audio_setup_buf(shape)

(* A call that finds no memory for the ring changes nothing.               *)
Chunk(n, room) == IF n < room THEN n ELSE room

Fill(k) == /\ mem' = [mem EXCEPT ![buf_idx] =
                        [i \in 1..fragsize |-> IF i > size[buf_idx] /\ i <= size[buf_idx] + k
                                               THEN data[i - size[buf_idx]] ELSE @[i]]]
           /\ data' = SubSeq(data, k + 1, Len(data))

WritePartKeepsSem ==            \* mutant: the semaphore is not given up
    LET k == Chunk(Len(data), fragsize - size[buf_idx]) IN
    /\ pc = "write" /\ sem[buf_idx] = 1
    /\ size[buf_idx] + k < fragsize
    /\ Fill(k)
    /\ size' = [size EXCEPT ![buf_idx] = @ + k]
    /\ sem' = [sem EXCEPT ![buf_idx] = 0]
    /\ pc' = "idle"
    /\ UNCHANGED <<file, nonblock, shape, buffers, buf_idx, dma, count, closing, waitq,
                   moved, failed>>

(* The fragment is not full: it is given up, and the call returns.         *)
WritePart ==
    LET k == Chunk(Len(data), fragsize - size[buf_idx]) IN
    /\ pc = "write" /\ sem[buf_idx] = 1
    /\ size[buf_idx] + k < fragsize
    /\ Fill(k)
    /\ size' = [size EXCEPT ![buf_idx] = @ + k]
    /\ pc' = "idle"
    /\ UNCHANGED <<file, nonblock, shape, buffers, sem, buf_idx, dma, count, closing, waitq,
                   moved, failed>>

WriteFullKeepsSize ==           \* mutant: b->size is not reset
    LET k == Chunk(Len(data), fragsize - size[buf_idx]) IN
    /\ pc = "write" /\ sem[buf_idx] = 1
    /\ size[buf_idx] + k = fragsize
    /\ Fill(k)
    /\ sem' = [sem EXCEPT ![buf_idx] = 0]
    /\ Enqueue(buf_idx, fragsize)
    /\ size' = [size EXCEPT ![buf_idx] = fragsize]
    /\ buf_idx' = NextIdx
    /\ pc' = IF data' = <<>> THEN "idle" ELSE "write"
    /\ UNCHANGED <<file, nonblock, shape, buffers, count, closing, waitq, moved>>

(* It is full, is queued, and the next one becomes the current one.        *)
WriteFull ==
    LET k == Chunk(Len(data), fragsize - size[buf_idx]) IN
    /\ pc = "write" /\ sem[buf_idx] = 1
    /\ size[buf_idx] + k = fragsize
    /\ Fill(k)
    /\ sem' = [sem EXCEPT ![buf_idx] = 0]
    /\ Enqueue(buf_idx, fragsize)
    /\ size' = [size EXCEPT ![buf_idx] = 0]
    /\ buf_idx' = NextIdx
    /\ pc' = IF data' = <<>> THEN "idle" ELSE "write"
    /\ UNCHANGED <<file, nonblock, shape, buffers, count, closing, waitq, moved>>

(* It is full, is refused, and stays the current one, with its semaphore   *)
(* taken.                                                                  *)
WriteRefused ==
    LET k == Chunk(Len(data), fragsize - size[buf_idx]) IN
    /\ pc = "write" /\ sem[buf_idx] = 1
    /\ size[buf_idx] + k = fragsize
    /\ mem' = [mem EXCEPT ![buf_idx] =
                 [i \in 1..fragsize |-> IF i > size[buf_idx] THEN data[i - size[buf_idx]]
                                                             ELSE @[i]]]
    /\ sem' = [sem EXCEPT ![buf_idx] = 0]
    /\ Refuse
    /\ size' = [size EXCEPT ![buf_idx] = fragsize]
    /\ Return
    /\ UNCHANGED <<file, nonblock, shape, buffers, buf_idx, moved>>

CopyFails ==                    \* -EFAULT, of write or read
    /\ pc \in {"write", "read"} /\ sem[buf_idx] = 1
    /\ Return
    /\ UNCHANGED <<file, nonblock, ringVars, moved, failed>>

(* The current fragment is taken: O_NONBLOCK, or a signal ends the sleep.  *)
Interrupted ==
    /\ pc \in {"write", "read"} /\ sem[buf_idx] = 0
    /\ Return
    /\ UNCHANGED <<file, nonblock, ringVars, moved, failed>>

-------------------------------------------------------------------------------
(* smdk2410_audio_read.  The first one queues every fragment, but for      *)
(* those the DMA refuses; after SETFRAGMENT or poll it finds buffers of    *)
(* size 0, and queues each as one it has emptied.                          *)
QueueAll == /\ dma' = [i \in 1..nbfrags |-> <<i - 1, fragsize>>]
            /\ UNCHANGED failed

QueueSome == /\ \E n \in 0..nbfrags - 1 : \E q \in [1..n -> Frags] :
                   /\ \A i, j \in 1..n : i < j => q[i] < q[j]
                   /\ dma' = [i \in 1..n |-> <<q[i], fragsize>>]
             /\ failed' = TRUE

Read ==
    /\ Idle /\ file = "read"
    /\ count' \in 1..MaxCount
    /\ pc' = "read"
    /\ UNCHANGED <<file, nonblock, data, closing, waitq, moved>>
    /\ IF buffers
       THEN UNCHANGED <<ringVars, failed>>
       ELSE /\ buffers' = TRUE
            /\ sem' = [f \in Frags |-> 0]
            /\ QueueAll \/ QueueSome
            /\ UNCHANGED <<shape, size, mem, buf_idx>>

GiveFromStart(k) ==             \* mutant: the offset of what was read is forgotten
    /\ moved' = IF k = 0 THEN moved ELSE SubSeq(mem[buf_idx], 1, k)
    /\ size' = [size EXCEPT ![buf_idx] = @ - k]
    /\ count' = count - k

Give(k) ==                      \* copy_to_user
    /\ moved' = IF k = 0 THEN moved
                ELSE SubSeq(mem[buf_idx], fragsize - size[buf_idx] + 1,
                            fragsize - size[buf_idx] + k)
    /\ size' = [size EXCEPT ![buf_idx] = @ - k]
    /\ count' = count - k

ReadPart ==
    LET k == Chunk(count, size[buf_idx]) IN
    /\ pc = "read" /\ sem[buf_idx] = 1 /\ size[buf_idx] > k
    /\ Give(k)
    /\ pc' = "idle"
    /\ UNCHANGED <<file, nonblock, shape, buffers, sem, mem, buf_idx, dma, data, closing, waitq,
                   failed>>

ReadAll ==
    LET k == Chunk(count, size[buf_idx]) IN
    /\ pc = "read" /\ sem[buf_idx] = 1 /\ size[buf_idx] = k
    /\ Give(k)
    /\ sem' = [sem EXCEPT ![buf_idx] = 0]
    /\ Enqueue(buf_idx, fragsize) \/ Refuse
    /\ buf_idx' = NextIdx
    /\ pc' = IF count' = 0 THEN "idle" ELSE "read"
    /\ UNCHANGED <<file, nonblock, shape, buffers, mem, data, closing, waitq>>

-------------------------------------------------------------------------------
(* audio_sync, of SNDCTL_DSP_SYNC and of release: what waits in the        *)
(* current fragment is queued, and the fragment before the current one     *)
(* waited for.  Of a stream without buffers it returns at once.            *)
Sync == /\ Idle
        /\ pc' = IF buffers /\ file = "write" THEN "sync" ELSE "synced"
        /\ closing' \in BOOLEAN
        /\ UNCHANGED <<file, nonblock, ringVars, data, count, waitq, moved, failed>>

SyncPartStays ==                \* mutant: the current fragment stays the current one
    /\ pc = "sync" /\ size[buf_idx] # 0 /\ sem[buf_idx] = 1
    /\ sem' = [sem EXCEPT ![buf_idx] = 0]
    /\ Enqueue(buf_idx, size[buf_idx]) \/ Refuse
    /\ size' = [size EXCEPT ![buf_idx] = 0]
    /\ Stay("await")
    /\ UNCHANGED <<file, nonblock, shape, buffers, mem, buf_idx, moved>>

SyncPart ==                     \* its down sleeps through signals
    /\ pc = "sync" /\ size[buf_idx] # 0 /\ sem[buf_idx] = 1
    /\ sem' = [sem EXCEPT ![buf_idx] = 0]
    /\ Enqueue(buf_idx, size[buf_idx]) \/ Refuse
    /\ size' = [size EXCEPT ![buf_idx] = 0]
    /\ buf_idx' = NextIdx
    /\ Stay("await")
    /\ UNCHANGED <<file, nonblock, shape, buffers, mem, moved>>

SyncNoPart ==
    /\ pc = "sync" /\ size[buf_idx] = 0
    /\ Stay("await")
    /\ UNCHANGED <<file, nonblock, ringVars, moved, failed>>

AwaitCurrent ==                 \* mutant: the current fragment is waited for
    /\ pc = "await" /\ sem[buf_idx] = 1
    /\ Stay("synced")
    /\ UNCHANGED <<file, nonblock, ringVars, moved, failed>>

AwaitPrevious ==
    /\ pc = "await" /\ sem[Previous] = 1
    /\ Stay("synced")
    /\ UNCHANGED <<file, nonblock, ringVars, moved, failed>>

SyncEndsWithUp ==               \* mutant: the semaphore is given up after -EINTR too
    /\ \/ pc = "synced" /\ UNCHANGED sem
       \/ pc = "await" /\ sem[Previous] = 0 /\ sem' = [sem EXCEPT ![Previous] = 1]
    /\ ~closing
    /\ pc' = "idle"
    /\ UNCHANGED <<file, nonblock, shape, buffers, size, mem, buf_idx, dma, callVars, moved, failed>>

(* smdk2410_audio_release goes on whatever audio_sync returned.            *)
Release ==
    /\ closing
    /\ file' = "closed" /\ closing' = FALSE
    /\ audio_clear_buf
    /\ pc' = "idle"
    /\ UNCHANGED <<nonblock, data, count, waitq, moved>>

SyncReturns ==
    /\ ~closing
    /\ pc' = "idle"
    /\ UNCHANGED <<file, nonblock, ringVars, callVars, moved, failed>>

SyncEnds ==
    /\ \/ pc = "synced"
       \/ pc = "await" /\ sem[Previous] = 0             \* -EINTR
    /\ Release \/ SyncReturns

-------------------------------------------------------------------------------
(* smdk2410_audio_poll tests the semaphore of fragment 0 - the loop ends   *)
(* after its first turn - and waits in the queue of the current fragment.  *)
Mask == sem[0] > 0

Poll == /\ Idle
        /\ IF buffers
           THEN /\ UNCHANGED <<ringVars, failed>>
                /\ IF Mask
                   THEN UNCHANGED <<pc, waitq>>
                   ELSE pc' = "poll" /\ waitq' = buf_idx
           ELSE audio_setup_buf(shape) /\ UNCHANGED <<pc, waitq>>
        /\ UNCHANGED <<file, nonblock, data, count, closing, moved>>

PollAgain ==
    /\ pc = "woken"
    /\ pc' = IF Mask THEN "idle" ELSE "poll"
    /\ waitq' = IF Mask THEN 0 ELSE waitq
    /\ UNCHANGED <<file, nonblock, ringVars, data, count, closing, moved, failed>>

PollEnds ==                     \* its time is over, or a signal
    /\ pc = "poll"
    /\ pc' = "idle" /\ waitq' = 0
    /\ UNCHANGED <<file, nonblock, ringVars, data, count, closing, moved, failed>>

-------------------------------------------------------------------------------
Callback == audio_dmaout_done_callback \/ audio_dmain_done_callback
Call == \/ \E m \in {"write", "read"} : Open(m)
        \/ SetFragment \/ SetNonBlock \/ Reset \/ Write \/ Read \/ Sync \/ Poll
Running == \/ WritePart \/ WriteFull \/ WriteRefused
           \/ ReadPart \/ ReadAll
           \/ SyncPart \/ SyncNoPart \/ AwaitPrevious
           \/ pc = "synced" /\ SyncEnds
           \/ PollAgain
Fault == \/ CopyFails \/ PollEnds
         \/ Interrupted
         \/ pc = "await" /\ SyncEnds

Next == Callback \/ Call \/ Running \/ Fault

(* The DMA moves what is queued, and a process runs when it can.           *)
Spec == Init /\ [][Next]_vars
FairSpec == Spec /\ WF_vars(Callback) /\ WF_vars(Running)

-------------------------------------------------------------------------------
(* The fragments queued are the ones before the current one, in the order  *)
(* of the ring, and exactly their semaphores are taken, once each: neither *)
(* the callbacks nor the calls ever give one up twice or not at all.       *)
RingInOrder ==
    buffers /\ ~failed =>
        /\ \A i \in 1..Len(dma) :
               dma[i][1] = (buf_idx + nbfrags - Len(dma) + i - 1) % nbfrags
        /\ \A f \in Frags : sem[f] = IF \E i \in 1..Len(dma) : dma[i][1] = f THEN 0 ELSE 1

(* audio_sync waits for one fragment only, yet returns 0 only when all     *)
(* that was written has been played: release then cuts nothing off.        *)
SyncMeansPlayed ==
    pc = "synced" /\ file = "write" => dma = <<>> /\ size[buf_idx] = 0

(* poll looks at fragment 0 only, yet reports that write can go on only    *)
(* when the current fragment is free, whichever that is.                   *)
PollTruth == buffers /\ ~failed /\ Mask => sem[buf_idx] = 1

(* The units in the stream: of an output stream those of the fragments     *)
(* queued and of the current one, of an input stream those of the          *)
(* fragments that are full, from where read has come to in the current one. *)
Playing == FlattenSeq([i \in 1..Len(dma) |-> SubSeq(mem[dma[i][1]], 1, dma[i][2])])
               \o SubSeq(mem[buf_idx], 1, size[buf_idx])

Recorded == FlattenSeq([i \in 1..nbfrags |->
                LET f == (buf_idx + i - 1) % nbfrags
                IN  SubSeq(mem[f], fragsize - size[f] + 1, fragsize)])

Queue == IF file = "write" THEN Playing ELSE Recorded

Fifo == INSTANCE AudioFifo WITH queue <- Queue

(* The codec is sent the units the process wrote, and the process given    *)
(* those the codec sent, in order and once each, however the calls, the    *)
(* callbacks and the refusals of the DMA follow one another.               *)
StreamIsFifo == Fifo!Spec

(* write, read and audio_sync return, unless the DMA has refused a         *)
(* fragment (whose semaphore nothing then gives up).                       *)
CallReturns ==
    []~failed => (pc \in {"write", "read", "sync", "await"} ~> pc = "idle")
===============================================================================
