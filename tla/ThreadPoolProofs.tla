--------------------------- MODULE ThreadPoolProofs ---------------------------
(***************************************************************************)
(* Proofs about ThreadPool, for any finite set of workers and any number   *)
(* of producers and jobs.                                                  *)
(*                                                                         *)
(* Places says which values go with which place in the code; with TypeOK   *)
(* and MutualExclusion it is inductive, and the properties follow from it. *)
(***************************************************************************)
EXTENDS ThreadPool, FiniteSetTheorems, TLAPS

(* A worker that passed the loop of lines 60-65 has a job to take or was   *)
(* told to stop; the locals of create and destroy point where their loops  *)
(* are.                                                                    *)
Places ==
    /\ \A w \in Workers : wpc[w] = "test" => (w \in terminate \/ jobs # <<>>)
    /\ \A w \in Workers : wpc[w] = "take" => jobs # <<>>
    /\ \A w \in Workers : wpc[w] = "wait" => jobs = <<>>
    /\ \A w \in Workers : wpc[w] = "run" <=> cur[w] # None
    /\ opc = "spawn" => (new \in Workers /\ wpc[new] = "none")
    /\ opc = "link" => new \in Workers
    /\ cursor # None => cursor \in Range(workes)
    /\ opc = "next" => cursor # None

IInv == TypeOK /\ MutualExclusion /\ Places

-------------------------------------------------------------------------------
(* The lists: LL_ADD puts one item in front, LL_REMOVE takes one away.     *)
LEMMA AddIsSeq ==
    ASSUME NEW S, NEW e \in S, NEW s \in Seq(S)
    PROVE  /\ LL_ADD(e, s) \in Seq(S)
           /\ Len(LL_ADD(e, s)) = Len(s) + 1
           /\ LL_ADD(e, s) # <<>>
           /\ Range(LL_ADD(e, s)) = Range(s) \cup {e}
<1> DEFINE t == LL_ADD(e, s)
<1>1. /\ t \in Seq(S)
      /\ Len(t) = Len(s) + 1
      /\ t # <<>>
      /\ t[1] = e
      /\ \A i \in 1..Len(s) : t[i + 1] = s[i]
  BY DEF LL_ADD
<1>2. /\ DOMAIN t = 1..(Len(s) + 1)
      /\ DOMAIN s = 1..Len(s)
  BY <1>1
<1>3. Range(t) \subseteq Range(s) \cup {e}
  <2> SUFFICES ASSUME NEW i \in 1..(Len(s) + 1)
               PROVE  t[i] \in Range(s) \cup {e}
    BY <1>2 DEF Range
  <2>1. CASE i = 1
    BY <2>1, <1>1
  <2>2. CASE i # 1
    <3>1. i - 1 \in 1..Len(s)
      BY <2>2
    <3>2. t[(i - 1) + 1] = s[i - 1]
      BY <3>1, <1>1
    <3> QED
      BY <3>1, <3>2, <1>2 DEF Range
  <2> QED
    BY <2>1, <2>2
<1>4. Range(s) \subseteq Range(t)
  <2> SUFFICES ASSUME NEW i \in 1..Len(s)
               PROVE  s[i] \in Range(t)
    BY <1>2 DEF Range
  <2>1. t[i + 1] = s[i] /\ i + 1 \in 1..(Len(s) + 1)
    BY <1>1
  <2> QED
    BY <2>1, <1>2 DEF Range
<1>5. e \in Range(t)
  BY <1>1, <1>2 DEF Range
<1> QED
  BY <1>1, <1>3, <1>4, <1>5

(* LL_REMOVE of the first node leaves a list that is one shorter.          *)
LEMMA RemoveIsSeq ==
    ASSUME NEW S, NEW s \in Seq(S), s # <<>>
    PROVE  /\ LL_REMOVE(s) \in Seq(S)
           /\ Len(LL_REMOVE(s)) = Len(s) - 1
           /\ First(s) = s[1]
           /\ First(s) \in S
  BY DEF LL_REMOVE, First

(* The worker after one of the list is in the list, or there is none.      *)
LEMMA NextOfType ==
    ASSUME workes \in Seq(Workers), NEW w \in Range(workes)
    PROVE  NextOf(w) \in Range(workes) \cup {None}
<1> DEFINE i == CHOOSE k \in DOMAIN workes : workes[k] = w
<1>1. i \in DOMAIN workes
  BY DEF Range
<1>2. DOMAIN workes = 1..Len(workes)
  OBVIOUS
<1>3. NextOf(w) = IF i < Len(workes) THEN workes[i + 1] ELSE None
  BY DEF NextOf
<1>4. CASE i < Len(workes)
  <2>1. i + 1 \in DOMAIN workes
    BY <1>1, <1>2, <1>4
  <2> QED
    BY <1>3, <1>4, <2>1 DEF Range
<1>5. CASE ~(i < Len(workes))
  BY <1>3, <1>5
<1> QED
  BY <1>4, <1>5

-------------------------------------------------------------------------------
(* The invariant IInv.                                                     *)
LEMMA InitIInv == Init => IInv
<1> SUFFICES ASSUME Init
             PROVE  IInv
  OBVIOUS
<1>1. todo \in Int
  <2>1. \A n \in Requests : AtLeastOne(n) \in Int
    BY ThreadsAssumption DEF AtLeastOne
  <2> QED
    BY <2>1 DEF Init
<1>2. TypeOK
  <2>1. jobs \in Seq(Jobs) /\ workes \in Seq(Workers)
    BY DEF Init
  <2>2. wpc \in [Workers -> WorkerStates] /\ opc \in OwnerStates
    BY DEF Init, WorkerStates, OwnerStates
  <2>3. cur \in [Workers -> Jobs \cup {None}]
    BY DEF Init
  <2> QED
    BY <1>1, <2>1, <2>2, <2>3 DEF Init, TypeOK
<1>3. MutualExclusion
  BY ThreadsAssumption DEF Init, MutualExclusion
<1>4. Places
  BY DEF Init, Places
<1> QED
  BY <1>2, <1>3, <1>4 DEF IInv

(* thread_cb, one step per action.                                         *)
LEMMA WorkerIInv ==
    ASSUME IInv, NEW w \in Workers, Worker(w) \/ SpuriousWakeup(w)
    PROVE  IInv'
<1> USE ThreadsAssumption DEF IInv, TypeOK, MutualExclusion, Places, WorkerStates, ownerVars
<1>1. CASE WorkerLock(w)
  BY <1>1 DEF WorkerLock
<1>2. CASE WorkerCheck(w)
  BY <1>2 DEF WorkerCheck
<1>3. CASE WorkerStop(w)
  BY <1>3 DEF WorkerStop
<1>4. CASE WorkerTake(w)
  <2>1. jobs # <<>>
    BY <1>4 DEF WorkerTake
  <2>2. LL_REMOVE(jobs) \in Seq(Jobs) /\ First(jobs) \in Jobs
    BY <2>1, RemoveIsSeq
  <2> QED
    BY <1>4, <2>1, <2>2 DEF WorkerTake
<1>5. CASE WorkerRun(w)
  BY <1>5 DEF WorkerRun
<1>6. CASE WorkerFree(w)
  BY <1>6 DEF WorkerFree
<1>7. CASE SpuriousWakeup(w)
  BY <1>7 DEF SpuriousWakeup, Wake
<1>8. CASE WorkerWait(w)
  BY <1>8 DEF WorkerWait
<1>9. CASE WorkerTest(w)
  BY <1>9 DEF WorkerTest
<1> QED
  BY <1>1, <1>2, <1>3, <1>4, <1>5, <1>6, <1>7, <1>8, <1>9 DEF Worker

(* nThreadPoolPushTask.                                                    *)
LEMMA PushIInv ==
    ASSUME IInv, NEW p \in Producers, PushLock(p) \/ PushTask(p)
    PROVE  IInv'
<1> USE ThreadsAssumption DEF IInv, TypeOK, MutualExclusion, Places, WorkerStates, ownerVars
<1>1. CASE PushLock(p)
  BY <1>1 DEF PushLock
<1>2. CASE PushTask(p)
  <2>1. jobs' \in Seq(Jobs) /\ jobs' # <<>>
    BY <1>2, AddIsSeq DEF PushTask
  <2>2. /\ wpc' \in [Workers -> WorkerStates]
        /\ \A w \in Workers : \/ wpc'[w] = wpc[w]
                              \/ wpc[w] = "asleep" /\ wpc'[w] = "woken"
    BY <1>2 DEF PushTask, Signal, Wake, Sleepers
  <2> QED
    BY <1>2, <2>1, <2>2 DEF PushTask
<1> QED
  BY <1>1, <1>2

(* nThreadPoolCreate.                                                      *)
LEMMA CreateIInv ==
    ASSUME IInv, Create
    PROVE  IInv'
<1> USE ThreadsAssumption DEF IInv, TypeOK, MutualExclusion, Places, WorkerStates, OwnerStates
<1>1. CASE CreateMalloc
  BY <1>1 DEF CreateMalloc
<1>2. CASE CreateSpawn
  BY <1>2 DEF CreateSpawn
<1>3. CASE CreateLink
  <2>1. workes' \in Seq(Workers) /\ Range(workes') = Range(workes) \cup {new}
    BY <1>3, AddIsSeq DEF CreateLink
  <2> QED
    BY <1>3, <2>1 DEF CreateLink
<1> QED
  BY <1>1, <1>2, <1>3 DEF Create

(* nThreadPoolDestory.                                                     *)
LEMMA DestroyIInv ==
    ASSUME IInv, DestroyStart \/ Destroy
    PROVE  IInv'
<1> USE ThreadsAssumption DEF IInv, TypeOK, MutualExclusion, Places, WorkerStates, OwnerStates
<1>1. CASE DestroyStart
  <2>1. First(workes) # None => First(workes) \in Workers /\ First(workes) \in Range(workes)
    BY DEF First, Range
  <2> QED
    BY <1>1, <2>1 DEF DestroyStart
<1>2. CASE DestroySet
  BY <1>2 DEF DestroySet
<1>3. CASE DestroyNext
  <2>1. NextOf(cursor) \in Range(workes) \cup {None}
    BY <1>3, NextOfType DEF DestroyNext
  <2>2. Range(workes) \subseteq Workers
    BY DEF Range
  <2>3. uaf' \in BOOLEAN
    BY <1>3 DEF DestroyNext
  <2> QED
    BY <1>3, <2>1, <2>2, <2>3 DEF DestroyNext
<1>4. CASE DestroyLock
  BY <1>4 DEF DestroyLock
<1>5. CASE DestroyBroadcast
  BY <1>5 DEF DestroyBroadcast, Broadcast, Wake, Sleepers
<1> QED
  BY <1>1, <1>2, <1>3, <1>4, <1>5 DEF Destroy

(* Every step keeps the invariant.                                         *)
LEMMA NextIInv == IInv /\ [Next]_vars => IInv'
<1> SUFFICES ASSUME IInv, [Next]_vars
             PROVE  IInv'
  OBVIOUS
<1>1. CASE UNCHANGED vars
  BY <1>1 DEF vars, IInv, TypeOK, MutualExclusion, Places
<1>2. CASE Next
  BY <1>2, WorkerIInv, PushIInv, CreateIInv, DestroyIInv DEF Next
<1> QED
  BY <1>1, <1>2

(* The invariant holds in every state.                                     *)
THEOREM Invariant == Spec => []IInv
  BY InitIInv, NextIInv, PTL DEF Spec

(* Type correctness of the pool, its workers and its callers.              *)
THEOREM TypeCorrect == Spec => []TypeOK
<1>1. IInv => TypeOK
  BY DEF IInv
<1> QED
  BY <1>1, Invariant, PTL

(* At most one thread is between the lock and the unlock of mtx.           *)
THEOREM Exclusion == Spec => []MutualExclusion
<1>1. IInv => MutualExclusion
  BY DEF IInv
<1> QED
  BY <1>1, Invariant, PTL

(* A worker that leaves the wait loop has a job to take: line 80 never     *)
(* follows a NULL one.                                                     *)
THEOREM JobIsNotNull == Spec => []NoNullJob
<1>1. IInv => NoNullJob
  BY DEF IInv, TypeOK, Places, NoNullJob
<1> QED
  BY <1>1, Invariant, PTL

-------------------------------------------------------------------------------
(* One signal per pushed job is enough.  WorkConserving is inductive       *)
(* relative to IInv; the argument counts the workers on their way to the   *)
(* list: only taking a job takes a worker away from them, and a push that  *)
(* finds a sleeper adds one.                                               *)
LEMMA OnTheirWayFinite == IsFiniteSet(OnTheirWay) /\ IsFiniteSet(OnTheirWay')
<1>1. OnTheirWay \subseteq Workers /\ OnTheirWay' \subseteq Workers
  BY DEF OnTheirWay
<1> QED
  BY <1>1, ThreadsAssumption, FS_Subset

(* A step that removes nobody from OnTheirWay, adds no job and puts nobody *)
(* to sleep preserves it.                                                  *)
LEMMA MoreOnTheirWay ==
    ASSUME WorkConserving, Len(jobs') <= Len(jobs), jobs \in Seq(Jobs), jobs' \in Seq(Jobs),
           Sleepers' \subseteq Sleepers, OnTheirWay \subseteq OnTheirWay',
           terminate \subseteq terminate'
    PROVE  WorkConserving'
<1>1. Cardinality(OnTheirWay) <= Cardinality(OnTheirWay')
  BY OnTheirWayFinite, FS_Subset
<1>2. Cardinality(OnTheirWay) \in Nat /\ Cardinality(OnTheirWay') \in Nat
  BY OnTheirWayFinite, FS_CardinalityType
<1>3. Len(jobs) \in Nat /\ Len(jobs') \in Nat
  OBVIOUS
<1> SUFFICES ASSUME Sleepers' # {}, terminate' = {}
             PROVE  Len(jobs') <= Cardinality(OnTheirWay')
  BY DEF WorkConserving
<1>4. Sleepers # {} /\ terminate = {}
  OBVIOUS
<1>5. Len(jobs) <= Cardinality(OnTheirWay)
  BY <1>4 DEF WorkConserving
<1> QED
  BY <1>1, <1>2, <1>3, <1>5

(* Every step keeps a job that waits covered by a worker on its way.       *)
LEMMA NextWorkConserving == IInv /\ WorkConserving /\ [Next]_vars => WorkConserving'
<1> SUFFICES ASSUME IInv, WorkConserving, [Next]_vars
             PROVE  WorkConserving'
  OBVIOUS
<1>a. jobs \in Seq(Jobs) /\ jobs' \in Seq(Jobs)
  BY NextIInv DEF IInv, TypeOK
<1>b. /\ Cardinality(OnTheirWay) \in Nat /\ Len(jobs) \in Nat
      /\ wpc \in [Workers -> WorkerStates]
  BY <1>a, OnTheirWayFinite, FS_CardinalityType DEF IInv, TypeOK
<1>1. ASSUME NEW w \in Workers, WorkerLock(w)
      PROVE  WorkConserving'
  <2>1. Sleepers' = Sleepers /\ OnTheirWay' = OnTheirWay
    BY <1>1, <1>b DEF WorkerLock, Sleepers, OnTheirWay
  <2> QED
    BY <1>1, <1>a, <2>1, MoreOnTheirWay DEF WorkerLock
<1>2. ASSUME NEW w \in Workers, WorkerCheck(w)
      PROVE  WorkConserving'
  <2>1. CASE jobs = <<>>
    <3>1. jobs' = <<>>
      BY <1>2, <2>1 DEF WorkerCheck
    <3>2. Cardinality(OnTheirWay') \in Nat
      BY OnTheirWayFinite, FS_CardinalityType
    <3> QED
      BY <3>1, <3>2 DEF WorkConserving
  <2>2. CASE jobs # <<>>
    <3>1. wpc' = [wpc EXCEPT ![w] = "test"]
      BY <1>2, <1>b, <2>2 DEF WorkerCheck
    <3>2. Sleepers' = Sleepers /\ OnTheirWay' = OnTheirWay
      BY <1>2, <1>b, <3>1 DEF WorkerCheck, Sleepers, OnTheirWay
    <3> QED
      BY <1>2, <1>a, <3>2, MoreOnTheirWay DEF WorkerCheck
  <2> QED
    BY <2>1, <2>2
<1>12. ASSUME NEW w \in Workers, WorkerWait(w)
       PROVE  WorkConserving'
  <2>1. jobs' = <<>>
    BY <1>12 DEF WorkerWait, IInv, Places
  <2>2. Cardinality(OnTheirWay') \in Nat
    BY OnTheirWayFinite, FS_CardinalityType
  <2> QED
    BY <2>1, <2>2 DEF WorkConserving
<1>13. ASSUME NEW w \in Workers, WorkerTest(w)
       PROVE  WorkConserving'
  <2>1. Sleepers' = Sleepers /\ OnTheirWay' = OnTheirWay
    BY <1>13, <1>b DEF WorkerTest, Sleepers, OnTheirWay
  <2> QED
    BY <1>13, <1>a, <2>1, MoreOnTheirWay DEF WorkerTest
<1>3. ASSUME NEW w \in Workers, WorkerStop(w)
      PROVE  WorkConserving'
  BY <1>3 DEF WorkerStop, WorkConserving
<1>4. ASSUME NEW w \in Workers, WorkerTake(w)
      PROVE  WorkConserving'
  <2>1. jobs # <<>>
    BY <1>4 DEF WorkerTake, IInv, Places
  <2>2. Len(jobs') = Len(jobs) - 1
    BY <1>4, <1>a, <2>1, RemoveIsSeq DEF WorkerTake
  <2>3. Sleepers' = Sleepers /\ OnTheirWay' = OnTheirWay \ {w} /\ w \in OnTheirWay
    BY <1>4, <1>b DEF WorkerTake, Sleepers, OnTheirWay
  <2>4. Cardinality(OnTheirWay') = Cardinality(OnTheirWay) - 1
    BY <2>3, OnTheirWayFinite, FS_RemoveElement
  <2> SUFFICES ASSUME Sleepers' # {}, terminate' = {}
               PROVE  Len(jobs') <= Cardinality(OnTheirWay')
    BY DEF WorkConserving
  <2>5. Len(jobs) <= Cardinality(OnTheirWay)
    BY <1>4, <2>3 DEF WorkerTake, WorkConserving
  <2> QED
    BY <1>b, <2>2, <2>4, <2>5
<1>5. ASSUME NEW w \in Workers, WorkerRun(w) \/ WorkerFree(w) \/ SpuriousWakeup(w)
      PROVE  WorkConserving'
  <2>1. Sleepers' \subseteq Sleepers /\ OnTheirWay \subseteq OnTheirWay'
    BY <1>5, <1>b DEF WorkerRun, WorkerFree, SpuriousWakeup, Wake, Sleepers, OnTheirWay
  <2> QED
    BY <1>5, <1>a, <2>1, MoreOnTheirWay DEF WorkerRun, WorkerFree, SpuriousWakeup
<1>6. ASSUME NEW p \in Producers, PushLock(p)
      PROVE  WorkConserving'
  BY <1>6 DEF PushLock, ownerVars, WorkConserving, Sleepers, OnTheirWay
<1>7. ASSUME NEW p \in Producers, PushTask(p)
      PROVE  WorkConserving'
  <2>1. Len(jobs') = Len(jobs) + 1
    BY <1>7, <1>a, AddIsSeq DEF PushTask
  <2>2. CASE Sleepers = {} /\ UNCHANGED wpc
    BY <2>2 DEF WorkConserving, Sleepers
  <2>3. CASE \E w \in Sleepers : Wake({w})
    <3>1. PICK w \in Sleepers : Wake({w})
      BY <2>3
    <3>2. OnTheirWay' = OnTheirWay \cup {w} /\ w \notin OnTheirWay
      BY <3>1, <1>b DEF Wake, Sleepers, OnTheirWay
    <3>3. Cardinality(OnTheirWay') = Cardinality(OnTheirWay) + 1
      BY <3>2, OnTheirWayFinite, FS_AddElement
    <3> SUFFICES ASSUME terminate' = {}
                 PROVE  Len(jobs') <= Cardinality(OnTheirWay')
      BY DEF WorkConserving
    <3>4. Len(jobs) <= Cardinality(OnTheirWay)
      BY <1>7, <3>1 DEF PushTask, WorkConserving
    <3> QED
      BY <1>b, <2>1, <3>3, <3>4
  <2> QED
    BY <1>7, <2>2, <2>3 DEF PushTask, Signal
<1>8. CASE Create
  <2>1. Sleepers' = Sleepers /\ OnTheirWay \subseteq OnTheirWay'
    BY <1>8, <1>b DEF Create, CreateMalloc, CreateSpawn, CreateLink, Sleepers, OnTheirWay,
                      IInv, Places
  <2>2. UNCHANGED <<jobs, terminate>>
    BY <1>8 DEF Create, CreateMalloc, CreateSpawn, CreateLink
  <2> QED
    BY <1>a, <2>1, <2>2, MoreOnTheirWay
<1>9. CASE DestroyStart \/ DestroySet \/ DestroyNext \/ DestroyLock
  <2>1. Sleepers' = Sleepers /\ OnTheirWay' = OnTheirWay
    BY <1>9 DEF DestroyStart, DestroySet, DestroyNext, DestroyLock, Sleepers, OnTheirWay
  <2>2. jobs' = jobs /\ terminate \subseteq terminate'
    BY <1>9 DEF DestroyStart, DestroySet, DestroyNext, DestroyLock
  <2> QED
    BY <1>a, <2>1, <2>2, MoreOnTheirWay
<1>10. CASE DestroyBroadcast
  BY <1>10 DEF DestroyBroadcast, Broadcast, Wake, Sleepers, WorkConserving
<1>11. CASE UNCHANGED vars
  BY <1>11 DEF vars, WorkConserving, Sleepers, OnTheirWay
<1> QED
  BY <1>1, <1>2, <1>3, <1>4, <1>5, <1>6, <1>7, <1>8, <1>9, <1>10, <1>11, <1>12, <1>13
     DEF Next, Worker, Destroy

(* No lost wakeup: while the pool is in use, a worker sleeps only if each  *)
(* queued job has an awake worker on its way to the list.                  *)
THEOREM NoLostWakeup == Spec => []WorkConserving
<1>1. Init => WorkConserving
  BY DEF Init, WorkConserving, Sleepers
<1> QED
  BY <1>1, Invariant, NextWorkConserving, PTL DEF Spec

-------------------------------------------------------------------------------
(* Nobody sleeps through the destroy: when it has sent its broadcast, no   *)
(* worker that was told to stop is asleep or about to be.                  *)
NoneGoesToSleep ==
    opc = "destroyed" => \A w \in Workers : wpc[w] \in {"wait", "asleep"} => w \notin terminate

(* Every step keeps it so.                                                 *)
LEMMA NextNoneSleeps == IInv /\ NoneGoesToSleep /\ [Next]_vars => NoneGoesToSleep'
<1> SUFFICES ASSUME IInv, NoneGoesToSleep, [Next]_vars, opc' = "destroyed",
                    NEW w \in Workers, wpc'[w] \in {"wait", "asleep"}
             PROVE  w \notin terminate'
  BY DEF NoneGoesToSleep
<1>a. wpc \in [Workers -> WorkerStates]
  BY DEF IInv, TypeOK
<1>b. opc = "destroyed" /\ wpc[w] \in {"wait", "asleep"} => w \notin terminate
  BY DEF NoneGoesToSleep
<1>1. ASSUME NEW v \in Workers, Worker(v) \/ SpuriousWakeup(v)
      PROVE  w \notin terminate'
  <2>1. opc = "destroyed" /\ terminate' = terminate
    BY <1>1 DEF Worker, WorkerLock, WorkerCheck, WorkerWait, WorkerStop, WorkerTest, WorkerTake,
                WorkerRun, WorkerFree, SpuriousWakeup, ownerVars
  <2>2. wpc[w] \in {"wait", "asleep"} \/ w \notin terminate
    BY <1>1, <1>a DEF Worker, WorkerLock, WorkerCheck, WorkerWait, WorkerStop, WorkerTest,
                      WorkerTake, WorkerRun, WorkerFree, SpuriousWakeup, Wake
  <2> QED
    BY <2>1, <2>2, <1>b
<1>2. ASSUME NEW p \in Producers, PushLock(p) \/ PushTask(p)
      PROVE  w \notin terminate'
  <2>1. opc = "destroyed" /\ terminate' = terminate
    BY <1>2 DEF PushLock, PushTask, ownerVars
  <2>2. wpc[w] \in {"wait", "asleep"}
    BY <1>2, <1>a DEF PushLock, PushTask, Signal, Wake, Sleepers
  <2> QED
    BY <2>1, <2>2, <1>b
<1>3. CASE DestroyBroadcast
  <2>1. wpc[w] # "wait"
    BY <1>3, ThreadsAssumption DEF DestroyBroadcast, IInv, MutualExclusion
  <2> QED
    BY <1>3, <1>a, <2>1 DEF DestroyBroadcast, Broadcast, Wake, Sleepers
<1>4. CASE Create \/ DestroyStart \/ DestroySet \/ DestroyNext \/ DestroyLock
  BY <1>4 DEF Create, CreateMalloc, CreateSpawn, CreateLink, DestroyStart, DestroySet,
              DestroyNext, DestroyLock
<1>5. CASE UNCHANGED vars
  BY <1>5, <1>b DEF vars
<1> QED
  BY <1>1, <1>2, <1>3, <1>4, <1>5 DEF Next, Destroy

(* A worker told to stop is not asleep once the broadcast was sent.        *)
THEOREM NobodyMissesTheBroadcast == Spec => []NoneSleepsThroughDestroy
<1>1. Init => NoneGoesToSleep
  BY DEF Init, NoneGoesToSleep
<1>2. NoneGoesToSleep => NoneSleepsThroughDestroy
  BY DEF NoneGoesToSleep, NoneSleepsThroughDestroy, Sleepers
<1> QED
  BY <1>1, <1>2, Invariant, NextNoneSleeps, PTL DEF Spec

-------------------------------------------------------------------------------
(* The abstract pool.  The mapping needs the jobs of the list to differ,   *)
(* so that a job that was taken is no longer in it.                        *)
JobsDiffer == \A i, k \in 1..Len(jobs) : jobs[i] = jobs[k] => i = k

(* No job enters the list twice.                                           *)
LEMMA NextJobsDiffer == IInv /\ JobsDiffer /\ [Next]_vars => JobsDiffer'
<1> SUFFICES ASSUME IInv, JobsDiffer, [Next]_vars
             PROVE  JobsDiffer'
  OBVIOUS
<1>a. jobs \in Seq(Jobs)
  BY DEF IInv, TypeOK
<1>1. ASSUME NEW w \in Workers, WorkerTake(w)
      PROVE  JobsDiffer'
  <2>1. CASE jobs = <<>>
    BY <1>1, <2>1 DEF WorkerTake, JobsDiffer
  <2>2. CASE jobs # <<>>
    <3>1. jobs' = Tail(jobs)
      BY <1>1, <2>2 DEF WorkerTake, LL_REMOVE
    <3>2. \A i \in 1..Len(jobs') : i + 1 \in 1..Len(jobs) /\ jobs'[i] = jobs[i + 1]
      BY <1>a, <2>2, <3>1
    <3> QED
      BY <3>2 DEF JobsDiffer
  <2> QED
    BY <2>1, <2>2
<1>2. ASSUME NEW p \in Producers, PushTask(p)
      PROVE  JobsDiffer'
  <2>1. PICK j \in Jobs : Fresh(j) /\ jobs' = LL_ADD(j, jobs)
    BY <1>2 DEF PushTask
  <2>2. /\ jobs'[1] = j
        /\ Len(jobs') = Len(jobs) + 1
        /\ \A i \in 1..Len(jobs') : i # 1 => i - 1 \in 1..Len(jobs) /\ jobs'[i] = jobs[i - 1]
    BY <1>a, <2>1 DEF LL_ADD
  <2>3. \A i \in 1..Len(jobs) : jobs[i] # j
    BY <1>a, <2>1 DEF Fresh, Range
  <2> SUFFICES ASSUME NEW i \in 1..Len(jobs'), NEW k \in 1..Len(jobs'), jobs'[i] = jobs'[k]
               PROVE  i = k
    BY DEF JobsDiffer
  <2>4. CASE i = 1 \/ k = 1
    BY <2>2, <2>3, <2>4
  <2>5. CASE i # 1 /\ k # 1
    <3>1. i - 1 = k - 1
      BY <2>2, <2>5 DEF JobsDiffer
    <3> QED
      BY <3>1
  <2> QED
    BY <2>4, <2>5
<1>3. CASE jobs' = jobs
  BY <1>3 DEF JobsDiffer
<1>4. \/ jobs' = jobs
      \/ \E w \in Workers : WorkerTake(w)
      \/ \E p \in Producers : PushTask(p)
  BY DEF Next, Worker, WorkerLock, WorkerCheck, WorkerWait, WorkerStop, WorkerTest, WorkerRun,
         WorkerFree, SpuriousWakeup, PushLock, Create, CreateMalloc, CreateSpawn, CreateLink,
         DestroyStart, Destroy, DestroySet, DestroyNext, DestroyLock, DestroyBroadcast, vars
<1> QED
  BY <1>1, <1>2, <1>3, <1>4

(* Every step of the thread pool is one of the abstract pool or stutters.  *)
LEMMA StepsOfThePool ==
    IInv /\ JobsDiffer /\ [Next]_vars => [Pool!PoolNext]_(Pool!poolVars)
<1> SUFFICES ASSUME IInv, JobsDiffer, [Next]_vars
             PROVE  [Pool!PoolNext]_(Pool!poolVars)
  OBVIOUS
<1>a. jobs \in Seq(Jobs) /\ cur \in [Workers -> Jobs \cup {None}]
  BY DEF IInv, TypeOK
<1>1. ASSUME NEW w \in Workers, WorkerTake(w)
      PROVE  Pool!Start(w, First(jobs)) /\ First(jobs) \in Jobs
  <2>1. jobs # <<>> /\ cur[w] = None
    BY <1>1 DEF WorkerTake, IInv, Places
  <2>2. First(jobs) = jobs[1] /\ First(jobs) \in Jobs /\ jobs' = Tail(jobs)
    BY <1>1, <1>a, <2>1, RemoveIsSeq DEF WorkerTake, LL_REMOVE
  <2>3. /\ Len(jobs') = Len(jobs) - 1
        /\ \A i \in 1..Len(jobs') : i + 1 \in 1..Len(jobs) /\ jobs'[i] = jobs[i + 1]
    BY <1>a, <2>1, <2>2
  <2>4. DOMAIN jobs = 1..Len(jobs) /\ DOMAIN jobs' = 1..Len(jobs') /\ 1 \in 1..Len(jobs)
    BY <1>a, <2>1, <2>2
  <2>5. Range(jobs') \subseteq Range(jobs) \ {jobs[1]}
    <3> SUFFICES ASSUME NEW i \in 1..Len(jobs')
                 PROVE  jobs'[i] \in Range(jobs) \ {jobs[1]}
      BY <2>4 DEF Range
    <3>1. i + 1 \in 1..Len(jobs) /\ jobs'[i] = jobs[i + 1] /\ i + 1 # 1
      BY <2>3
    <3> QED
      BY <3>1, <2>4 DEF JobsDiffer, Range
  <2>6. Range(jobs) \ {jobs[1]} \subseteq Range(jobs')
    <3> SUFFICES ASSUME NEW i \in 1..Len(jobs), i # 1
                 PROVE  jobs[i] \in Range(jobs')
      BY <2>4 DEF Range
    <3>1. i - 1 \in 1..Len(jobs')
      BY <2>3, <1>a
    <3>2. jobs'[i - 1] = jobs[(i - 1) + 1]
      BY <3>1, <2>3
    <3> QED
      BY <3>1, <3>2, <2>4 DEF Range
  <2>7. jobs[1] \in Range(jobs)
    BY <2>4 DEF Range
  <2> QED
    BY <1>1, <2>1, <2>2, <2>5, <2>6, <2>7 DEF WorkerTake, Pool!Start
<1>2. ASSUME NEW p \in Producers, PushTask(p)
      PROVE  \E j \in Jobs : Pool!Submit(j)
  <2>1. PICK j \in Jobs : Fresh(j) /\ jobs' = LL_ADD(j, jobs)
    BY <1>2 DEF PushTask
  <2>2. Range(jobs') = Range(jobs) \cup {j}
    BY <1>a, <2>1, AddIsSeq
  <2> QED
    BY <1>2, <2>1, <2>2 DEF PushTask, Fresh, Pool!Submit, Pool!Unused
<1>3. ASSUME NEW w \in Workers, WorkerRun(w)
      PROVE  Pool!Finish(w)
  <2>1. cur[w] \in Jobs
    BY <1>3, <1>a DEF WorkerRun, IInv, Places
  <2> QED
    BY <1>3, <2>1 DEF WorkerRun, Pool!Finish
<1>4. CASE UNCHANGED <<jobs, cur, done>>
  BY <1>4 DEF Pool!poolVars
<1>5. \/ UNCHANGED <<jobs, cur, done>>
      \/ \E w \in Workers : WorkerTake(w) \/ WorkerRun(w)
      \/ \E p \in Producers : PushTask(p)
  BY DEF Next, Worker, WorkerLock, WorkerCheck, WorkerWait, WorkerStop, WorkerTest, WorkerFree,
         SpuriousWakeup, PushLock, Create, CreateMalloc, CreateSpawn, CreateLink,
         DestroyStart, Destroy, DestroySet, DestroyNext, DestroyLock, DestroyBroadcast, vars
<1> QED
  BY <1>1, <1>2, <1>3, <1>4, <1>5 DEF Pool!PoolNext

(* threadpool.c implements the abstract pool: no pushed job is lost, run   *)
(* by two workers, or run twice.                                           *)
THEOREM Refinement == Spec => ImplementsPool
<1>1. Init => JobsDiffer /\ Pool!PoolInit
  BY DEF Init, JobsDiffer, Pool!PoolInit, Range
<1> QED
  BY <1>1, Invariant, NextJobsDiffer, StepsOfThePool, PTL
     DEF Spec, ImplementsPool, Pool!PoolSpec

-------------------------------------------------------------------------------
(* The destroy reaches every worker.  Linked: the records of the list      *)
(* differ and are those of the threads that were started, but for the one  *)
(* about to be linked.  Passed: unless it went through freed memory, the   *)
(* loop has set the flag of each record before its cursor.                 *)
Linked ==
    /\ \A i, k \in 1..Len(workes) : workes[i] = workes[k] => i = k
    /\ \A w \in Workers : wpc[w] # "none" => (w \in Range(workes) \/ (opc = "link" /\ w = new))
    /\ \A w \in Range(workes) : wpc[w] # "none"
    /\ opc = "link" => new \notin Range(workes) /\ wpc[new] # "none"

Told(k) == \A i \in 1..k : workes[i] \in terminate

Passed ==
    ~uaf => /\ opc = "set" /\ cursor = None => Told(Len(workes))
            /\ opc = "set" /\ cursor # None =>
                   \E k \in 1..Len(workes) : workes[k] = cursor /\ Told(k - 1)
            /\ opc = "next" => \E k \in 1..Len(workes) : workes[k] = cursor /\ Told(k)
            /\ opc \in {"dlock", "broadcast", "destroyed"} => Told(Len(workes))

(* Every step keeps the list to the threads that were started.             *)
LEMMA NextLinked == IInv /\ Linked /\ [Next]_vars => Linked'
<1> SUFFICES ASSUME IInv, Linked, [Next]_vars
             PROVE  Linked'
  OBVIOUS
<1>a. /\ workes \in Seq(Workers) /\ wpc \in [Workers -> WorkerStates]
      /\ opc = "spawn" => new \in Workers /\ wpc[new] = "none"
      /\ opc = "link" => new \in Workers
  BY DEF IInv, TypeOK, Places
<1>1. ASSUME NEW w \in Workers, Worker(w) \/ SpuriousWakeup(w)
      PROVE  Linked'
  <2>1. /\ UNCHANGED ownerVars
        /\ \A v \in Workers : wpc[v] # "none" <=> wpc'[v] # "none"
    BY <1>1, <1>a DEF Worker, WorkerLock, WorkerCheck, WorkerWait, WorkerStop, WorkerTest,
                      WorkerTake, WorkerRun, WorkerFree, SpuriousWakeup, Wake
  <2> QED
    BY <2>1, <1>a DEF Linked, ownerVars, Range
<1>2. ASSUME NEW p \in Producers, PushLock(p) \/ PushTask(p)
      PROVE  Linked'
  <2>1. /\ UNCHANGED ownerVars
        /\ \A v \in Workers : wpc[v] # "none" <=> wpc'[v] # "none"
    BY <1>2, <1>a DEF PushLock, PushTask, Signal, Wake, Sleepers
  <2> QED
    BY <2>1, <1>a DEF Linked, ownerVars, Range
<1>3. CASE CreateMalloc
  BY <1>3 DEF CreateMalloc, Linked, Range
<1>4. CASE CreateSpawn
  <2>1. new \notin Range(workes) /\ opc # "link"
    BY <1>4, <1>a DEF CreateSpawn, Linked
  <2>2. workes' = workes
    BY <1>4 DEF CreateSpawn
  <2>3. CASE wpc' = [wpc EXCEPT ![new] = "lock"] /\ opc' = "link" /\ new' = new
    <3>1. Range(workes) \subseteq Workers
      BY <1>a DEF Range
    <3>2. /\ \A w \in Workers : wpc'[w] # "none" <=> (wpc[w] # "none" \/ w = new)
          /\ new \in Workers /\ wpc'[new] # "none"
      BY <1>4, <1>a, <2>3 DEF CreateSpawn
    <3>3. Range(workes') = Range(workes)
      BY <2>2
    <3> QED
      BY <2>1, <2>2, <2>3, <3>1, <3>2, <3>3 DEF Linked
  <2>4. CASE opc' = "ready" /\ wpc' = wpc
    BY <2>1, <2>2, <2>4 DEF Linked
  <2> QED
    BY <1>4, <2>3, <2>4 DEF CreateSpawn
<1>5. CASE CreateLink
  <2>1. /\ workes' = LL_ADD(new, workes) /\ opc = "link" /\ opc' = "malloc" /\ wpc' = wpc
        /\ new \in Workers
    BY <1>5, <1>a DEF CreateLink
  <2>2. /\ workes'[1] = new
        /\ Len(workes') = Len(workes) + 1
        /\ \A i \in 1..Len(workes') :
               i # 1 => i - 1 \in 1..Len(workes) /\ workes'[i] = workes[i - 1]
    BY <1>a, <2>1 DEF LL_ADD
  <2>3. \A i \in 1..Len(workes) : workes[i] # new
    BY <1>a, <2>1 DEF Linked, Range
  <2>4. Range(workes') = Range(workes) \cup {new}
    BY <1>a, <2>1, AddIsSeq
  <2>5. ASSUME NEW i \in 1..Len(workes'), NEW k \in 1..Len(workes'), workes'[i] = workes'[k]
        PROVE  i = k
    <3>1. CASE i = 1 \/ k = 1
      BY <2>2, <2>3, <2>5, <3>1
    <3>2. CASE i # 1 /\ k # 1
      <4>1. i - 1 = k - 1
        BY <2>2, <2>5, <3>2 DEF Linked
      <4> QED
        BY <4>1
    <3> QED
      BY <3>1, <3>2
  <2>6. wpc[new] # "none"
    BY <2>1 DEF Linked
  <2> QED
    BY <2>1, <2>4, <2>5, <2>6 DEF Linked
<1>6. CASE DestroyStart \/ DestroySet \/ DestroyNext \/ DestroyLock
  BY <1>6 DEF DestroyStart, DestroySet, DestroyNext, DestroyLock, Linked, Range
<1>7. CASE DestroyBroadcast
  <2>1. /\ workes' = workes /\ new' = new /\ opc' = "destroyed" /\ opc # "link"
        /\ \A v \in Workers : wpc[v] # "none" <=> wpc'[v] # "none"
    BY <1>7, <1>a DEF DestroyBroadcast, Broadcast, Wake, Sleepers
  <2>2. Range(workes) \subseteq Workers
    BY <1>a DEF Range
  <2> QED
    BY <2>1, <2>2 DEF Linked
<1>8. CASE UNCHANGED vars
  BY <1>8 DEF vars, Linked, Range
<1> QED
  BY <1>1, <1>2, <1>3, <1>4, <1>5, <1>6, <1>7, <1>8 DEF Next, Create, Destroy

(* The pointer the loop reads from a record that is still allocated.       *)
LEMMA NextOfPosition ==
    ASSUME IInv, Linked, NEW k \in 1..Len(workes)
    PROVE  NextOf(workes[k]) = IF k < Len(workes) THEN workes[k + 1] ELSE None
<1>1. workes \in Seq(Workers)
  BY DEF IInv, TypeOK
<1>2. DOMAIN workes = 1..Len(workes)
  BY <1>1
<1>3. \A i \in DOMAIN workes : workes[i] = workes[k] <=> i = k
  BY <1>2 DEF Linked
<1> DEFINE n == CHOOSE i \in DOMAIN workes : workes[i] = workes[k]
<1>4. n = k
  BY <1>2, <1>3
<1>5. NextOf(workes[k]) = IF n < Len(workes) THEN workes[n + 1] ELSE None
  BY DEF NextOf
<1> HIDE DEF n
<1> QED
  BY <1>4, <1>5

(* Every step keeps the records before the cursor told.                    *)
LEMMA NextPassed == IInv /\ Linked /\ Passed /\ [Next]_vars => Passed'
<1> SUFFICES ASSUME IInv, Linked, Passed, [Next]_vars, ~uaf'
             PROVE  Passed'
  BY DEF Passed
<1>a. workes \in Seq(Workers) /\ DOMAIN workes = 1..Len(workes) /\ Len(workes) \in Nat
  BY DEF IInv, TypeOK
<1>b. None \notin Workers
  BY ThreadsAssumption
<1>1. CASE DestroyStart
  <2>1. opc' = "set" /\ cursor' = First(workes) /\ UNCHANGED <<workes, terminate>>
    BY <1>1 DEF DestroyStart
  <2>2. CASE workes = <<>>
    BY <2>1, <2>2 DEF Passed, First, Told
  <2>3. CASE workes # <<>>
    <3>1. First(workes) = workes[1] /\ 1 \in 1..Len(workes) /\ workes[1] \in Workers
      BY <1>a, <2>3 DEF First
    <3>2. Told(1 - 1)'
      BY DEF Told
    <3> QED
      BY <2>1, <3>1, <3>2, <1>b DEF Passed
  <2> QED
    BY <2>2, <2>3
<1>2. CASE DestroySet
  <2>0. ~uaf /\ workes' = workes /\ cursor' = cursor /\ opc = "set"
    BY <1>2 DEF DestroySet
  <2>1. CASE cursor # None /\ terminate' = terminate \cup {cursor} /\ opc' = "next"
    <3>1. PICK k \in 1..Len(workes) : workes[k] = cursor /\ Told(k - 1)
      BY <2>0, <2>1 DEF Passed
    <3>2. Told(k)'
      BY <2>0, <2>1, <3>1 DEF Told
    <3> QED
      BY <2>0, <2>1, <3>1, <3>2 DEF Passed
  <2>2. CASE cursor = None /\ opc' = "dlock" /\ terminate' = terminate
    BY <2>0, <2>2 DEF Passed, Told
  <2> QED
    BY <1>2, <2>1, <2>2 DEF DestroySet
<1>3. CASE DestroyNext
  <2>0. ~uaf /\ workes' = workes /\ terminate' = terminate /\ opc = "next" /\ opc' = "set"
    BY <1>3 DEF DestroyNext
  <2>1. ~Freed(cursor) /\ cursor' = NextOf(cursor)
    BY <1>3 DEF DestroyNext
  <2>2. PICK k \in 1..Len(workes) : workes[k] = cursor /\ Told(k)
    BY <2>0 DEF Passed
  <2>3. cursor' = IF k < Len(workes) THEN workes[k + 1] ELSE None
    BY <2>1, <2>2, NextOfPosition
  <2>4. CASE k < Len(workes)
    <3>1. k + 1 \in 1..Len(workes) /\ cursor' = workes[k + 1] /\ workes[k + 1] \in Workers
      BY <1>a, <2>3, <2>4
    <3>2. Told((k + 1) - 1)'
      BY <2>0, <2>2 DEF Told
    <3> QED
      BY <2>0, <3>1, <3>2, <1>b DEF Passed
  <2>5. CASE k = Len(workes)
    <3>1. cursor' = None /\ Told(Len(workes))'
      BY <2>0, <2>2, <2>3, <2>5 DEF Told
    <3> QED
      BY <2>0, <3>1 DEF Passed
  <2>6. k < Len(workes) \/ k = Len(workes)
    <3>1. Len(workes) \in Nat
      BY <1>a
    <3> QED
      BY <3>1
  <2> QED
    BY <2>4, <2>5, <2>6
<1>4. CASE DestroyLock \/ DestroyBroadcast
  BY <1>4 DEF DestroyLock, DestroyBroadcast, Passed, Told
<1>5. CASE Create
  BY <1>5 DEF Create, CreateMalloc, CreateSpawn, CreateLink, Passed
<1>6. CASE UNCHANGED <<ownerVars, terminate>>
  BY <1>6 DEF ownerVars, Passed, Told
<1>7. \/ DestroyStart \/ DestroySet \/ DestroyNext \/ DestroyLock \/ DestroyBroadcast
      \/ Create \/ UNCHANGED <<ownerVars, terminate>>
  BY DEF Next, Destroy, Worker, WorkerLock, WorkerCheck, WorkerWait, WorkerStop, WorkerTest,
         WorkerTake, WorkerRun, WorkerFree, SpuriousWakeup, PushLock, PushTask, vars, ownerVars
<1> QED
  BY <1>1, <1>2, <1>3, <1>4, <1>5, <1>6, <1>7

(* Both hold in every state.                                               *)
LEMMA LoopInvariant == Spec => [](Linked /\ Passed)
<1>1. Init => Linked /\ Passed
  BY DEF Init, Linked, Passed, Range
<1> QED
  BY <1>1, Invariant, NextLinked, NextPassed, PTL DEF Spec

(* When the loop is past, that is every thread that was started.           *)
LEMMA AllTold == IInv /\ Linked /\ Passed => EveryWorkerTold
<1> SUFFICES ASSUME IInv, Linked, Passed, opc \in {"dlock", "broadcast", "destroyed"}, ~uaf,
                    NEW w \in Workers, wpc[w] # "none"
             PROVE  w \in terminate
  BY DEF EveryWorkerTold
<1>1. Told(Len(workes)) /\ w \in Range(workes)
  BY DEF Passed, Linked
<1>2. DOMAIN workes = 1..Len(workes)
  BY DEF IInv, TypeOK
<1> QED
  BY <1>1, <1>2 DEF Told, Range

(* nThreadPoolDestory sets the flag of every thread nThreadPoolCreate      *)
(* started, unless its loop read a record that was freed.                  *)
THEOREM DestroyTellsEveryWorker == Spec => []EveryWorkerTold
  BY Invariant, LoopInvariant, AllTold, PTL

(* When the destroy has had the mutex, no worker is past the test of line  *)
(* 66: whoever was has left, and whoever comes reads its flag.             *)
NoneCommitted == opc \in {"broadcast", "destroyed"} /\ ~uaf => Committed = {}

(* After the loop, a step commits no worker to a job, and starts only one  *)
(* that was committed.                                                     *)
LEMMA OnlyCommittedStart ==
    ASSUME IInv, EveryWorkerTold, [Next]_vars,
           opc \in {"dlock", "broadcast", "destroyed"}, ~uaf
    PROVE  Committed' \cup Starting \subseteq Committed
<1> SUFFICES ASSUME NEW w \in Workers,
                    wpc'[w] = "take" \/ (wpc[w] # "run" /\ wpc'[w] = "run")
             PROVE  wpc[w] = "take"
  BY DEF Committed, Starting
<1>a. wpc \in [Workers -> WorkerStates]
  BY DEF IInv, TypeOK
<1>b. wpc[w] = "test" => w \in terminate
  BY DEF EveryWorkerTold
<1>1. CASE wpc' = wpc
  BY <1>1
<1>2. ASSUME NEW v \in Workers, Worker(v) \/ SpuriousWakeup(v)
      PROVE  wpc[w] = "take"
  BY <1>2, <1>a, <1>b DEF Worker, WorkerLock, WorkerCheck, WorkerWait, WorkerStop, WorkerTest,
                          WorkerTake, WorkerRun, WorkerFree, SpuriousWakeup, Wake
<1>3. ASSUME NEW p \in Producers, PushTask(p)
      PROVE  wpc[w] = "take"
  BY <1>3 DEF PushTask, Signal, Wake, Sleepers
<1>4. CASE DestroyBroadcast
  BY <1>4 DEF DestroyBroadcast, Broadcast, Wake, Sleepers
<1>5. \/ wpc' = wpc \/ DestroyBroadcast
      \/ \E v \in Workers : Worker(v) \/ SpuriousWakeup(v)
      \/ \E p \in Producers : PushTask(p)
  BY DEF Next, Create, CreateMalloc, CreateSpawn, CreateLink, DestroyStart, Destroy,
         DestroySet, DestroyNext, DestroyLock, PushLock, vars
<1> QED
  BY <1>1, <1>2, <1>3, <1>4, <1>5

(* Every step keeps it so: the destroy takes the mutex when it is free.    *)
LEMMA NextNoneCommitted ==
    IInv /\ EveryWorkerTold /\ NoneCommitted /\ [Next]_vars => NoneCommitted'
<1> SUFFICES ASSUME IInv, EveryWorkerTold, NoneCommitted, [Next]_vars,
                    opc' \in {"broadcast", "destroyed"}, ~uaf'
             PROVE  Committed' = {}
  BY DEF NoneCommitted
<1>a. /\ opc' = opc \/ DestroyLock \/ DestroyBroadcast \/ DestroyNext \/ Create
                    \/ DestroyStart \/ DestroySet
      /\ uaf' = uaf \/ DestroyNext
  BY DEF Next, Worker, WorkerLock, WorkerCheck, WorkerWait, WorkerStop, WorkerTest, WorkerTake,
         WorkerRun, WorkerFree, SpuriousWakeup, PushLock, PushTask, Create, CreateMalloc,
         CreateSpawn, CreateLink, DestroyStart, Destroy, DestroySet, DestroyLock,
         DestroyBroadcast, vars, ownerVars
<1>b. ~DestroyNext /\ ~Create /\ ~DestroyStart /\ ~DestroySet
  BY DEF DestroyNext, Create, CreateMalloc, CreateSpawn, CreateLink, DestroyStart, DestroySet
<1>c. DestroyBroadcast => opc = "broadcast"
  BY DEF DestroyBroadcast
<1>1. /\ ~uaf
      /\ opc \in {"broadcast", "destroyed"} \/ DestroyLock
  BY <1>a, <1>b, <1>c
<1>2. CASE opc \in {"broadcast", "destroyed"}
  <2>1. Committed = {}
    BY <1>1, <1>2 DEF NoneCommitted
  <2> QED
    BY <1>1, <1>2, <2>1, OnlyCommittedStart
<1>3. CASE DestroyLock
  <2>1. mtx = None /\ wpc' = wpc
    BY <1>3 DEF DestroyLock
  <2>2. \A w \in Workers : wpc[w] # "take"
    BY <2>1, ThreadsAssumption DEF IInv, MutualExclusion
  <2> QED
    BY <2>1, <2>2 DEF Committed
<1> QED
  BY <1>1, <1>2, <1>3

(* What a destroy does to the queued jobs: past its loop at most one more  *)
(* is started, by the worker that read its flag before the store; none     *)
(* when the destroy has had the mutex.                                     *)
THEOREM DestroyAbandonsTheRest == Spec => NothingStartsAfterDestroy
<1>1. ASSUME IInv, EveryWorkerTold, NoneCommitted, [Next]_vars,
             opc \in {"dlock", "broadcast", "destroyed"}, ~uaf
      PROVE  /\ \A v, w \in Committed : v = w
             /\ Committed' \cup Starting \subseteq Committed
             /\ opc # "dlock" => Starting = {}
  <2>1. \A v, w \in Committed : v = w
    BY <1>1 DEF Committed, IInv, MutualExclusion
  <2>2. Committed' \cup Starting \subseteq Committed
    BY <1>1, OnlyCommittedStart
  <2>3. opc # "dlock" => Committed = {}
    BY <1>1 DEF NoneCommitted
  <2> QED
    BY <2>1, <2>2, <2>3
<1>2. IInv /\ EveryWorkerTold /\ NoneCommitted /\ [Next]_vars =>
          [(opc \in {"dlock", "broadcast", "destroyed"} /\ ~uaf) =>
               /\ \A v, w \in Committed : v = w
               /\ Committed' \cup Starting \subseteq Committed
               /\ opc # "dlock" => Starting = {}]_vars
  BY <1>1
<1>3. Init => NoneCommitted
  BY DEF Init, NoneCommitted
<1> QED
  BY <1>2, <1>3, Invariant, NextNoneCommitted, DestroyTellsEveryWorker, PTL
     DEF Spec, NothingStartsAfterDestroy
===============================================================================
