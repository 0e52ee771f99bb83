------------------------------ MODULE ThreadPool ------------------------------
(***************************************************************************)
(* linuxSystemProgrome/code/thread_pool/threadpool.c: a pool of worker     *)
(* threads over one list of jobs, one mutex and one condition variable.    *)
(*                                                                         *)
(* Threads: the owner, which calls nThreadPoolCreate and later             *)
(* nThreadPoolDestory; the producers, which call nThreadPoolPushTask; the  *)
(* workers, which run thread_cb.  A step is the code between two points    *)
(* where another thread can interfere: what a section under the mutex does *)
(* with the lists is one step, the unlocked loop of nThreadPoolDestory is  *)
(* one step per access to a worker record.  That loop stores terminate     *)
(* without the mutex, so that a worker's test of it and what the worker    *)
(* does next under the mutex are steps of their own.                       *)
(*                                                                         *)
(* Both lists are kept by LL_ADD and LL_REMOVE, at their head: a list is   *)
(* the sequence of its items from the head, so worker->next is the item    *)
(* after worker in workes.                                                 *)
(***************************************************************************)
EXTENDS Integers, Sequences, FiniteSets, Functions

CONSTANTS Workers,     \* struct NWORKER records that malloc can return
          Producers,   \* threads that push jobs
          Jobs,        \* struct NJOBs, each pushed at most once
          Requests,    \* values of the argument numberworks
          Owner,       \* the thread that creates and destroys the pool
          None         \* NULL; of the mutex: nobody holds it

ASSUME ThreadsAssumption ==
    /\ IsFiniteSet(Workers)
    /\ Requests \subseteq Int
    /\ None \notin Workers \cup Producers \cup Jobs \cup {Owner}
    /\ Owner \notin Workers \cup Producers
    /\ Workers \cap Producers = {}

VARIABLES mtx,        \* pool->mtx: the thread that holds it, or None
          jobs,       \* pool->jobs, head first
          workes,     \* pool->workes, head first
          terminate,  \* the workers whose terminate flag is 1
          wpc,        \* where each worker thread is
          cur,        \* the local job of each worker while it runs it
          opc,        \* where the owner is
          todo,       \* iterations left of the loop of nThreadPoolCreate
          new,        \* the local worker of nThreadPoolCreate
          cursor,     \* the local worker of nThreadPoolDestory
          done,       \* jobs whose func has returned
          uaf         \* nThreadPoolDestory has read a record that was freed

vars == <<mtx, jobs, workes, terminate, wpc, cur, opc, todo, new, cursor, done, uaf>>
ownerVars == <<opc, todo, new, cursor, workes, uaf>>

WorkerStates == {"none",    \* no thread was created for this record
                 "lock",    \* before pthread_mutex_lock at the top of the loop
                 "check",   \* holds mtx, before the test of jobs == NULL
                 "wait",    \* holds mtx, has read terminate = 0 at line 62
                 "asleep",  \* in pthread_cond_wait, in the wait set of cond
                 "woken",   \* in pthread_cond_wait, taking mtx again
                 "test",    \* holds mtx, before the second test of terminate
                 "take",    \* holds mtx, has read terminate = 0 at line 66
                 "run",     \* in job->func
                 "free",    \* left the loop, before free(worker)
                 "exited"}  \* the record is freed and the thread is gone

OwnerStates == {"malloc", "spawn", "link",              \* in nThreadPoolCreate
                "ready",                                \* it has returned
                "set", "next", "dlock", "broadcast",    \* in nThreadPoolDestory
                "destroyed"}

Freed(w) == wpc[w] = "exited"

AtLeastOne(n) == IF n < 1 THEN 1 ELSE n

Init == /\ mtx = None
        /\ jobs = <<>>
        /\ workes = <<>>
        /\ terminate = {}
        /\ wpc = [w \in Workers |-> "none"]
        /\ cur = [w \in Workers |-> None]
        /\ opc = "malloc"
        /\ todo \in {AtLeastOne(n) : n \in Requests}
        /\ new = None
        /\ cursor = None
        /\ done = {}
        /\ uaf = FALSE

-------------------------------------------------------------------------------
(* The two list macros.  Every removal in the program is of the head.      *)
LL_ADDNoNext(item, list) == <<item>>        \* mutant: item->next is not set
LL_ADD(item, list) == <<item>> \o list
LL_REMOVENoHead(list) == list               \* mutant: without line 15
LL_REMOVE(list) == Tail(list)

NextOf(w) == LET i == CHOOSE i \in DOMAIN workes : workes[i] = w
            IN  IF i < Len(workes) THEN workes[i + 1] ELSE None

First(list) == IF list = <<>> THEN None ELSE list[1]

(* pthread_cond_signal takes one thread off the wait set when it has any,  *)
(* pthread_cond_broadcast takes all of them.                               *)
Sleepers == {w \in Workers : wpc[w] = "asleep"}

Wake(ws) == wpc' = [w \in Workers |-> IF w \in ws THEN "woken" ELSE wpc[w]]

Signal == \/ Sleepers = {} /\ UNCHANGED wpc
          \/ \E w \in Sleepers : Wake({w})

Broadcast == Wake(Sleepers)

-------------------------------------------------------------------------------
(* thread_cb *)
WorkerLockNoLoop(w) ==      \* mutant: an if instead of the while of line 60
    /\ wpc[w] \in {"lock", "woken"}
    /\ mtx = None
    /\ mtx' = w
    /\ wpc' = [wpc EXCEPT ![w] = IF wpc[w] = "woken" THEN "test" ELSE "check"]
    /\ UNCHANGED <<jobs, terminate, cur, done, ownerVars>>

WorkerLock(w) ==
    /\ wpc[w] \in {"lock", "woken"}
    /\ mtx = None
    /\ mtx' = w
    /\ wpc' = [wpc EXCEPT ![w] = "check"]
    /\ UNCHANGED <<jobs, terminate, cur, done, ownerVars>>

WorkerCheckNoTerminate(w) ==    \* mutant: without line 62
    /\ wpc[w] = "check"
    /\ wpc' = [wpc EXCEPT ![w] = IF jobs = <<>> THEN "wait" ELSE "test"]
    /\ UNCHANGED <<mtx, jobs, terminate, cur, done, ownerVars>>

WorkerCheck(w) ==
    /\ wpc[w] = "check"
    /\ wpc' = [wpc EXCEPT ![w] = IF jobs = <<>> /\ w \notin terminate THEN "wait" ELSE "test"]
    /\ UNCHANGED <<mtx, jobs, terminate, cur, done, ownerVars>>

WorkerWait(w) ==
    /\ wpc[w] = "wait"
    /\ wpc' = [wpc EXCEPT ![w] = "asleep"]
    /\ mtx' = None
    /\ UNCHANGED <<jobs, terminate, cur, done, ownerVars>>

WorkerStop(w) ==
    /\ wpc[w] = "test"
    /\ w \in terminate
    /\ mtx' = None
    /\ wpc' = [wpc EXCEPT ![w] = "free"]
    /\ UNCHANGED <<jobs, terminate, cur, done, ownerVars>>

WorkerTestAnyway(w) ==      \* mutant: line 66 tests only an empty list
    /\ wpc[w] = "test"
    /\ w \notin terminate \/ jobs # <<>>
    /\ wpc' = [wpc EXCEPT ![w] = "take"]
    /\ UNCHANGED <<mtx, jobs, terminate, cur, done, ownerVars>>

WorkerTest(w) ==
    /\ wpc[w] = "test"
    /\ w \notin terminate
    /\ wpc' = [wpc EXCEPT ![w] = "take"]
    /\ UNCHANGED <<mtx, jobs, terminate, cur, done, ownerVars>>

WorkerTake(w) ==
    /\ wpc[w] = "take"
    /\ cur' = [cur EXCEPT ![w] = First(jobs)]
    /\ jobs' = IF jobs = <<>> THEN jobs ELSE LL_REMOVE(jobs)
    /\ mtx' = None
    /\ wpc' = [wpc EXCEPT ![w] = "run"]
    /\ UNCHANGED <<terminate, done, ownerVars>>

WorkerRun(w) ==
    /\ wpc[w] = "run"
    /\ done' = done \cup {cur[w]}
    /\ cur' = [cur EXCEPT ![w] = None]
    /\ wpc' = [wpc EXCEPT ![w] = "lock"]
    /\ UNCHANGED <<mtx, jobs, terminate, ownerVars>>

WorkerFree(w) ==
    /\ wpc[w] = "free"
    /\ wpc' = [wpc EXCEPT ![w] = "exited"]
    /\ UNCHANGED <<mtx, jobs, terminate, cur, done, ownerVars>>

(* pthread_cond_wait may return without a signal.                          *)
SpuriousWakeup(w) ==
    /\ wpc[w] = "asleep"
    /\ Wake({w})
    /\ UNCHANGED <<mtx, jobs, terminate, cur, done, ownerVars>>

-------------------------------------------------------------------------------
(* nThreadPoolPushTask: the mutex, then the critical section.  The job is  *)
(* one that no earlier call was given.                                     *)
Fresh(j) == /\ j \notin Range(jobs) \cup done
            /\ \A w \in Workers : cur[w] # j

PushLock(p) ==
    /\ opc # "malloc" /\ opc # "spawn" /\ opc # "link"
    /\ mtx = None
    /\ \E j \in Jobs : Fresh(j)
    /\ mtx' = p
    /\ UNCHANGED <<jobs, terminate, wpc, cur, done, ownerVars>>

PushTaskNoSignal(p) ==      \* mutant: without line 139
    /\ mtx = p
    /\ \E j \in Jobs : Fresh(j) /\ jobs' = LL_ADD(j, jobs)
    /\ mtx' = None
    /\ UNCHANGED <<terminate, wpc, cur, done, ownerVars>>

PushTaskSignalsWhenEmpty(p) ==  \* mutant: signals the first job of a burst only
    /\ mtx = p
    /\ \E j \in Jobs : Fresh(j) /\ jobs' = LL_ADD(j, jobs)
    /\ IF jobs = <<>> THEN Signal ELSE UNCHANGED wpc
    /\ mtx' = None
    /\ UNCHANGED <<terminate, cur, done, ownerVars>>

PushTask(p) ==
    /\ mtx = p
    /\ \E j \in Jobs : Fresh(j) /\ jobs' = LL_ADD(j, jobs)
    /\ Signal
    /\ mtx' = None
    /\ UNCHANGED <<terminate, cur, done, ownerVars>>

-------------------------------------------------------------------------------
(* nThreadPoolCreate.  The thread runs from pthread_create on, its record  *)
(* is linked one statement later.  Every return leads to "ready": main     *)
(* does not look at the result and pushes to a pool that was made in part. *)
CreateMalloc ==
    /\ opc = "malloc"
    /\ \/ /\ todo > 0
          /\ \E w \in Workers : /\ wpc[w] = "none"
                                /\ new' = w
          /\ opc' = "spawn"
       \/ opc' = "ready" /\ UNCHANGED new      \* todo = 0, or return -2
    /\ UNCHANGED <<mtx, jobs, workes, terminate, wpc, cur, todo, cursor, done, uaf>>

CreateSpawn ==
    /\ opc = "spawn"
    /\ \/ /\ wpc' = [wpc EXCEPT ![new] = "lock"]
          /\ opc' = "link"
          /\ UNCHANGED new
       \/ /\ opc' = "ready"                    \* free(worker), return -3
          /\ new' = None
          /\ UNCHANGED wpc
    /\ UNCHANGED <<mtx, jobs, workes, terminate, cur, todo, cursor, done, uaf>>

CreateLink ==
    /\ opc = "link"
    /\ workes' = LL_ADD(new, workes)
    /\ new' = None
    /\ todo' = todo - 1
    /\ opc' = "malloc"
    /\ UNCHANGED <<mtx, jobs, terminate, wpc, cur, cursor, done, uaf>>

(* nThreadPoolDestory: the loop over the workers without the mutex, then   *)
(* the broadcast under it.  A worker whose flag is set may leave and free  *)
(* its record before the loop reads worker->next from it; what is read     *)
(* then is the old pointer, or what the next user of the memory put there: *)
(* zero, or a wild pointer.  A wild pointer ends the process, a behaviour  *)
(* that stops here.                                                        *)
DestroyStart ==
    /\ opc = "ready"
    /\ cursor' = First(workes)
    /\ opc' = "set"
    /\ UNCHANGED <<mtx, jobs, workes, terminate, wpc, cur, todo, new, done, uaf>>

DestroySet ==
    /\ opc = "set"
    /\ \/ /\ cursor # None
          /\ terminate' = terminate \cup {cursor}
          /\ opc' = "next"
       \/ /\ cursor = None
          /\ opc' = "dlock"
          /\ UNCHANGED terminate
    /\ UNCHANGED <<mtx, jobs, workes, wpc, cur, todo, new, cursor, done, uaf>>

DestroyNext ==
    /\ opc = "next"
    /\ cursor' \in {NextOf(cursor)} \cup (IF Freed(cursor) THEN {None} ELSE {})
    /\ uaf' = (uaf \/ Freed(cursor))
    /\ opc' = "set"
    /\ UNCHANGED <<mtx, jobs, workes, terminate, wpc, cur, todo, new, done>>

DestroyLock ==
    /\ opc = "dlock"
    /\ mtx = None
    /\ mtx' = Owner
    /\ opc' = "broadcast"
    /\ UNCHANGED <<jobs, workes, terminate, wpc, cur, todo, new, cursor, done, uaf>>

DestroySignal ==            \* mutant: cond_signal for cond_broadcast
    /\ opc = "broadcast"
    /\ Signal
    /\ mtx' = None
    /\ opc' = "destroyed"
    /\ UNCHANGED <<jobs, workes, terminate, cur, todo, new, cursor, done, uaf>>

DestroyBroadcast ==
    /\ opc = "broadcast"
    /\ Broadcast
    /\ mtx' = None
    /\ opc' = "destroyed"
    /\ UNCHANGED <<jobs, workes, terminate, cur, todo, new, cursor, done, uaf>>

-------------------------------------------------------------------------------
(* What a worker does by itself, what the owner does, and the whole.       *)
Worker(w) == \/ WorkerLock(w) \/ WorkerCheck(w) \/ WorkerWait(w)
             \/ WorkerStop(w) \/ WorkerTest(w) \/ WorkerTake(w)
             \/ WorkerRun(w) \/ WorkerFree(w)

Create == CreateMalloc \/ CreateSpawn \/ CreateLink

Destroy == DestroySet \/ DestroyNext \/ DestroyLock \/ DestroyBroadcast

Next == \/ \E w \in Workers : Worker(w) \/ SpuriousWakeup(w)
        \/ \E p \in Producers : PushLock(p) \/ PushTask(p)
        \/ Create
        \/ DestroyStart
        \/ Destroy

Spec == Init /\ [][Next]_vars

(* A thread that can run is scheduled, job->func returns, and a caller     *)
(* that entered a pool function gets through it.  Nobody has to push or to *)
(* destroy, and no wakeup is spurious forever on purpose.                  *)
Fairness == /\ \A w \in Workers : WF_vars(Worker(w))
            /\ \A p \in Producers : WF_vars(PushTask(p))
            /\ WF_vars(Create)
            /\ WF_vars(Destroy)

FairSpec == Spec /\ Fairness

-------------------------------------------------------------------------------
(* Properties.                                                             *)
TypeOK == /\ mtx \in Workers \cup Producers \cup {Owner, None}
          /\ jobs \in Seq(Jobs)
          /\ workes \in Seq(Workers)
          /\ terminate \subseteq Workers
          /\ wpc \in [Workers -> WorkerStates]
          /\ cur \in [Workers -> Jobs \cup {None}]
          /\ opc \in OwnerStates
          /\ todo \in Int
          /\ new \in Workers \cup {None}
          /\ cursor \in Workers \cup {None}
          /\ done \subseteq Jobs
          /\ uaf \in BOOLEAN

(* The sections of thread_cb (59-79) and nThreadPoolDestory (130-132) that *)
(* use the mutex exclude each other and nThreadPoolPushTask: whoever is in *)
(* one holds mtx, and who holds it is in one.                              *)
MutualExclusion ==
    /\ \A w \in Workers : wpc[w] \in {"check", "wait", "test", "take"} <=> mtx = w
    /\ opc = "broadcast" <=> mtx = Owner

(* Line 80 never follows a NULL job: whatever woke the worker, and whoever *)
(* emptied the list meanwhile, it has a job when it leaves the loop of     *)
(* lines 60-65 without having been told to stop.                           *)
NoNullJob == \A w \in Workers : wpc[w] = "run" => cur[w] \in Jobs

(* No lost wakeup in PushTask against the wait of thread_cb: while nobody  *)
(* has been told to stop, a worker sleeps only if each queued job is       *)
(* matched by another worker that is awake and on its way to the list.     *)
(* One cond_signal per pushed job is enough, although a worker that just   *)
(* finished a job may take the job another one was woken for.              *)
OnTheirWay == {w \in Workers : wpc[w] \in {"lock", "woken", "check", "test", "take"}}

WorkConserving == (Sleepers # {} /\ terminate = {}) => Len(jobs) <= Cardinality(OnTheirWay)

(* nThreadPoolDestory leaves nobody asleep that it told to stop: a worker  *)
(* cannot go to sleep between the unlocked store of line 128 and the       *)
(* broadcast of line 131 and miss both.                                    *)
NoneSleepsThroughDestroy == opc = "destroyed" => Sleepers \cap terminate = {}

(* The loop of nThreadPoolDestory reaches each thread nThreadPoolCreate    *)
(* started, also when the creation failed half way (-2, -3), unless it     *)
(* went through freed memory.                                              *)
EveryWorkerTold ==
    (opc \in {"dlock", "broadcast", "destroyed"} /\ ~uaf) =>
        {w \in Workers : wpc[w] # "none"} \subseteq terminate

(* What a destroy does to the jobs still queued (the test of line 66 is    *)
(* made with jobs in the list too).  When its loop is past, at most one    *)
(* worker still starts a job: the one that holds the mutex and read its    *)
(* flag before the store of line 128, and no other one passes that test.   *)
(* When the destroy has had the mutex itself (130), none starts: the rest  *)
(* is abandoned, not drained.                                              *)
Committed == {w \in Workers : wpc[w] = "take"}

Starting == {w \in Workers : wpc[w] # "run" /\ wpc'[w] = "run"}

NothingStartsAfterDestroy ==
    [][(opc \in {"dlock", "broadcast", "destroyed"} /\ ~uaf) =>
           /\ \A v, w \in Committed : v = w
           /\ Committed' \cup Starting \subseteq Committed
           /\ opc # "dlock" => Starting = {}]_vars

(* Each pushed job is in one place: in the list, with one worker, or done. *)
(* It is run once and is never lost.                                       *)
Pool == INSTANCE JobPool WITH waiting <- Range(jobs), running <- cur, finished <- done
ImplementsPool == Pool!PoolSpec

(* A pushed job is run, if the pool has a worker and is not destroyed.     *)
(* (The list is last in first out: this holds because the callers push     *)
(* only finitely many jobs here.)                                          *)
PushedJobRuns ==
    \A j \in Jobs : (j \in Range(jobs) /\ workes # <<>>) ~> (j \in done \/ terminate # {})

(* nThreadPoolDestory returns and all worker threads end, unless its loop  *)
(* went through freed memory.                                              *)
DestroyEnds ==
    (opc = "set") ~> (uaf \/ \A w \in Workers : wpc[w] \in {"none", "exited"})

(* The comment of line 128, that no lock is needed: the loop never reads   *)
(* worker->next from a record its thread has already freed (line 82).      *)
NoLockNeeded == ~uaf
===============================================================================
