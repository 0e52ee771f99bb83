------------------------------- MODULE JobPool -------------------------------
(***************************************************************************)
(* What the thread pool of linuxSystemProgrome/code/thread_pool promises   *)
(* its caller, without its mutex, its condition variable or its lists: a   *)
(* job that was pushed waits until one worker starts it, is run by that    *)
(* worker only, and is run once.  It says nothing of the order in which    *)
(* the waiting jobs start, nor that they ever do (a destroyed pool keeps   *)
(* the jobs it has not started).                                           *)
(***************************************************************************)
CONSTANTS Workers,      \* the threads that may run jobs
          Jobs,         \* the struct NJOBs a caller pushes, each of them once
          None          \* "no job"

VARIABLES waiting,      \* the jobs pushed and not started
          running,      \* the job each worker runs, or None
          finished      \* the jobs whose func has returned

poolVars == <<waiting, running, finished>>

PoolInit == /\ waiting = {}
            /\ running = [w \in Workers |-> None]
            /\ finished = {}

Unused(j) == /\ j \notin waiting \cup finished
             /\ \A w \in Workers : running[w] # j

Submit(j) == /\ Unused(j)
             /\ waiting' = waiting \cup {j}
             /\ UNCHANGED <<running, finished>>

Start(w, j) == /\ j \in waiting
               /\ running[w] = None
               /\ waiting' = waiting \ {j}
               /\ running' = [running EXCEPT ![w] = j]
               /\ UNCHANGED finished

Finish(w) == /\ running[w] \in Jobs
             /\ finished' = finished \cup {running[w]}
             /\ running' = [running EXCEPT ![w] = None]
             /\ UNCHANGED waiting

PoolNext == \/ \E j \in Jobs : Submit(j)
            \/ \E w \in Workers : Finish(w) \/ \E j \in Jobs : Start(w, j)

PoolSpec == PoolInit /\ [][PoolNext]_poolVars
==============================================================================
