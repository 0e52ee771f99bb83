----------------------------- MODULE MCThreadPool -----------------------------
(***************************************************************************)
(* Instance of ThreadPool for TLC: up to three workers, two producers and  *)
(* two jobs; a requested size of 0 is rounded up to 1.                     *)
(***************************************************************************)
EXTENDS ThreadPool

CONSTANTS w1, w2, w3, p1, p2, j1, j2

MCWorkers == {w1, w2, w3}
MCProducers == {p1, p2}
MCJobs == {j1, j2}
MCRequests == {0, 3}
===============================================================================
