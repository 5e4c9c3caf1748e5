---------------------------- MODULE MCWorkerPool ----------------------------
(* A few threads for TLC.                                                  *)
EXTENDS WorkerPool

CONSTANTS u1, u2, u3, k1, k2, k3
=============================================================================
