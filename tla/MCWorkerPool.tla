----------------------------- MODULE MCWorkerPool -----------------------------
(* Three threads, and ranges up to 4 rows: fewer rows than threads, as many,  *)
(* and more, with a remainder, for both splits and grains 1 and 2.            *)
EXTENDS WorkerPool

MCGrains == {1, 2}
==============================================================================
