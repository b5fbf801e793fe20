-------------------------- MODULE MCConcurrentCache --------------------------
(* Instances of ConcurrentCache for TLC.  With three threads, three keys and  *)
(* room for two, an element is evicted while its loader runs and its key is   *)
(* put again by another thread.                                               *)
EXTENDS ConcurrentCache

CONSTANTS t1, t2, t3   \* model values

mcThreads == {t1, t2, t3}
=============================================================================
