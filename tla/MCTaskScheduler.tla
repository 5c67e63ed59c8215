--------------------------- MODULE MCTaskScheduler ---------------------------
(* Small instances of TaskScheduler: one or two slots of the worker, a run   *)
(* of run_task_now, and requests that change the definition one at a time.   *)
EXTENDS TaskScheduler, TLC

CONSTANTS none, s1, s2, m1, q1
=============================================================================
