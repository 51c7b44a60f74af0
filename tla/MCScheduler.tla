---------------------------- MODULE MCScheduler ----------------------------
(* Scheduler for TLC.  Incarnations are bounded by the system itself         *)
(* (BoundedReexecution), so no bound is added.                               *)
EXTENDS Scheduler, TLC

\* Workers are interchangeable: sound for the runs that check no liveness.
WorkerSymmetry == Permutations(Workers)
=============================================================================
