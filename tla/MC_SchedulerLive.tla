------------------------- MODULE MC_SchedulerLive -------------------------
(* Two CPUs and two workers over queues of capacity 4, for liveness: two   *)
(* workers are enough for one CPU's scan to retire a sleeper while the     *)
(* other CPU refills the ready queue.                                      *)
EXTENDS Scheduler

MCNumCPUs == 2
MCNumWorkers == 2
MCCapacity == 4
=============================================================================
