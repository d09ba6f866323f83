------------------------ MODULE MC_SchedulerSignal ------------------------
(* Two CPUs, two workers (the second is the entry thread) and one          *)
(* SignallingObject the entry thread waits on while anyone may signal it.  *)
EXTENDS Scheduler

CONSTANT o1

MCNumCPUs == 2
MCNumWorkers == 2
MCCapacity == 4
MCObjects == {o1}
=============================================================================
