-------------------------- MODULE MC_SchedulerUni --------------------------
(* One CPU, three workers (the third is the entry thread) and one          *)
(* SignallingObject over queues of capacity 4: with one CPU no other       *)
(* processor feeds the retired queue while next() drains it.  Three        *)
(* workers fill the three usable slots of a queue.                         *)
EXTENDS Scheduler

CONSTANT o1

MCNumCPUs == 1
MCNumWorkers == 3
MCCapacity == 4
MCObjects == {o1}
=============================================================================
