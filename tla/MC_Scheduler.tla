--------------------------- MODULE MC_Scheduler ---------------------------
(* Two CPUs and three workers over queues of capacity 4: the three workers *)
(* exactly fill the Capacity - 1 usable slots of one queue.                *)
(*                                                                         *)
(* owed is a history variable: owed[t] holds the workers that were in the *)
(* ready queue, and runnable, when t was last dispatched and have not been *)
(* dispatched since.                                                       *)
EXTENDS Scheduler

MCNumCPUs == 2
MCNumWorkers == 3
MCCapacity == 4

\* Shorter time slices than Quantum::from(Priority) gives (25, 10, 5, 1),
\* in the same order and still expiring at 1: no property here counts
\* ticks, and a Normal slice of 3 already has a tick that decrements and
\* one that expires.
MCQuantumOf(p) ==
    CASE p = "High"   -> 4
      [] p = "Normal" -> 3
      [] p = "Low"    -> 2
      [] OTHER        -> 1

VARIABLE owed

\* Workers waiting in the ready queue whose Timer does not hold them back.
RunnableReady ==
    {u \in Workers : CountIn(ready, u) > 0 /\ deadline[u] # "future"}

\* The step switches some CPU to worker t.
Dispatched(t) == \E c \in CPUs : current'[c] = t /\ current[c] # t

MCInit == Init /\ owed = [t \in Workers |-> {}]

MCNext ==
    /\ Next
    /\ owed' = [t \in Workers |->
                  IF Dispatched(t) THEN RunnableReady'
                  ELSE {u \in owed[t] : ~Dispatched(u)}]

MCSpec == MCInit /\ [][MCNext]_<<vars, owed>>

\* spec.md, "Round-robin fairness": the ready queue is served in order
\* across all CPUs.  A worker that was waiting, runnable, in the ready
\* queue when t was dispatched is dispatched before t is dispatched
\* again, however the CPUs interleave next()'s ready scan, its lazy
\* deadline test and the retired-to-ready refill.
RoundRobin ==
    [][\A t \in Workers : Dispatched(t) => owed[t] = {}]_<<vars, owed>>
=============================================================================
