----------------------------- MODULE Scheduler -----------------------------
(***************************************************************************)
(* GlobalScheduler and LocalScheduler of src/src/myos/scheduler.rs, on     *)
(* NumCPUs processors, from the state start() leaves behind.               *)
(*                                                                         *)
(* Each CPU runs next_thread with interrupts masked, so nothing else runs  *)
(* on that CPU meanwhile; the CPUs interleave with one another at the      *)
(* granularity of the spinlocked ThreadQueue operations.  pc[c] says where *)
(* CPU c is:                                                               *)
(*   "run"          a thread runs with interrupts enabled;                 *)
(*   "urgent"       next(): about to read the urgent queue;                *)
(*   "ready"        next(): about to read the ready queue;                 *)
(*   "retire_scan"  next(): retiring a still-sleeping candidate hand[c];   *)
(*   "refill"       next(): about to read the retired queue;               *)
(*   "refill_write" next(): moving hand[c] from retired to ready;          *)
(*   "resume"       back in next_thread after sch_switch_context;          *)
(*   "setup"        in sch_setup_new_thread, first run of a new thread;    *)
(*   "halted"       the CPU panicked (fault[c] says why).                  *)
(*                                                                         *)
(* Thread handles are the ThreadPool indices plus one, in creation order:  *)
(* start() first builds one LocalScheduler (and its idle thread) per CPU,  *)
(* then the 30 scheduler_thread workers, then the entry thread f.  The     *)
(* model has NumWorkers threads after the idle ones, the last being the    *)
(* entry thread.                                                           *)
(***************************************************************************)
EXTENDS Naturals, Sequences, FiniteSets, ThreadQueue

CONSTANTS
    NumCPUs,      \* system.number_of_active_cpus()
    NumWorkers,   \* non-idle threads start() creates (31 in the code)
    Objects       \* SignallingObjects the entry thread waits on

ASSUME NumCPUs \in Nat \ {0} /\ NumWorkers \in Nat \ {0}

CPUs == 0..NumCPUs - 1

\* LocalScheduler::new(ProcessorIndex(c)) creates the idle thread of c.
IdleOf(c) == c + 1
IdleThreads == {IdleOf(c) : c \in CPUs}
Workers == NumCPUs + 1..NumCPUs + NumWorkers
Entry == NumCPUs + NumWorkers
Threads == IdleThreads \cup Workers

None == 0

VARIABLES
    urgent, ready, retired,   \* GlobalScheduler's three ThreadQueues
    current,                  \* LocalScheduler.current
    pending,                  \* LocalScheduler.retired (None = 0)
    hand,                     \* next()'s local handle between two queue calls
    pc, fault,
    quantum,                  \* NativeThread.quantum
    deadline,                 \* NativeThread.deadline: "null" | "future" | "past"
    fresh,                    \* context primed by sch_make_new_thread, never run
    slot,                     \* SignallingObject's AtomicUsize
    woken                     \* handles unboxed by signal since their wait_for

queues == <<urgent, ready, retired>>
cpuVars == <<current, pending, hand, pc, fault>>
threadVars == <<quantum, deadline, fresh>>
vars == <<queues, cpuVars, threadVars, slot, woken>>

\* NativeThread.priority: idle threads are Priority::Idle, every thread
\* start() creates is Priority::Normal.
Priority(t) == IF t \in IdleThreads THEN "Idle" ELSE "Normal"

\* impl From<Priority> for Quantum
QuantumOf(p) ==
    CASE p = "High"   -> 25
      [] p = "Normal" -> 10
      [] p = "Low"    -> 5
      [] OTHER        -> 1

\* Mutant: any armed deadline counts as pending, expired or not.
UntilArmed(t) == deadline[t] # "null"

\* Timer::until: NULL is never pending; a created deadline is pending until
\* the clock passes it (Expire).  Timer::new never yields the FOREVER
\* sentinel for the finite durations the callers pass.
Until(t) == deadline[t] = "future"

\* Mutant: retire without the Priority::Idle check.
RetireIdleToo(t) == Write(retired, t)

\* GlobalScheduler::retire: idle threads are never queued; for others the
\* write to the retired queue, whose Err the caller unwraps.
Retire(t) ==
    IF Priority(t) = "Idle" THEN [queue |-> retired, ok |-> TRUE]
    ELSE Write(retired, t)

\* A failed unwrap: the CPU panics and stops.
Panic(c, why) ==
    /\ pc' = [pc EXCEPT ![c] = "halted"]
    /\ fault' = [fault EXCEPT ![c] = why]

(***************************************************************************)
(* start(): three empty queues, one LocalScheduler per CPU running its     *)
(* idle thread, every worker created and retired in creation order.        *)
(***************************************************************************)
Init ==
    /\ urgent = WithCapacity
    /\ ready = WithCapacity
    /\ retired = [WithCapacity EXCEPT
                    !.buf = [i \in 0..Mask |->
                               IF i < NumWorkers THEN NumCPUs + 1 + i ELSE NULL],
                    !.write = NumWorkers % Capacity]
    /\ current = [c \in CPUs |-> IdleOf(c)]
    /\ pending = [c \in CPUs |-> None]
    /\ hand = [c \in CPUs |-> None]
    /\ pc = [c \in CPUs |-> "run"]
    /\ fault = [c \in CPUs |-> "none"]
    /\ quantum = [t \in Threads |-> QuantumOf(Priority(t))]
    /\ deadline = [t \in Threads |-> "null"]
    /\ fresh = [t \in Threads |-> t \in Workers]
    /\ slot = [o \in Objects |-> None]
    /\ woken = {}

(***************************************************************************)
(* LocalScheduler::next_thread after GlobalScheduler::next() returned n    *)
(* (the idle thread when it returned None): nothing when n is the running  *)
(* thread; otherwise park the outgoing thread in LocalScheduler.retired,   *)
(* make n current, reset the outgoing thread's quantum and switch context. *)
(* The incoming thread continues in next_thread ("resume") or, on its      *)
(* first run, in sch_setup_new_thread ("setup").                           *)
(***************************************************************************)
\* Mutant: no quantum is reset on a switch.
SwitchToNoReset(c, n) ==
    IF n = current[c]
    THEN /\ pc' = [pc EXCEPT ![c] = "run"]
         /\ UNCHANGED <<current, pending, quantum>>
    ELSE /\ pending' = [pending EXCEPT ![c] = current[c]]
         /\ current' = [current EXCEPT ![c] = n]
         /\ pc' = [pc EXCEPT ![c] = IF fresh[n] THEN "setup" ELSE "resume"]
         /\ UNCHANGED quantum

SwitchTo(c, n) ==
    IF n = current[c]
    THEN /\ pc' = [pc EXCEPT ![c] = "run"]
         /\ UNCHANGED <<current, pending, quantum>>
    ELSE /\ pending' = [pending EXCEPT ![c] = current[c]]
         /\ current' = [current EXCEPT ![c] = n]
         /\ quantum' = [quantum EXCEPT ![current[c]] =
                                         QuantumOf(Priority(current[c]))]
         /\ pc' = [pc EXCEPT ![c] = IF fresh[n] THEN "setup" ELSE "resume"]

(***************************************************************************)
(* GlobalScheduler::reschedule, the timer interrupt on CPU c.  Realtime    *)
(* threads are skipped (none exist); Quantum::consume decrements above 1   *)
(* and reports expiry at 1, when next_thread runs.                         *)
(***************************************************************************)
\* Mutant: Quantum::consume decrements down to 0.
TickPastOne(c) ==
    LET t == current[c] IN
    /\ pc[c] = "run"
    /\ Priority(t) # "Realtime"
    /\ quantum[t] > 0
    /\ quantum' = [quantum EXCEPT ![t] = @ - 1]
    /\ UNCHANGED <<queues, cpuVars, deadline, fresh, slot, woken>>

Tick(c) ==
    LET t == current[c] IN
    /\ pc[c] = "run"
    /\ Priority(t) # "Realtime"
    /\ quantum[t] > 1
    /\ quantum' = [quantum EXCEPT ![t] = @ - 1]
    /\ UNCHANGED <<queues, cpuVars, deadline, fresh, slot, woken>>

Preempt(c) ==
    LET t == current[c] IN
    /\ pc[c] = "run"
    /\ Priority(t) # "Realtime"
    /\ quantum[t] <= 1
    /\ pc' = [pc EXCEPT ![c] = "urgent"]
    /\ UNCHANGED <<queues, current, pending, hand, fault, threadVars,
                   slot, woken>>

(***************************************************************************)
(* GlobalScheduler::wait_for(object, duration) called by the running       *)
(* thread: register in the SignallingObject (set().unwrap() panics when    *)
(* the slot is taken), arm Timer::new(duration), then next_thread.         *)
(* scheduler_thread calls wait_for(None, 5ms); the entry thread may also   *)
(* wait on an object.                                                      *)
(***************************************************************************)
ObjectsOf(t) == IF t = Entry THEN Objects ELSE {}

WaitFor(c) ==
    LET t == current[c] IN
    /\ pc[c] = "run"
    /\ t \in Workers
    /\ deadline' = [deadline EXCEPT ![t] = "future"]
    /\ pc' = [pc EXCEPT ![c] = "urgent"]
    /\ UNCHANGED <<queues, current, pending, hand, fault, quantum, fresh,
                   slot, woken>>

WaitForObject(c, o) ==
    LET t == current[c] IN
    /\ pc[c] = "run"
    /\ t \in Workers
    /\ o \in ObjectsOf(t)
    /\ IF slot[o] = None
       THEN /\ slot' = [slot EXCEPT ![o] = t]
            /\ deadline' = [deadline EXCEPT ![t] = "future"]
            /\ pc' = [pc EXCEPT ![c] = "urgent"]
            /\ UNCHANGED fault
       ELSE /\ Panic(c, "object_busy")
            /\ UNCHANGED <<slot, deadline>>
    /\ UNCHANGED <<queues, current, pending, hand, quantum, fresh, woken>>

(***************************************************************************)
(* GlobalScheduler::next(), one queue operation per step.                  *)
(***************************************************************************)
\* 1. The urgent queue first (nothing in the code ever writes to it).
NextUrgent(c) ==
    LET r == Read(urgent) IN
    /\ pc[c] = "urgent"
    /\ urgent' = r.queue
    /\ IF r.out # NULL
       THEN SwitchTo(c, r.out)
       ELSE /\ pc' = [pc EXCEPT ![c] = "ready"]
            /\ UNCHANGED <<current, pending, quantum>>
    /\ UNCHANGED <<ready, retired, hand, fault, deadline, fresh, slot, woken>>

\* 2. A ready candidate whose deadline has passed (or was never set) is
\*    returned and dispatched.
NextReady(c) ==
    LET r == Read(ready) IN
    /\ pc[c] = "ready"
    /\ r.out # NULL
    /\ ~Until(r.out)
    /\ ready' = r.queue
    /\ SwitchTo(c, r.out)
    /\ UNCHANGED <<urgent, retired, hand, fault, deadline, fresh, slot, woken>>

\*    A candidate still sleeping is taken out to be retired ...
NextSleeping(c) ==
    LET r == Read(ready) IN
    /\ pc[c] = "ready"
    /\ r.out # NULL
    /\ Until(r.out)
    /\ ready' = r.queue
    /\ hand' = [hand EXCEPT ![c] = r.out]
    /\ pc' = [pc EXCEPT ![c] = "retire_scan"]
    /\ UNCHANGED <<urgent, retired, current, pending, fault, threadVars,
                   slot, woken>>

\*    ... and filed into the retired queue before the scan continues.
RetireSleeping(c) ==
    LET w == Retire(hand[c]) IN
    /\ pc[c] = "retire_scan"
    /\ IF w.ok
       THEN /\ retired' = w.queue
            /\ hand' = [hand EXCEPT ![c] = None]
            /\ pc' = [pc EXCEPT ![c] = "ready"]
            /\ UNCHANGED fault
       ELSE /\ Panic(c, "queue_full")
            /\ UNCHANGED <<retired, hand>>
    /\ UNCHANGED <<urgent, ready, current, pending, threadVars, slot, woken>>

\* 3. The ready queue is empty: move the retired queue into it one handle
\*    at a time; when the retired queue is empty, next() returns None and
\*    the idle thread is dispatched.
NextEmpty(c) ==
    /\ pc[c] = "ready"
    /\ Read(ready).out = NULL
    /\ pc' = [pc EXCEPT ![c] = "refill"]
    /\ UNCHANGED <<queues, current, pending, hand, fault, threadVars,
                   slot, woken>>

RefillTake(c) ==
    LET r == Read(retired) IN
    /\ pc[c] = "refill"
    /\ r.out # NULL
    /\ retired' = r.queue
    /\ hand' = [hand EXCEPT ![c] = r.out]
    /\ pc' = [pc EXCEPT ![c] = "refill_write"]
    /\ UNCHANGED <<urgent, ready, current, pending, fault, threadVars,
                   slot, woken>>

RefillPut(c) ==
    LET w == Write(ready, hand[c]) IN
    /\ pc[c] = "refill_write"
    /\ IF w.ok
       THEN /\ ready' = w.queue
            /\ hand' = [hand EXCEPT ![c] = None]
            /\ pc' = [pc EXCEPT ![c] = "refill"]
            /\ UNCHANGED fault
       ELSE /\ Panic(c, "queue_full")
            /\ UNCHANGED <<ready, hand>>
    /\ UNCHANGED <<urgent, retired, current, pending, threadVars, slot, woken>>

RefillDone(c) ==
    /\ pc[c] = "refill"
    /\ Read(retired).out = NULL
    /\ SwitchTo(c, IdleOf(c))
    /\ UNCHANGED <<queues, hand, fault, deadline, fresh, slot, woken>>

(***************************************************************************)
(* After the switch, on the incoming thread's stack.                       *)
(***************************************************************************)
\* next_thread resumed: clear the deadline, unwrap LocalScheduler.retired
\* and retire it.
Resume(c) ==
    LET t == current[c]
        w == Retire(pending[c])
    IN
    /\ pc[c] = "resume"
    /\ deadline' = [deadline EXCEPT ![t] = "null"]
    /\ woken' = woken \ {t}
    /\ IF pending[c] = None
       THEN /\ Panic(c, "no_retired")
            /\ UNCHANGED <<retired, pending>>
       ELSE IF w.ok
       THEN /\ retired' = w.queue
            /\ pending' = [pending EXCEPT ![c] = None]
            /\ pc' = [pc EXCEPT ![c] = "run"]
            /\ UNCHANGED fault
       ELSE /\ Panic(c, "queue_full")
            /\ UNCHANGED <<retired, pending>>
    /\ UNCHANGED <<urgent, ready, current, hand, quantum, fresh, slot>>

\* Mutant: sch_setup_new_thread clears LocalScheduler.retired without
\* retiring the thread in it.
SetupNewThreadDropsRetired(c) ==
    /\ pc[c] = "setup"
    /\ fresh' = [fresh EXCEPT ![current[c]] = FALSE]
    /\ pending' = [pending EXCEPT ![c] = None]
    /\ pc' = [pc EXCEPT ![c] = "run"]
    /\ UNCHANGED <<queues, current, hand, fault, quantum, deadline, slot,
                   woken>>

\* sch_setup_new_thread: retire LocalScheduler.retired if there is one.
SetupNewThread(c) ==
    LET w == Retire(pending[c]) IN
    /\ pc[c] = "setup"
    /\ fresh' = [fresh EXCEPT ![current[c]] = FALSE]
    /\ IF pending[c] = None
       THEN /\ pc' = [pc EXCEPT ![c] = "run"]
            /\ UNCHANGED <<retired, pending, fault>>
       ELSE IF w.ok
       THEN /\ retired' = w.queue
            /\ pending' = [pending EXCEPT ![c] = None]
            /\ pc' = [pc EXCEPT ![c] = "run"]
            /\ UNCHANGED fault
       ELSE /\ Panic(c, "queue_full")
            /\ UNCHANGED <<retired, pending>>
    /\ UNCHANGED <<urgent, ready, current, hand, quantum, deadline, slot,
                   woken>>

\* A panicked CPU halts for ever.
Halted(c) ==
    /\ pc[c] = "halted"
    /\ UNCHANGED vars

(***************************************************************************)
(* The environment: the clock, and signal() from any thread or ISR.        *)
(***************************************************************************)
\* The clock passes a thread's deadline.
Expire(t) ==
    /\ deadline[t] = "future"
    /\ deadline' = [deadline EXCEPT ![t] = "past"]
    /\ UNCHANGED <<queues, cpuVars, quantum, fresh, slot, woken>>

\* Mutant: signal re-enqueues the unboxed waiter on the urgent queue, as
\* spec.md 4.5 describes, without taking it out of the ready or retired
\* queue it is parked in.
SignalToUrgent(o) ==
    /\ slot[o] # None
    /\ slot' = [slot EXCEPT ![o] = None]
    /\ woken' = woken \cup {slot[o]}
    /\ urgent' = Write(urgent, slot[o]).queue
    /\ UNCHANGED <<ready, retired, cpuVars, threadVars>>

\* GlobalScheduler::signal: object.unbox(), whose result is dropped.
Signal(o) ==
    /\ slot[o] # None
    /\ slot' = [slot EXCEPT ![o] = None]
    /\ woken' = woken \cup {slot[o]}
    /\ UNCHANGED <<queues, cpuVars, threadVars>>

(***************************************************************************)
(* Specification.                                                          *)
(***************************************************************************)
Reschedule(c) == Tick(c) \/ Preempt(c)

\* The steps a CPU takes with interrupts masked.
Dispatch(c) ==
    \/ NextUrgent(c) \/ NextReady(c) \/ NextSleeping(c) \/ RetireSleeping(c)
    \/ NextEmpty(c) \/ RefillTake(c) \/ RefillPut(c) \/ RefillDone(c)
    \/ Resume(c) \/ SetupNewThread(c)

Next ==
    \/ \E c \in CPUs :
          \/ Reschedule(c)
          \/ Dispatch(c)
          \/ WaitFor(c)
          \/ \E o \in Objects : WaitForObject(c, o)
          \/ Halted(c)
    \/ \E t \in Threads : Expire(t)
    \/ \E o \in Objects : Signal(o)

\* A CPU keeps executing the masked dispatch code, the timer interrupt
\* keeps arriving, and time keeps passing.  Threads are not obliged to
\* call wait_for, nor anyone to signal.
Fairness ==
    /\ \A c \in CPUs : WF_vars(Dispatch(c)) /\ WF_vars(Reschedule(c))
    /\ \A t \in Threads : WF_vars(Expire(t))

Spec == Init /\ [][Next]_vars
FairSpec == Spec /\ Fairness

(***************************************************************************)
(* Properties.                                                             *)
(***************************************************************************)

TypeOK ==
    /\ \A q \in {urgent, ready, retired} : QueueType(q, Workers)
    /\ current \in [CPUs -> Threads]
    /\ pending \in [CPUs -> Threads \cup {None}]
    /\ hand \in [CPUs -> Workers \cup {None}]
    /\ pc \in [CPUs -> {"run", "urgent", "ready", "retire_scan", "refill",
                        "refill_write", "resume", "setup", "halted"}]
    /\ fault \in [CPUs -> {"none", "object_busy", "queue_full", "no_retired"}]
    /\ quantum \in [Threads -> 1..QuantumOf("High")]
    /\ deadline \in [Threads -> {"null", "future", "past"}]
    /\ fresh \in [Threads -> BOOLEAN]
    /\ slot \in [Objects -> Workers \cup {None}]
    /\ woken \subseteq Workers

\* How many times t occurs in queue q.
CountIn(q, t) == Len(SelectSeq(Contents(q), LAMBDA x : x = t))

\* The places a thread can be: running on a CPU, parked in a CPU's
\* LocalScheduler.retired, held by a CPU inside next(), or queued.
Occurrences(t) ==
    Cardinality({c \in CPUs : current[c] = t})
    + Cardinality({c \in CPUs : pending[c] = t})
    + Cardinality({c \in CPUs : hand[c] = t})
    + CountIn(urgent, t) + CountIn(ready, t) + CountIn(retired, t)

\* No thread is lost or duplicated by the hand-offs between CPUs: every
\* worker is in exactly one place (so no two CPUs ever run the same
\* thread and no runnable thread disappears), and an idle thread is never
\* queued and only ever runs on its own CPU.
ThreadsConserved ==
    /\ \A t \in Workers : Occurrences(t) = 1
    /\ \A t \in IdleThreads :
          /\ CountIn(urgent, t) + CountIn(ready, t) + CountIn(retired, t) = 0
          /\ \A c \in CPUs : t \in {current[c], pending[c], hand[c]}
                              => t = IdleOf(c)

\* The queues are large enough for the threads there are: no write to
\* the ready or retired queue ever fails (its unwrap would panic).
NoQueueOverflow == \A c \in CPUs : fault[c] # "queue_full"

\* Every dispatched thread starts with the full quantum of its priority
\* (spec.md 4.3), although the code resets the quantum of the outgoing
\* thread rather than the incoming one.
FullQuantumOnDispatch ==
    [][\A c \in CPUs :
         current'[c] # current[c]
            => quantum'[current'[c]] = QuantumOf(Priority(current'[c]))]_vars

\* No worker starves: each one runs again and again, however the threads
\* interleave their sleeps and waits, given that the timer keeps ticking
\* and time keeps passing; unless the kernel panics.
StarvationFree ==
    \/ \A t \in Workers : []<>(\E c \in CPUs : current[c] = t /\ pc[c] = "run")
    \/ <>(\E c \in CPUs : pc[c] = "halted")

\* spec.md 4.5 and 8: a thread parked in wait_for and then signalled is
\* the next thread dispatched, ahead of every ready-queue candidate.
SignalledRunsNext ==
    [][\A c \in CPUs :
         current'[c] # current[c]
            => \A t \in woken : \E d \in CPUs : t \in {current[d], current'[c]}]_vars

\* spec.md 7(d): registering a second waiter on an occupied signalling
\* object is silently ignored; wait_for never panics on it.
WaitNeverPanics == \A c \in CPUs : fault[c] # "object_busy"
=============================================================================
