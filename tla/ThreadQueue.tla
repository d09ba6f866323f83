---------------------------- MODULE ThreadQueue ----------------------------
(***************************************************************************)
(* ThreadQueue of src/src/myos/scheduler.rs: a fixed-capacity ring of      *)
(* thread handles.  Every read and write runs entirely inside the queue's  *)
(* spinlock (lock.synchronized), so each is one atomic step here; the      *)
(* Acquire/Release orderings inside the lock do not add behaviours.        *)
(*                                                                         *)
(* A queue is a record [buf, read, write].  The code keeps read and write  *)
(* as ever-growing AtomicUsize counters and masks them on every use; the   *)
(* capacity is a power of two dividing 2^64, so keeping them modulo        *)
(* Capacity is exact (wrap-around of the usize counters included).         *)
(*                                                                         *)
(* The operators are pure: Read and Write return the new queue together    *)
(* with the value the Rust method returns, so that a module holding        *)
(* several queues (the scheduler) can apply them to any of its variables.  *)
(***************************************************************************)
EXTENDS Naturals, Sequences

CONSTANT Capacity

\* with_capacity: assert_eq!(capacity.count_ones(), 1)
ASSUME \E k \in 0..Capacity : 2^k = Capacity

\* ThreadQueue::NULL: the empty-slot value; a ThreadHandle is NonZeroUsize.
NULL == 0

\* ThreadQueue.mask
Mask == Capacity - 1

\* ThreadQueue::with_capacity: every slot NULL, both counters 0.
WithCapacity == [buf |-> [i \in 0..Mask |-> NULL], read |-> 0, write |-> 0]

\* Mutant: read hands out the slot without swapping NULL into it.
ReadKeepsSlot(q) ==
    IF q.write # q.read
    THEN [queue |-> [q EXCEPT !.read = (q.read + 1) % Capacity],
          out   |-> q.buf[q.read]]
    ELSE [queue |-> q, out |-> NULL]

\* ThreadQueue::read.  If the masked counters differ, swap NULL into the
\* read slot and advance read; ThreadHandle::new turns a NULL slot into
\* None, which is also the result when the counters are equal.
Read(q) ==
    IF q.write # q.read
    THEN [queue |-> [q EXCEPT !.buf[q.read] = NULL,
                              !.read = (q.read + 1) % Capacity],
          out   |-> q.buf[q.read]]
    ELSE [queue |-> q, out |-> NULL]

\* Mutant: the write counter is stored without the mask.
WriteUnmasked(q, h) ==
    IF /\ (q.write + 1) % Capacity # q.read
       /\ q.buf[q.write] = NULL
    THEN [queue |-> [q EXCEPT !.buf[q.write] = h, !.write = q.write + 1],
          ok    |-> TRUE]
    ELSE [queue |-> q, ok |-> FALSE]

\* Mutant: write without the full check, relying on compare_exchange alone.
WriteNoFullCheck(q, h) ==
    IF q.buf[q.write] = NULL
    THEN [queue |-> [q EXCEPT !.buf[q.write] = h,
                              !.write = (q.write + 1) % Capacity],
          ok    |-> TRUE]
    ELSE [queue |-> q, ok |-> FALSE]

\* ThreadQueue::write.  Refused when the slot after write is the read slot
\* (so at most Capacity - 1 handles fit); otherwise a compare_exchange from
\* NULL claims the slot, and a failed exchange ("TODO: Inconsistency
\* Error") also returns Err.
Write(q, h) ==
    IF /\ (q.write + 1) % Capacity # q.read
       /\ q.buf[q.write] = NULL
    THEN [queue |-> [q EXCEPT !.buf[q.write] = h,
                              !.write = (q.write + 1) % Capacity],
          ok    |-> TRUE]
    ELSE [queue |-> q, ok |-> FALSE]

(***************************************************************************)
(* Views used by properties and refinement mappings.                       *)
(***************************************************************************)

\* Number of occupied slots, (write - read) mod capacity.
Length(q) == (q.write - q.read + Capacity) % Capacity

\* The handles in the queue, oldest first.
Contents(q) == [i \in 1..Length(q) |-> q.buf[(q.read + i - 1) % Capacity]]

\* The set of handles in the queue.
Members(q) == {q.buf[(q.read + i) % Capacity] : i \in 0..Length(q) - 1}

\* The ring is well formed: slots between read and write hold handles and
\* every other slot is NULL, so write's compare_exchange never fails and
\* read never meets a NULL slot while the counters differ.
WellFormed(q) ==
    \A i \in 0..Mask :
        (q.buf[(q.read + i) % Capacity] # NULL) <=> (i < Length(q))

QueueType(q, Handles) ==
    q \in [buf : [0..Mask -> Handles \cup {NULL}],
           read : 0..Mask, write : 0..Mask]
=============================================================================
