------------------------- MODULE ThreadQueueClients -------------------------
(***************************************************************************)
(* One ThreadQueue used by arbitrary callers: any CPU may call write with  *)
(* any handle or call read at any time.  Because both methods hold the     *)
(* queue's spinlock for their whole body, concurrent callers are           *)
(* serialised and each call is one step.                                   *)
(***************************************************************************)
EXTENDS ThreadQueue

CONSTANT Handles

ASSUME Handles \subseteq Nat \ {NULL}

VARIABLES q, result

vars == <<q, result>>

Init ==
    /\ q = WithCapacity
    /\ result = <<"init", 0>>

\* A caller runs ThreadQueue::write(h).
CallWrite(h) ==
    LET r == Write(q, h)
    IN  /\ q' = r.queue
        /\ result' = <<"write", IF r.ok THEN 1 ELSE 0>>

\* A caller runs ThreadQueue::read().
CallRead ==
    LET r == Read(q)
    IN  /\ q' = r.queue
        /\ result' = <<"read", r.out>>

Next == (\E h \in Handles : CallWrite(h)) \/ CallRead

Spec == Init /\ [][Next]_vars

(***************************************************************************)
(* Properties.                                                             *)
(***************************************************************************)

TypeOK ==
    /\ QueueType(q, Handles)
    /\ result \in {<<"init", 0>>} \cup ({"write"} \X {0, 1})
                  \cup ({"read"} \X (Handles \cup {NULL}))

\* The ring stays well formed across any sequence of reads and writes:
\* read clears the slot it takes and write fills only a NULL slot, so the
\* "Inconsistency Error" branch of write is never taken.
RingWellFormed == WellFormed(q)

\* The ring implements a FIFO of Capacity - 1 handles: every read returns
\* the oldest handle written and not yet read, and a write fails exactly
\* when Capacity - 1 handles are queued.
Fifo == INSTANCE BoundedFifo WITH items <- Contents(q), Cap <- Capacity - 1
ImplementsFifo == Fifo!Spec

\* What spec.md section 8 says of the queue: after k <= C unmatched writes
\* to a queue of capacity C, the k handles are read back in FIFO order, so
\* a queue of capacity C holds C handles.
FullFifo == INSTANCE BoundedFifo WITH items <- Contents(q), Cap <- Capacity
HoldsCapacityHandles == FullFifo!Spec
=============================================================================
