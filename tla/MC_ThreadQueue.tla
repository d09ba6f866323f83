--------------------------- MODULE MC_ThreadQueue ---------------------------
(* A queue of capacity 4, the smallest power of two in which the ring      *)
(* wraps with more than one handle queued, written with two handles.       *)
EXTENDS ThreadQueueClients

MCCapacity == 4
MCHandles == {1, 2}
=============================================================================
