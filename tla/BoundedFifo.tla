---------------------------- MODULE BoundedFifo ----------------------------
(***************************************************************************)
(* What a ThreadQueue promises its callers: a FIFO of at most Cap handles. *)
(* A write to a queue holding fewer than Cap handles succeeds and appends; *)
(* a write to a full queue returns Err and changes nothing; a read returns *)
(* the oldest handle, or None (0) when empty.  result records the value    *)
(* the last call returned, so that a refinement check compares returns as  *)
(* well as contents.                                                       *)
(***************************************************************************)
EXTENDS Naturals, Sequences

CONSTANTS Cap, Handles

VARIABLES items, result

None == 0

Init ==
    /\ items = <<>>
    /\ result = <<"init", 0>>

Put(h) ==
    IF Len(items) < Cap
    THEN /\ items' = Append(items, h)
         /\ result' = <<"write", 1>>
    ELSE /\ result' = <<"write", 0>>
         /\ UNCHANGED items

Get ==
    IF items # <<>>
    THEN /\ items' = Tail(items)
         /\ result' = <<"read", Head(items)>>
    ELSE /\ result' = <<"read", None>>
         /\ UNCHANGED items

Next == (\E h \in Handles : Put(h)) \/ Get

Spec == Init /\ [][Next]_<<items, result>>
=============================================================================
