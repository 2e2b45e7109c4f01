------------------------------ MODULE StepQueue ------------------------------
(***************************************************************************)
(* What the agent's step ring promises the transaction runner: the records *)
(* it was handed come back whole, once each and in arrival order, until it *)
(* is cleared.  The byte ring of src/agent/domain/step_ring.c implements   *)
(* it (module StepRing).                                                   *)
(***************************************************************************)
EXTENDS Sequences

CONSTANT Record

VARIABLE queue

Init == queue = <<>>

Push(record) == queue' = Append(queue, record)

Release ==
    /\ queue # <<>>
    /\ queue' = Tail(queue)

Clear == queue' = <<>>

Next ==
    \/ \E record \in Record : Push(record)
    \/ Release
    \/ Clear

Spec == Init /\ [][Next]_queue
=============================================================================
