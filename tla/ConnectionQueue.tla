--------------------------- MODULE ConnectionQueue ---------------------------
(***************************************************************************)
(* What civetweb's master and worker threads promise about the connections *)
(* between them: a bounded first-come-first-served queue.  WorkerPool      *)
(* implements it with a ring of slots and two indices that are wound back. *)
(***************************************************************************)
EXTENDS Naturals, Sequences

CONSTANTS
    Conns,      \* the connections
    Capacity    \* how many may wait

VARIABLE waiting

Init == waiting = <<>>

Put(c) == /\ Len(waiting) < Capacity
          /\ waiting' = Append(waiting, c)

Take == /\ waiting # <<>>
        /\ waiting' = Tail(waiting)

(* The server is torn down with whatever still waits. *)
Clear == waiting' = <<>>

Next == Take \/ Clear \/ \E c \in Conns : Put(c)

Spec == Init /\ [][Next]_waiting

=============================================================================
