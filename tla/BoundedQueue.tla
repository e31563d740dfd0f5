---------------------------- MODULE BoundedQueue ----------------------------
(***************************************************************************)
(* What the producer-consumer queue of tools/pcqueue.c promises: a channel *)
(* for one producer and one consumer that holds at most N elements and     *)
(* delivers each of them once, in the order in which they were sent.       *)
(***************************************************************************)
EXTENDS Naturals, Sequences

CONSTANTS Elem, N

VARIABLES
  queue,  \* the elements sent and not yet received
  got     \* the element received last

vars == <<queue, got>>

Init == queue = <<>> /\ got \in Elem

Put(v) ==
  /\ Len(queue) < N
  /\ queue' = Append(queue, v)
  /\ UNCHANGED got

Get ==
  /\ queue # <<>>
  /\ got' = Head(queue)
  /\ queue' = Tail(queue)

Next == Get \/ \E v \in Elem : Put(v)

Spec == Init /\ [][Next]_vars

=============================================================================
