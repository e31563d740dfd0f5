------------------------------ MODULE PcQueue ------------------------------
(***************************************************************************)
(* The producer-consumer queue of tools/pcqueue.c: a ring of N pointers    *)
(* and two semaphores, without a lock (MORE_THAN_ONE_ONE is not defined),  *)
(* used by one producing and one consuming thread. A call is cut where the *)
(* other thread can run in between: at the semaphores.                     *)
(***************************************************************************)
EXTENDS Integers, Sequences

CONSTANTS
  Elem,  \* pointers
  NULL,  \* the NULL pointer
  N      \* queue->n

ASSUME PcQueueAssumption == NULL \in Elem /\ N \in Nat \ {0}

VARIABLES
  elem,         \* the ring
  head, tail,   \* next slot to fill; oldest element
  empty, full,  \* semaphores: elements to take, slots to fill
  put, val,     \* where the producer is in its call, and the argument
  get, got      \* where the consumer is in its call, and the result

putVars   == <<put, val>>
getVars   == <<get, got>>
queueVars == <<elem, head, tail, empty, full, putVars, getVars>>

QueueTypeOK ==
  /\ elem \in [0..(N - 1) -> Elem]
  /\ head \in 0..(N - 1) /\ tail \in 0..(N - 1)
  /\ empty \in 0..N /\ full \in 0..N
  /\ put \in {"out", "store", "post"} /\ val \in Elem
  /\ get \in {"out", "load", "post"} /\ got \in Elem

\* producer_consumer_new: the slots hold whatever malloc returned.
QueueInit ==
  /\ elem \in [0..(N - 1) -> Elem]
  /\ head = 0 /\ tail = 0
  /\ empty = 0 /\ full = N
  /\ put = "out" /\ val = NULL
  /\ get = "out" /\ got = NULL

\* Mutant of Wrap: wraps around one too early.
Wrap_early(k) == IF k >= N - 1 THEN 0 ELSE k

Wrap(k) == IF k >= N THEN 0 ELSE k

-----------------------------------------------------------------------------
(***************************************************************************)
(* producer_consumer_enqueue.                                              *)
(***************************************************************************)

EnqueueWait(v) ==
  /\ put = "out" /\ full > 0
  /\ full' = full - 1
  /\ put' = "store" /\ val' = v
  /\ UNCHANGED <<elem, head, tail, empty, getVars>>

EnqueueStore ==
  /\ put = "store"
  /\ elem' = [elem EXCEPT ![head] = val]
  /\ head' = Wrap(head + 1)
  /\ put' = "post"
  /\ UNCHANGED <<tail, empty, full, val, getVars>>

EnqueuePost ==
  /\ put = "post"
  /\ empty' = empty + 1
  /\ put' = "out"
  /\ UNCHANGED <<elem, head, tail, full, val, getVars>>

-----------------------------------------------------------------------------
(***************************************************************************)
(* producer_consumer_dequeue.                                              *)
(***************************************************************************)

DequeueWait ==
  /\ get = "out" /\ empty > 0
  /\ empty' = empty - 1
  /\ get' = "load"
  /\ UNCHANGED <<elem, head, tail, full, putVars, got>>

DequeueLoad ==
  /\ get = "load"
  /\ got' = elem[tail]
  /\ tail' = Wrap(tail + 1)
  /\ get' = "post"
  /\ UNCHANGED <<elem, head, empty, full, putVars>>

DequeuePost ==
  /\ get = "post"
  /\ full' = full + 1
  /\ get' = "out"
  /\ UNCHANGED <<elem, head, tail, empty, putVars, got>>

-----------------------------------------------------------------------------

QueueNext ==
  \/ \E v \in Elem : EnqueueWait(v)
  \/ EnqueueStore \/ EnqueuePost
  \/ DequeueWait \/ DequeueLoad \/ DequeuePost

QueueSpec == QueueInit /\ [][QueueNext]_queueVars

-----------------------------------------------------------------------------
(***************************************************************************)
(* Properties.                                                             *)
(***************************************************************************)

\* Elements that were sent and not yet received: those the semaphore counts,
\* and the one the consumer has claimed.
Count == empty + (IF get = "load" THEN 1 ELSE 0)

\* The slot k places after slot t.
Slot(t, k) == IF t + k >= N THEN t + k - N ELSE t + k

Contents == [k \in 1..Count |-> elem[Slot(tail, k - 1)]]

Channel == INSTANCE BoundedQueue WITH queue <- Contents

\* The ring is a bounded FIFO channel, whatever the interleaving of the two
\* threads: no element is lost, duplicated, overtaken or overwritten before
\* it was read, although neither thread takes a lock (pcqueue.h: a lock "is
\* unnecessary if there is only one producer and one consumer").
IsChannel == Channel!Spec

\* The semaphores count what they should: the slots to fill, the elements to
\* take, and the slots and elements the two threads have claimed add up to N,
\* and the producer's slot is the one after the last element.
SemaphoresCount ==
  /\ full + Count + (IF put # "out" THEN 1 ELSE 0)
                  + (IF get = "post" THEN 1 ELSE 0) = N
  /\ head = Slot(tail, Count + (IF put = "post" THEN 1 ELSE 0))
  /\ put = "post" => elem[Slot(tail, Count)] = val

=============================================================================
