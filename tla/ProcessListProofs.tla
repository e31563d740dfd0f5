-------------------------- MODULE ProcessListProofs --------------------------
(***************************************************************************)
(* The ring of tools/pcqueue.c implements a bounded channel, for every     *)
(* number of slots and every set of pointers; and the iteration over the   *)
(* processes that uses it, for every set of processes, every size of the   *)
(* ring and every outcome of the insertions and live patches.              *)
(***************************************************************************)
EXTENDS ProcessList, FiniteSetTheorems, TLAPS

-----------------------------------------------------------------------------
(***************************************************************************)
(* The semaphores count.                                                   *)
(***************************************************************************)

QueueInv == QueueTypeOK /\ SemaphoresCount

\* What the assumption on the constants says.
LEMMA QueueFacts == NULL \in Elem /\ N \in Nat /\ N > 0
BY PcQueueAssumption

\* Slots are numbered around the ring.
LEMMA SlotType ==
  ASSUME NEW t \in 0..(N - 1), NEW k \in 0..N
  PROVE  Slot(t, k) \in 0..(N - 1)
BY QueueFacts DEF Slot

\* Different distances below N lead to different slots.
LEMMA SlotInjective ==
  ASSUME NEW t \in 0..(N - 1), NEW k \in 0..(N - 1), NEW m \in 0..(N - 1),
         Slot(t, k) = Slot(t, m)
  PROVE  k = m
BY QueueFacts DEF Slot

\* One slot further on, everything is one slot nearer.
LEMMA SlotShift ==
  ASSUME NEW t \in 0..(N - 1), NEW k \in 0..(N - 1)
  PROVE  Slot(Wrap(t + 1), k) = Slot(t, k + 1)
BY QueueFacts DEF Slot, Wrap

\* The slot after the slot at distance k.
LEMMA SlotNext ==
  ASSUME NEW t \in 0..(N - 1), NEW k \in 0..(N - 1)
  PROVE  Wrap(Slot(t, k) + 1) = Slot(t, k + 1)
BY QueueFacts DEF Slot, Wrap

\* The number of elements in the ring is a number of slots.
LEMMA CountType ==
  ASSUME QueueInv
  PROVE  /\ Count \in 0..N
         /\ put # "out" => Count < N
         /\ get = "load" => Count > 0
         /\ get = "post" => Count < N
BY QueueFacts DEF QueueInv, QueueTypeOK, SemaphoresCount, Count

\* The new queue satisfies the invariant.
LEMMA InitInv == QueueInit => QueueInv
BY QueueFacts DEF QueueInit, QueueInv, QueueTypeOK, SemaphoresCount, Count, Slot

\* Every step of producer and consumer keeps the invariant.
LEMMA NextInv == QueueInv /\ [QueueNext]_queueVars => QueueInv'
<1> SUFFICES ASSUME QueueInv, [QueueNext]_queueVars PROVE QueueInv'
  OBVIOUS
<1> USE QueueFacts, CountType DEF QueueInv, QueueTypeOK, SemaphoresCount, Count,
        putVars, getVars
<1>1. CASE \E v \in Elem : EnqueueWait(v)
  BY <1>1 DEF EnqueueWait
<1>2. CASE EnqueueStore
  <2>1. head' = Slot(tail, Count + 1)
    BY <1>2, SlotNext DEF EnqueueStore
  <2>2. elem' = [elem EXCEPT ![Slot(tail, Count)] = val]
    BY <1>2 DEF EnqueueStore
  <2>3. Slot(tail, Count) \in 0..(N - 1) /\ Slot(tail, Count + 1) \in 0..(N - 1)
    <3>1. Count \in 0..(N - 1)
      BY <1>2 DEF EnqueueStore
    <3> HIDE DEF Count
    <3>2. Count \in 0..N /\ Count + 1 \in 0..N /\ tail \in 0..(N - 1)
      BY <3>1
    <3> QED BY <3>2, SlotType
  <2>4. Count' = Count /\ Slot(tail, Count)' = Slot(tail, Count)
    BY <1>2 DEF EnqueueStore, Slot
  <2> QED BY <1>2, <2>1, <2>2, <2>3, <2>4 DEF EnqueueStore, Slot
<1>3. CASE EnqueuePost
  BY <1>3 DEF EnqueuePost, Slot
<1>4. CASE DequeueWait
  BY <1>4 DEF DequeueWait, Slot
<1>5. CASE DequeueLoad
  <2>1. Count' = Count - 1 /\ tail' = Wrap(tail + 1) /\ tail' \in 0..(N - 1)
    BY <1>5 DEF DequeueLoad, Wrap
  <2>2. Slot(tail', Count - 1) = Slot(tail, Count)
    BY <1>5, <2>1, SlotShift DEF DequeueLoad
  <2>3. put = "post" => Slot(tail', Count) = Slot(tail, Count + 1)
    BY <1>5, <2>1, SlotShift DEF DequeueLoad
  <2>4. elem[tail] \in Elem
    OBVIOUS
  <2>5. QueueTypeOK'
    BY <1>5, <2>1, <2>4 DEF DequeueLoad
  <2>6. head' = head /\ put' = put /\ elem' = elem /\ val' = val /\ full' = full
    BY <1>5 DEF DequeueLoad
  <2>7. Count - 1 + 1 = Count
    BY <2>1
  <2>8. Slot(tail, Count)' = Slot(tail, Count)
    BY <2>1, <2>2 DEF Slot
  <2>9. put = "post" => Slot(tail, Count + 1)' = Slot(tail, Count + 1)
    BY <2>1, <2>3, <2>7 DEF Slot
  <2> QED BY <1>5, <2>1, <2>5, <2>6, <2>8, <2>9 DEF DequeueLoad
<1>6. CASE DequeuePost
  BY <1>6 DEF DequeuePost, Slot
<1>7. CASE UNCHANGED queueVars
  BY <1>7 DEF queueVars, Slot
<1> QED BY <1>1, <1>2, <1>3, <1>4, <1>5, <1>6, <1>7 DEF QueueNext

\* The slots and elements the semaphores count, and those the two threads have
\* claimed, always add up to the size of the ring, and the slot the producer
\* fills is free: neither thread needs a lock.
THEOREM SemaphoresCorrect == QueueSpec => [](QueueTypeOK /\ SemaphoresCount)
<1> QED BY InitInv, NextInv, PTL DEF QueueSpec, QueueInv

-----------------------------------------------------------------------------
(***************************************************************************)
(* Refinement.                                                             *)
(***************************************************************************)

\* What the refinement mapping gives: a sequence, element by element.
ContentsOK ==
  /\ Contents \in Seq(Elem)
  /\ Len(Contents) = Count
  /\ \A k \in 1..Count : Contents[k] = elem[Slot(tail, k - 1)]

\* The contents of the ring are a sequence of elements.
LEMMA ContentsType == QueueInv => ContentsOK
<1> SUFFICES ASSUME QueueInv PROVE ContentsOK
  OBVIOUS
<1>1. Count \in 0..N
  BY CountType
<1>2. \A k \in 1..Count : elem[Slot(tail, k - 1)] \in Elem
  <2> TAKE k \in 1..Count
  <2>1. k - 1 \in 0..N /\ tail \in 0..(N - 1)
    BY <1>1, QueueFacts DEF QueueInv, QueueTypeOK
  <2>2. Slot(tail, k - 1) \in 0..(N - 1)
    BY <2>1, SlotType
  <2> QED BY <2>2 DEF QueueInv, QueueTypeOK
<1> QED BY <1>1, <1>2, QueueFacts DEF Contents, ContentsOK

\* The same after a step.
LEMMA ContentsTypeNext == QueueInv' => ContentsOK'
BY ContentsType, PTL

\* A sequence is determined by its length and its elements.
LEMMA SameSeq ==
  ASSUME NEW S, NEW s \in Seq(S), NEW t \in Seq(S), Len(s) = Len(t),
         \A k \in 1..Len(s) : s[k] = t[k]
  PROVE  s = t
OBVIOUS

\* A new ring is an empty channel.
LEMMA InitChannel == QueueInit => Channel!Init
<1> SUFFICES ASSUME QueueInit PROVE Channel!Init
  OBVIOUS
<1>1. Contents \in Seq(Elem) /\ Len(Contents) = 0
  BY InitInv, ContentsType DEF QueueInit, Count, ContentsOK
<1>2. Contents = << >>
  BY <1>1
<1> QED BY <1>2, QueueFacts DEF Channel!Init, QueueInit

\* What is known of the contents before and after a step.
LEMMA ContentsFacts ==
  ASSUME QueueInv, QueueInv'
  PROVE  /\ Contents \in Seq(Elem) /\ Len(Contents) = Count
         /\ \A k \in 1..Count : Contents[k] = elem[Slot(tail, k - 1)]
         /\ Contents' \in Seq(Elem) /\ Len(Contents') = Count'
         /\ \A k \in 1..Count' : Contents'[k] = elem'[Slot(tail', k - 1)]
         /\ N \in Nat /\ N > 0 /\ Count \in 0..N /\ tail \in 0..(N - 1)
         /\ val \in Elem /\ elem \in [0..(N - 1) -> Elem]
<1>1. /\ Contents \in Seq(Elem) /\ Len(Contents) = Count
      /\ \A k \in 1..Count : Contents[k] = elem[Slot(tail, k - 1)]
  BY ContentsType DEF ContentsOK
<1>2. /\ Contents' \in Seq(Elem) /\ Len(Contents') = Count'
      /\ \A k \in 1..Count' : Contents'[k] = elem'[Slot(tail', k - 1)]
  BY ContentsTypeNext DEF ContentsOK, Slot
<1> QED BY <1>1, <1>2, CountType, QueueFacts DEF QueueInv, QueueTypeOK

\* A step that leaves the occupied slots alone leaves the contents alone.
LEMMA ContentsSame ==
  ASSUME QueueInv, QueueInv', Count' = Count, tail' = tail,
         \A k \in 1..Count : elem'[Slot(tail, k - 1)] = elem[Slot(tail, k - 1)]
  PROVE  Contents' = Contents
BY ContentsFacts, SameSeq

\* All steps but EnqueuePost and DequeueLoad leave the contents alone; the one
\* that stores fills a slot behind them.
LEMMA ContentsKept ==
  ASSUME QueueInv, QueueInv',
         \/ \E v \in Elem : EnqueueWait(v)
         \/ EnqueueStore \/ DequeueWait \/ DequeuePost \/ UNCHANGED queueVars
  PROVE  Contents' = Contents
<1>1. CASE \E v \in Elem : EnqueueWait(v)
  BY <1>1, ContentsSame DEF EnqueueWait, getVars, Count
<1>2. CASE EnqueueStore
  <2>1. head = Slot(tail, Count) /\ Count \in 0..(N - 1)
    BY <1>2, ContentsFacts, CountType DEF EnqueueStore, QueueInv, SemaphoresCount
  <2>2. \A k \in 1..Count : Slot(tail, k - 1) # head
    <3>1. N \in Nat /\ N > 0 /\ tail \in 0..(N - 1)
      BY ContentsFacts
    <3> QED BY <2>1, <3>1, SlotInjective
  <2>3. \A k \in 1..Count :
           elem'[Slot(tail, k - 1)] = elem[Slot(tail, k - 1)]
    <3>1. \A x \in 0..(N - 1) : x # head => elem'[x] = elem[x]
      BY <1>2, ContentsFacts DEF EnqueueStore
    <3>2. ASSUME NEW k \in 1..Count PROVE Slot(tail, k - 1) \in 0..(N - 1)
      <4>1. N \in Nat /\ Count \in 0..N /\ tail \in 0..(N - 1)
        BY ContentsFacts
      <4>2. k - 1 \in 0..N
        BY <4>1
      <4> QED BY <4>1, <4>2, SlotType
    <3> QED BY <2>2, <3>1, <3>2
  <2> QED BY <1>2, <2>3, ContentsSame DEF EnqueueStore, getVars, Count
<1>3. CASE DequeueWait
  <2>1. Count' = Count /\ tail' = tail /\ elem' = elem
    BY <1>3 DEF DequeueWait, Count, QueueInv, QueueTypeOK
  <2> QED BY <2>1, ContentsSame
<1>4. CASE DequeuePost
  BY <1>4, ContentsSame DEF DequeuePost, Count
<1>5. CASE UNCHANGED queueVars
  BY <1>5, ContentsSame DEF queueVars, getVars, Count
<1> QED BY <1>1, <1>2, <1>3, <1>4, <1>5

\* EnqueuePost is where an element is sent.
LEMMA PostSends ==
  ASSUME QueueInv, QueueInv', EnqueuePost
  PROVE  Contents' = Append(Contents, val) /\ Len(Contents) < N
<1>1. Count' = Count + 1 /\ Count < N /\ elem[Slot(tail, Count)] = val
  BY ContentsFacts, CountType
  DEF EnqueuePost, getVars, QueueInv, QueueTypeOK, SemaphoresCount, Count
<1>2. tail' = tail /\ elem' = elem
  BY DEF EnqueuePost
<1>3. /\ Append(Contents, val) \in Seq(Elem)
      /\ Len(Append(Contents, val)) = Count + 1
      /\ \A k \in 1..Count : Append(Contents, val)[k] = Contents[k]
      /\ Append(Contents, val)[Count + 1] = val
  BY ContentsFacts
<1>4. \A k \in 1..(Count + 1) : Contents'[k] = Append(Contents, val)[k]
  <2> TAKE k \in 1..(Count + 1)
  <2>1. CASE k = Count + 1
    BY <1>1, <1>2, <1>3, <2>1, ContentsFacts
  <2>2. CASE k \in 1..Count
    BY <1>1, <1>2, <1>3, <2>2, ContentsFacts
  <2>3. k = Count + 1 \/ k \in 1..Count
    <3>1. Count \in Nat
      BY ContentsFacts
    <3> QED BY <3>1
  <2> QED BY <2>1, <2>2, <2>3
<1> QED BY <1>1, <1>3, <1>4, ContentsFacts, SameSeq

\* DequeueLoad is where one is received.
LEMMA LoadReceives ==
  ASSUME QueueInv, QueueInv', DequeueLoad
  PROVE  Contents # << >> /\ got' = Head(Contents) /\ Contents' = Tail(Contents)
<1>1. Count' = Count - 1 /\ Count > 0 /\ tail' = Wrap(tail + 1) /\ elem' = elem
  BY ContentsFacts, CountType DEF DequeueLoad, Count, QueueInv, QueueTypeOK
<1>2. got' = Head(Contents) /\ Contents # << >>
  <2>1. Slot(tail, 0) = tail
    BY ContentsFacts DEF Slot
  <2>2. Contents[1] = elem[tail]
    BY <1>1, <2>1, ContentsFacts
  <2> QED BY <1>1, <2>2, ContentsFacts DEF DequeueLoad
<1>3. /\ Tail(Contents) \in Seq(Elem)
      /\ Len(Tail(Contents)) = Count - 1
      /\ \A k \in 1..(Count - 1) : Tail(Contents)[k] = Contents[k + 1]
  BY <1>1, <1>2, ContentsFacts
<1>4. \A k \in 1..(Count - 1) : Contents'[k] = Tail(Contents)[k]
  <2> TAKE k \in 1..(Count - 1)
  <2>1. Slot(tail', k - 1) = Slot(tail, k)
    BY <1>1, ContentsFacts, SlotShift
  <2>2. k \in 1..Count' /\ k + 1 \in 1..Count /\ (k + 1) - 1 = k
    BY <1>1, ContentsFacts
  <2>3. Contents'[k] = elem[Slot(tail, k)]
    BY <1>1, <2>1, <2>2, ContentsFacts
  <2>4. Contents[k + 1] = elem[Slot(tail, k)]
    BY <2>2, ContentsFacts
  <2> QED BY <1>3, <2>3, <2>4
<1> QED BY <1>1, <1>2, <1>3, <1>4, ContentsFacts, SameSeq

\* Every step of the ring is a step of the channel or none.
LEMMA NextChannel ==
  QueueInv /\ QueueInv' /\ [QueueNext]_queueVars =>
    [Channel!Next]_(Channel!vars)
<1> SUFFICES ASSUME QueueInv, QueueInv', [QueueNext]_queueVars
             PROVE  Channel!Next \/ UNCHANGED <<Contents, got>>
  BY DEF Channel!vars
<1>1. CASE \/ \E v \in Elem : EnqueueWait(v)
           \/ EnqueueStore \/ DequeueWait \/ DequeuePost \/ UNCHANGED queueVars
  <2>1. got' = got
    BY <1>1 DEF EnqueueWait, EnqueueStore, DequeueWait, DequeuePost, getVars, queueVars
  <2> QED BY <1>1, <2>1, ContentsKept
<1>2. CASE EnqueuePost
  BY <1>2, PostSends, ContentsFacts DEF EnqueuePost, getVars, Channel!Next, Channel!Put
<1>3. CASE DequeueLoad
  BY <1>3, LoadReceives DEF Channel!Next, Channel!Get
<1> QED BY <1>1, <1>2, <1>3 DEF QueueNext

\* The ring with its two semaphores is a bounded FIFO channel, whatever the
\* number of slots and however the two threads interleave: an element that was
\* enqueued is dequeued once, in order, and never overwritten before.
THEOREM RingIsChannel == QueueSpec => IsChannel
<1> QED BY InitInv, NextInv, InitChannel, NextChannel, PTL
        DEF QueueSpec, IsChannel, Channel!Spec

-----------------------------------------------------------------------------
\* What the assumption on the constants says.
LEMMA ListFacts ==
  Elem = Pid \cup {NULL} /\ NULL \notin Pid /\ NULL \in Elem /\ IsFiniteSet(File)
BY ProcessListAssumption

-----------------------------------------------------------------------------
(***************************************************************************)
(* Types, and where the two threads are relative to each other.            *)
(***************************************************************************)

ListType ==
  /\ mode \in {"thread", "direct", "pid"}
  /\ wanted \subseteq Pid /\ dir \subseteq Pid /\ listed \subseteq Pid
  /\ last \in Elem /\ now \in Elem
  /\ gen \in {"off", "scan", "enqueue", "finish", "done"}
  /\ main \in {"begin", "next", "call", "end", "body", "join", "done"}
  /\ visited \in Seq(Pid)

ControlInv ==
  /\ mode # "thread" => put = "out" /\ get = "out" /\ empty = 0 /\ gen \in {"off", "scan"}
  /\ mode = "direct" => (gen = "scan" <=> main = "call")
  /\ mode = "pid" => gen = "off"
  /\ mode = "thread" => (main = "begin" <=> gen = "off")
  /\ main = "call" => mode = "direct"
  /\ get # "out" => main = "next"
  /\ put # "out" => gen \in {"enqueue", "finish"}
  /\ main = "body" => now # NULL
  /\ main \in {"join", "done"} => now = NULL
  /\ main = "join" => mode = "thread"
  /\ main = "done" /\ mode = "thread" => gen = "done"
  /\ main = "begin" => /\ visited = << >> /\ dir = Pid /\ listed = {} /\ last = NULL
                       /\ empty = 0 /\ put = "out"

IterInv == QueueInv /\ ListType /\ ControlInv

\* All that most proofs need of the body of the loop.
LEMMA TriggerFrame ==
  ASSUME TriggerProcess
  PROVE  /\ main = "body" /\ main' = "next"
         /\ visited' = Append(visited, now)
         /\ UNCHANGED <<queueVars, listVars, now, wild>>
BY DEF TriggerProcess

\* The two threads use the ring as its producer and its consumer only.
LEMMA UsesQueue ==
  ASSUME ListType, [Next]_vars
  PROVE  [QueueNext]_queueVars
<1> USE ListFacts DEF ListType
<1>1. CASE Generate
  BY <1>1 DEF Generate
<1>2. CASE GenerateEnd
  BY <1>2 DEF GenerateEnd
<1>3. CASE Enqueue
  BY <1>3 DEF Enqueue, QueueNext
<1>4. CASE process_list_begin
  BY <1>4 DEF process_list_begin
<1>5. CASE process_list_next
  BY <1>5 DEF process_list_next, QueueNext
<1>6. CASE process_list_end
  BY <1>6 DEF process_list_end
<1>7. CASE TriggerProcess
  BY <1>7, TriggerFrame
<1>8. CASE Finished \/ UNCHANGED vars
  BY <1>8 DEF Finished, vars
<1> QED BY <1>1, <1>2, <1>3, <1>4, <1>5, <1>6, <1>7, <1>8 DEF Next, GenStep, MainStep

\* The invariant holds at the start.
LEMMA InitIterInv == Init => IterInv
<1> SUFFICES ASSUME Init PROVE IterInv
  OBVIOUS
<1>1. QueueInv
  BY InitInv DEF Init
<1>2. ListType
  BY ListFacts DEF Init, ListType
<1>3. ControlInv
  BY DEF Init, ControlInv, QueueInit
<1> QED BY <1>1, <1>2, <1>3 DEF IterInv

\* Every step keeps the types and the positions.
LEMMA NextIterInv == IterInv /\ [Next]_vars => IterInv'
<1> SUFFICES ASSUME IterInv, [Next]_vars PROVE IterInv'
  OBVIOUS
<1>1. QueueInv /\ ListType /\ ControlInv /\ QueueTypeOK
  BY DEF IterInv, QueueInv
<1>2. QueueInv'
  BY <1>1, UsesQueue, NextInv
<1>3. ListType' /\ ControlInv'
  <2> USE <1>1, ListFacts DEF ListType, ControlInv, queueVars, putVars, getVars,
          listVars, batchVars
  <2>1. CASE Generate
    BY <2>1 DEF Generate, Insert, Answer
  <2>2. CASE GenerateEnd
    BY <2>2 DEF GenerateEnd, Answer
  <2>3. CASE Enqueue
    <3>1. CASE gen = "enqueue" /\ EnqueueWait(last) /\ UNCHANGED gen
      BY <2>3, <3>1 DEF Enqueue, EnqueueWait
    <3>2. CASE gen = "finish" /\ EnqueueWait(NULL) /\ UNCHANGED gen
      BY <2>3, <3>2 DEF Enqueue, EnqueueWait
    <3>3. CASE EnqueueStore /\ UNCHANGED gen
      BY <2>3, <3>3 DEF Enqueue, EnqueueStore
    <3>4. CASE EnqueuePost /\ gen' = IF gen = "enqueue" THEN "scan" ELSE "done"
      BY <2>3, <3>4 DEF Enqueue, EnqueuePost
    <3> QED BY <2>3, <3>1, <3>2, <3>3, <3>4 DEF Enqueue
  <2>4. CASE process_list_begin
    BY <2>4 DEF process_list_begin, Insert
  <2>5. CASE process_list_next
    BY <2>5 DEF process_list_next, DequeueWait, DequeueLoad, DequeuePost, QueueTypeOK
  <2>6. CASE process_list_end
    BY <2>6 DEF process_list_end
  <2>7. CASE TriggerProcess
    BY <2>7, TriggerFrame
  <2>8. CASE Finished \/ UNCHANGED vars
    BY <2>8 DEF Finished, vars
  <2> QED BY <2>1, <2>2, <2>3, <2>4, <2>5, <2>6, <2>7, <2>8 DEF Next, GenStep, MainStep
<1> QED BY <1>2, <1>3 DEF IterInv

\* The invariant of the iteration.
LEMMA IterInvariant == Spec => []IterInv
<1> QED BY InitIterInv, NextIterInv, PTL DEF Spec

\* In the tool, the ring between the generator thread and the main thread is a
\* bounded FIFO channel: the two threads call producer_consumer_enqueue and
\* producer_consumer_dequeue as its only producer and its only consumer.
THEOREM IterationUsesChannel == Spec => IsChannel
<1>1. ListType /\ [Next]_vars => [QueueNext]_queueVars
  BY UsesQueue
<1>2. IterInv => ListType
  BY DEF IterInv
<1>3. Init => QueueInit
  BY DEF Init
<1>4. Spec => QueueSpec
  BY <1>1, <1>2, <1>3, IterInvariant, PTL DEF Spec, QueueSpec
<1> QED BY <1>4, RingIsChannel

-----------------------------------------------------------------------------
(***************************************************************************)
(* What is handed out: every value on its way from the generator to the    *)
(* body of the loop has its place in one sequence.                         *)
(***************************************************************************)

\* The main thread has a process that it has not visited yet; or has taken one
\* from the ring; the generator has one to send.
Taken   == IF main \in {"end", "body", "join", "done"} THEN 1 ELSE 0
Claimed == IF get = "post" THEN 1 ELSE 0
Pending == IF gen \in {"enqueue", "finish"} THEN 1 ELSE 0

\* The sequence `s` is what was handed out so far: what was visited, what the
\* main thread holds, what is in the ring and what the generator holds.
Line(s) ==
  /\ s \in Seq(Elem)
  /\ Len(s) = Len(visited) + Taken + Claimed + Len(Contents) + Pending
  /\ \A k \in 1..Len(visited) : s[k] = visited[k]
  /\ Taken = 1 => s[Len(visited) + 1] = now
  /\ Claimed = 1 => s[Len(visited) + 1] = got
  /\ \A k \in 1..Len(Contents) : s[Len(visited) + Taken + Claimed + k] = Contents[k]
  /\ Pending = 1 =>
       s[Len(s)] = IF put # "out" THEN val ELSE IF gen = "enqueue" THEN last ELSE NULL

\* The processes found in /proc so far.
Found == Cardinality(wanted \ dir)

\* What the generator hands out: one value for each process that matches, and a
\* NULL at the end. It is the last process that could be inserted, so that all
\* NULLs before the end come first, and a process comes several times in a row.
Sent(s) ==
  /\ IsFiniteSet(wanted \ dir)
  /\ Len(s) = Found \/ (Len(s) = Found + 1 /\ s[Found + 1] = NULL /\ dir = {})
  /\ mode = "thread" => (gen \in {"finish", "done"} <=> Len(s) = Found + 1)
  /\ mode = "direct" /\ Len(s) = Found + 1 => main \in {"end", "done"} /\ now = NULL
  /\ listed = {s[k] : k \in 1..Found} \ {NULL}
  /\ listed \subseteq wanted \ dir
  /\ last = IF Found = 0 THEN NULL ELSE s[Found]
  /\ \A k \in 1..Found : s[k] = NULL =>
        /\ \E p \in wanted \ dir : p \notin listed
        /\ \A j \in 1..k : s[j] = NULL
  /\ \A j, k \in 1..Found : \A i \in j..k : s[j] = s[k] => s[i] = s[j]

LineInv == mode # "pid" => \E s : Line(s) /\ Sent(s)

\* The contents of the ring are a sequence.
LEMMA RingSeq ==
  ASSUME QueueInv
  PROVE  Contents \in Seq(Elem) /\ Len(Contents) \in Nat
<1>1. Contents \in Seq(Elem)
  BY ContentsType DEF ContentsOK
<1> QED BY <1>1

\* The line does not change while a value moves along it.
LEMMA LineKept ==
  ASSUME IterInv, IterInv', mode # "pid", NEW s, Line(s),
         \/ Enqueue \/ process_list_begin \/ process_list_next
         \/ process_list_end \/ TriggerProcess
  PROVE  Line(s)'
<1>1. /\ QueueInv /\ QueueInv' /\ ListType /\ ControlInv /\ QueueTypeOK
      /\ Contents \in Seq(Elem) /\ Len(Contents) \in Nat
      /\ visited \in Seq(Pid) /\ Len(visited) \in Nat
      /\ s \in Seq(Elem) /\ Len(s) \in Nat
  BY RingSeq DEF IterInv, QueueInv, ListType, Line
<1>2. CASE Enqueue
  <2>1. UNCHANGED <<mode, last, now, main, visited>> /\ visited' = visited
    BY <1>2 DEF Enqueue, batchVars
  <2>2. Taken' = Taken
    BY <2>1 DEF Taken
  <2>3. CASE \/ gen = "enqueue" /\ EnqueueWait(last) /\ UNCHANGED gen
             \/ gen = "finish" /\ EnqueueWait(NULL) /\ UNCHANGED gen
    <3>1. Contents' = Contents /\ UNCHANGED getVars
      BY <1>1, <2>3, ContentsKept, ListFacts DEF EnqueueWait, ListType
    <3>2. Claimed' = Claimed /\ Pending' = Pending /\ got' = got
      BY <2>3, <3>1 DEF Claimed, Pending, getVars
    <3> QED BY <2>1, <2>2, <2>3, <3>1, <3>2 DEF Line, EnqueueWait
  <2>4. CASE EnqueueStore /\ UNCHANGED gen
    <3>1. Contents' = Contents /\ UNCHANGED getVars
      BY <1>1, <2>4, ContentsKept DEF EnqueueStore
    <3>2. Claimed' = Claimed /\ Pending' = Pending /\ got' = got
      BY <2>4, <3>1 DEF Claimed, Pending, getVars
    <3> QED BY <2>1, <2>2, <2>4, <3>1, <3>2 DEF Line, EnqueueStore
  <2>5. CASE EnqueuePost /\ gen' = IF gen = "enqueue" THEN "scan" ELSE "done"
    <3>1. Contents' = Append(Contents, val) /\ UNCHANGED getVars /\ val \in Elem
      BY <1>1, <2>5, PostSends DEF EnqueuePost, QueueTypeOK
    <3>2. Claimed' = Claimed /\ Pending' = 0 /\ Pending = 1 /\ got' = got /\ put = "post"
      BY <1>1, <2>5, <3>1 DEF Claimed, Pending, getVars, EnqueuePost, ControlInv
    <3>3. Taken \in {0, 1} /\ Claimed \in {0, 1}
      BY DEF Taken, Claimed
    <3>4. /\ Len(Contents') = Len(Contents) + 1
          /\ \A k \in 1..Len(Contents) : Contents'[k] = Contents[k]
          /\ Contents'[Len(Contents) + 1] = val
      BY <1>1, <3>1
    <3>5. s[Len(s)] = val /\ Len(s) = Len(visited) + Taken + Claimed + (Len(Contents) + 1)
      BY <1>1, <3>2, <3>3 DEF Line
    <3>6. \A k \in 1..Len(Contents') : s[Len(visited) + Taken + Claimed + k] = Contents'[k]
      <4> TAKE k \in 1..Len(Contents')
      <4>1. CASE k \in 1..Len(Contents)
        BY <1>1, <3>4, <4>1 DEF Line
      <4>2. CASE k = Len(Contents) + 1
        BY <3>4, <3>5, <4>2
      <4>3. k \in 1..Len(Contents) \/ k = Len(Contents) + 1
        BY <1>1, <3>4
      <4> QED BY <4>1, <4>2, <4>3
    <3> HIDE <3>1
    <3>7. Len(s) = Len(visited') + Taken' + Claimed' + Len(Contents') + Pending'
      BY <1>1, <2>1, <2>2, <3>2, <3>3, <3>4, <3>5
    <3>8. Pending' # 1
      BY <3>2
    <3> QED BY <1>1, <2>1, <2>2, <3>2, <3>6, <3>7, <3>8 DEF Line
  <2> QED BY <1>2, <2>3, <2>4, <2>5 DEF Enqueue
<1>3. CASE process_list_begin
  <2>1. Contents' = Contents /\ UNCHANGED <<visited, put, get, got>> /\ last' = last
    BY <1>1, <1>3, ContentsKept DEF process_list_begin, batchVars, queueVars, putVars, getVars
  <2>2. Taken' = 0 /\ Taken = 0 /\ Claimed' = Claimed /\ Pending' = 0 /\ Pending = 0
    BY <1>1, <1>3, <2>1 DEF process_list_begin, Taken, Claimed, Pending, ControlInv
  <2> QED BY <2>1, <2>2 DEF Line
<1>4. CASE process_list_next
  <2>1. UNCHANGED <<visited, put, val, last>>
    BY <1>4 DEF process_list_next, batchVars, queueVars, putVars, listVars,
       DequeueWait, DequeueLoad, DequeuePost
  <2>2. CASE mode = "direct"
    <3>1. Contents' = Contents /\ UNCHANGED <<get, got>>
      BY <1>1, <1>4, <2>2, ContentsKept DEF process_list_next, queueVars, getVars
    <3>2. Taken' = 0 /\ Taken = 0 /\ Claimed' = Claimed /\ Pending' = 0 /\ Pending = 0
      BY <1>1, <1>4, <2>2, <3>1 DEF process_list_next, Taken, Claimed, Pending, ControlInv
    <3> QED BY <2>1, <3>1, <3>2 DEF Line
  <2>3. CASE mode = "thread"
    <3>1. main = "next" /\ gen' = gen /\ Pending' = Pending /\ Taken = 0
      BY <1>4, <2>3 DEF process_list_next, listVars, Pending, Taken
    <3>2. CASE DequeueWait /\ UNCHANGED <<now, main>>
      <4>1. Contents' = Contents /\ got' = got
        BY <1>1, <3>2, ContentsKept DEF DequeueWait
      <4>2. Taken' = Taken /\ Claimed' = 0 /\ Claimed = 0
        BY <3>2 DEF DequeueWait, Taken, Claimed
      <4> QED BY <2>1, <3>1, <3>2, <4>1, <4>2 DEF Line
    <3>3. CASE DequeueLoad /\ UNCHANGED <<now, main>>
      <4>1. Contents # << >> /\ got' = Head(Contents) /\ Contents' = Tail(Contents)
        BY <1>1, <3>3, LoadReceives
      <4>2. /\ Len(Contents') = Len(Contents) - 1 /\ Len(Contents) > 0
            /\ \A k \in 1..Len(Contents') : Contents'[k] = Contents[k + 1]
            /\ got' = Contents[1]
        BY <1>1, <4>1
      <4> HIDE <4>1
      <4>3. Taken' = 0 /\ Claimed = 0 /\ Claimed' = 1 /\ Pending \in {0, 1}
        BY <3>1, <3>3 DEF DequeueLoad, Taken, Claimed, Pending
      <4>4. /\ \A k \in 1..Len(Contents) : s[Len(visited) + k] = Contents[k]
            /\ Len(s) = Len(visited) + Len(Contents) + Pending
        BY <1>1, <3>1, <4>3 DEF Line
      <4>5. \A k \in 1..Len(Contents') : s[Len(visited) + 0 + 1 + k] = Contents'[k]
        <5> TAKE k \in 1..Len(Contents')
        <5>1. k + 1 \in 1..Len(Contents) /\ Len(visited) + 0 + 1 + k = Len(visited) + (k + 1)
          BY <1>1, <4>2
        <5> QED BY <4>2, <4>4, <5>1
      <4>6. Len(s) = Len(visited) + 0 + 1 + Len(Contents') + Pending
        BY <1>1, <4>2, <4>3, <4>4
      <4>7. s[Len(visited) + 1] = got'
        BY <1>1, <4>2, <4>4
      <4>8. /\ Len(s) = Len(visited)' + Taken' + Claimed' + Len(Contents') + Pending'
            /\ \A k \in 1..Len(Contents') :
                  s[Len(visited)' + Taken' + Claimed' + k] = Contents'[k]
            /\ s[Len(visited)' + 1] = got'
        BY <2>1, <3>1, <4>3, <4>5, <4>6, <4>7
      <4>9. Taken' # 1
        BY <4>3
      <4> QED BY <1>1, <2>1, <3>1, <4>8, <4>9 DEF Line
    <3>4. CASE DequeuePost /\ now' = got /\ main' = "end"
      <4>1. Contents' = Contents /\ got' = got
        BY <1>1, <3>4, ContentsKept DEF DequeuePost
      <4>2. Taken' = 1 /\ Claimed' = 0 /\ Claimed = 1
        BY <3>4 DEF DequeuePost, Taken, Claimed
      <4>3. Len(visited) + 1 + 0 = Len(visited) + 0 + 1
        BY <1>1
      <4> QED BY <2>1, <3>1, <3>4, <4>1, <4>2, <4>3 DEF Line
    <3> QED BY <1>4, <2>3, <3>2, <3>3, <3>4 DEF process_list_next
  <2> QED BY <1>1, <2>2, <2>3 DEF ListType
<1>5. CASE process_list_end
  <2>1. Contents' = Contents /\ UNCHANGED <<visited, put, val, last, get, got, gen, now>>
    BY <1>1, <1>5, ContentsKept
    DEF process_list_end, queueVars, putVars, getVars, listVars, batchVars
  <2>2. Taken' = Taken /\ Claimed' = Claimed /\ Pending' = Pending
    BY <1>5, <2>1 DEF process_list_end, Taken, Claimed, Pending
  <2> QED BY <2>1, <2>2 DEF Line
<1>6. CASE TriggerProcess
  <2>1. /\ visited' = Append(visited, now) /\ main = "body" /\ main' = "next"
        /\ UNCHANGED <<queueVars, listVars, now, wild>>
    BY <1>6, TriggerFrame
  <2>2. Contents' = Contents /\ UNCHANGED <<put, val, last, get, got, gen, now>>
    BY <1>1, <2>1, ContentsKept DEF queueVars, putVars, getVars, listVars
  <2>3. Taken = 1 /\ Taken' = 0 /\ Claimed' = 0 /\ Claimed = 0 /\ Pending' = Pending
    BY <1>1, <2>1, <2>2 DEF Taken, Claimed, Pending, ControlInv
  <2>4. now \in Pid
    BY <1>1, <2>1, ListFacts DEF ControlInv, ListType
  <2>5. /\ Len(visited') = Len(visited) + 1
        /\ \A k \in 1..Len(visited) : visited'[k] = visited[k]
        /\ visited'[Len(visited) + 1] = now
    BY <1>1, <2>1, <2>4
  <2>6. \A k \in 1..Len(visited') : s[k] = visited'[k]
    <3> TAKE k \in 1..Len(visited')
    <3>1. k \in 1..Len(visited) \/ k = Len(visited) + 1
      BY <1>1, <2>5
    <3> QED BY <2>3, <2>5, <3>1 DEF Line
  <2> HIDE <2>1
  <2> QED BY <1>1, <2>2, <2>3, <2>5, <2>6 DEF Line
<1> QED BY <1>2, <1>3, <1>4, <1>5, <1>6

\* The line goes on to say what the generator handed out, while it hands out
\* nothing new and its end is where it was.
LEMMA SentKept ==
  ASSUME NEW s, Sent(s), UNCHANGED <<mode, wanted, listed, last>>,
         dir' \subseteq dir, wanted \ dir' = wanted \ dir,
         mode = "thread" => (gen' \in {"finish", "done"} <=> gen \in {"finish", "done"}),
         mode = "direct" /\ main \in {"end", "done"} /\ now = NULL =>
            main' \in {"end", "done"} /\ now' = NULL
  PROVE  Sent(s)'
<1>1. Found' = Found /\ (wanted \ dir)' = wanted \ dir
  BY DEF Found
<1>2. dir = {} => dir' = {}
  OBVIOUS
<1> HIDE DEF Found
<1> QED BY <1>1, <1>2 DEF Sent

\* The steps that hand out nothing.
LEMMA QuietSent ==
  ASSUME IterInv, mode # "pid", NEW s, Sent(s),
         \/ Enqueue \/ process_list_begin \/ process_list_next
         \/ process_list_end \/ TriggerProcess
  PROVE  Sent(s)'
<1> USE DEF IterInv, ListType, ControlInv
<1>1. CASE Enqueue
  <2>1. UNCHANGED <<mode, wanted, dir, last, listed, now, main>>
    BY <1>1 DEF Enqueue
  <2>2. gen' \in {"finish", "done"} <=> gen \in {"finish", "done"}
    BY <1>1 DEF Enqueue, EnqueuePost
  <2> QED BY <2>1, <2>2, SentKept
<1>2. CASE process_list_begin
  <2>1. UNCHANGED <<mode, wanted, dir, last, listed, now>> /\ main = "begin"
    BY <1>2 DEF process_list_begin
  <2>2. mode = "thread" => gen = "off" /\ gen' = "scan"
    BY <1>2, <2>1 DEF process_list_begin
  <2> QED BY <2>1, <2>2, SentKept
<1>3. CASE process_list_next
  <2>1. UNCHANGED <<mode, wanted, dir, last, listed>> /\ main = "next"
    BY <1>3 DEF process_list_next, listVars
  <2>2. mode = "thread" => gen' = gen
    BY <1>3 DEF process_list_next, listVars
  <2> QED BY <2>1, <2>2, SentKept
<1>4. CASE process_list_end
  <2>1. UNCHANGED <<mode, wanted, dir, last, listed, gen, now>>
    BY <1>4 DEF process_list_end, listVars
  <2>2. now = NULL /\ mode = "direct" => main' \in {"end", "done"}
    BY <1>4 DEF process_list_end
  <2> QED BY <2>1, <2>2, SentKept
<1>5. CASE TriggerProcess
  <2>1. UNCHANGED <<mode, wanted, dir, last, listed, gen, now>> /\ main = "body"
    BY <1>5, TriggerFrame DEF listVars
  <2> QED BY <2>1, SentKept
<1> QED BY <1>1, <1>2, <1>3, <1>4, <1>5

\* A value that is handed out goes to the end of the line.
LEMMA LineGrows ==
  ASSUME IterInv, IterInv', mode # "pid", NEW s, Line(s), NEW v \in Elem,
         UNCHANGED <<queueVars, visited>>, gen = "scan",
         mode = "thread" => /\ UNCHANGED <<now, main>>
                            /\ \/ gen' = "enqueue" /\ v = last'
                               \/ gen' = "finish" /\ v = NULL,
         mode = "direct" => gen' = "off" /\ now' = v /\ main' = "end"
  PROVE  Line(Append(s, v))'
<1> DEFINE t == Append(s, v)
<1>1. /\ QueueInv /\ QueueInv' /\ ListType /\ ControlInv /\ QueueTypeOK
      /\ Contents \in Seq(Elem) /\ Len(Contents) \in Nat
      /\ visited \in Seq(Pid) /\ Len(visited) \in Nat
      /\ s \in Seq(Elem) /\ Len(s) \in Nat
  BY RingSeq DEF IterInv, QueueInv, ListType, Line
<1>2. Contents' = Contents /\ UNCHANGED <<put, val, get, got, visited, empty>>
  BY <1>1, ContentsKept DEF queueVars, putVars, getVars
<1>3. /\ t \in Seq(Elem) /\ Len(t) = Len(s) + 1 /\ t[Len(s) + 1] = v
      /\ \A k \in 1..Len(s) : t[k] = s[k]
  BY <1>1
<1>4. put = "out" /\ Pending = 0 /\ Claimed' = Claimed
  BY <1>1, <1>2 DEF Pending, Claimed, ControlInv
<1>5. Taken \in {0, 1} /\ Claimed \in {0, 1}
  BY DEF Taken, Claimed
<1> HIDE DEF t
<1>6. CASE mode = "thread"
  <2>1. Taken' = Taken /\ Pending' = 1
    BY <1>6 DEF Taken, Pending
  <2>2. \A k \in 1..Len(visited) : t[k] = visited[k]
    BY <1>1, <1>3, <1>4, <1>5 DEF Line
  <2>3. Taken = 1 => t[Len(visited) + 1] = now
    BY <1>1, <1>3, <1>4, <1>5 DEF Line
  <2>4. Claimed = 1 => t[Len(visited) + 1] = got
    BY <1>1, <1>3, <1>4, <1>5 DEF Line
  <2>5. \A k \in 1..Len(Contents) : t[Len(visited) + Taken + Claimed + k] = Contents[k]
    <3> TAKE k \in 1..Len(Contents)
    <3>1. s[Len(visited) + Taken + Claimed + k] = Contents[k]
      BY DEF Line
    <3>2. Len(s) = Len(visited) + Taken + Claimed + Len(Contents)
      BY <1>1, <1>4, <1>5 DEF Line
    <3>3. Len(visited) + Taken + Claimed + k \in 1..Len(s)
      BY <1>1, <1>5, <3>2
    <3> QED BY <1>3, <3>1, <3>3
  <2>6. Len(t) = Len(visited) + Taken + Claimed + Len(Contents) + 1
    BY <1>1, <1>3, <1>4, <1>5 DEF Line
  <2>7. t[Len(t)] = IF gen' = "enqueue" THEN last' ELSE NULL
    BY <1>1, <1>3, <1>6
  <2> QED BY <1>2, <1>3, <1>4, <1>6, <2>1, <2>2, <2>3, <2>4, <2>5, <2>6, <2>7 DEF Line, t
<1>7. CASE mode = "direct"
  <2>1. Taken = 0 /\ Taken' = 1 /\ Pending' = 0 /\ Claimed = 0
    BY <1>1, <1>7 DEF Taken, Pending, Claimed, ControlInv
  <2>2. Contents = << >> /\ Len(Contents) = 0
    BY <1>1, <1>7, ContentsFacts DEF ControlInv, Count
  <2>3. \A k \in 1..Len(visited) : t[k] = visited[k]
    BY <1>1, <1>3, <1>4, <2>1, <2>2 DEF Line
  <2>4. Len(s) = Len(visited)
    BY <1>1, <1>4, <2>1, <2>2 DEF Line
  <2>5. Len(t) = Len(visited) + 1 + 0 + Len(Contents) + 0 /\ t[Len(visited) + 1] = now'
    BY <1>1, <1>3, <1>7, <2>2, <2>4
  <2> QED BY <1>2, <1>3, <1>4, <2>1, <2>2, <2>3, <2>5 DEF Line, t
<1> QED BY <1>1, <1>6, <1>7 DEF ListType

\* A process was found: whether it could be inserted or not, it->last is handed
\* out.
LEMMA SentFound ==
  ASSUME IterInv, mode # "pid", NEW s \in Seq(Elem), Sent(s), gen = "scan",
         NEW p \in dir, p \in wanted, Insert(p), dir' = dir \ {p},
         UNCHANGED <<mode, wanted>>,
         mode = "thread" => gen' = "enqueue",
         NEW v, v = last'
  PROVE  Sent(Append(s, v))'
<1> DEFINE t == Append(s, v)
<1>1. /\ Len(s) = Found /\ dir # {} /\ Len(s) \in Nat /\ NULL \notin wanted
      /\ listed = {s[k] : k \in 1..Len(s)} \ {NULL}
      /\ listed \subseteq wanted \ dir
      /\ last = IF Len(s) = 0 THEN NULL ELSE s[Len(s)]
      /\ \A k \in 1..Len(s) : s[k] = NULL =>
            /\ \E q \in wanted \ dir : q \notin listed
            /\ \A j \in 1..k : s[j] = NULL
      /\ \A j, k \in 1..Len(s) : \A i \in j..k : s[j] = s[k] => s[i] = s[j]
  BY ListFacts DEF Sent, IterInv, ListType
<1>2. Found' = Len(s) + 1 /\ IsFiniteSet(wanted \ dir)'
  <2>1. wanted \ dir' = (wanted \ dir) \cup {p} /\ p \notin wanted \ dir
    OBVIOUS
  <2>2. IsFiniteSet(wanted \ dir) /\ Cardinality(wanted \ dir) = Len(s)
    BY <1>1 DEF Sent, Found
  <2>3. /\ IsFiniteSet((wanted \ dir) \cup {p})
        /\ Cardinality((wanted \ dir) \cup {p}) = Cardinality(wanted \ dir) + 1
    BY <2>1, <2>2, FS_AddElement
  <2> QED BY <2>1, <2>2, <2>3 DEF Found
<1>3. v \in Elem
  BY ListFacts DEF Insert, IterInv, ListType
<1>4. /\ t \in Seq(Elem) /\ Len(t) = Len(s) + 1 /\ t[Len(s) + 1] = v
      /\ \A k \in 1..Len(s) : t[k] = s[k]
  BY <1>1, <1>3
<1> HIDE DEF t
<1>5. 1..Len(t) = (1..Len(s)) \cup {Len(s) + 1}
  BY <1>1, <1>4
<1>6. {t[k] : k \in 1..Len(t)} = {s[k] : k \in 1..Len(s)} \cup {v}
  BY <1>4, <1>5
<1>7. /\ \/ last' = p /\ listed' = listed \cup {p}
         \/ last' = last /\ listed' = listed
      /\ p # NULL
  BY <1>1 DEF Insert
<1>8. last \in listed \/ (last = NULL /\ listed = {})
  <2>1. CASE Len(s) = 0
    BY <1>1, <2>1
  <2>2. CASE Len(s) > 0 /\ s[Len(s)] # NULL
    BY <1>1, <2>2
  <2>3. CASE Len(s) > 0 /\ s[Len(s)] = NULL
    <3>1. \A j \in 1..Len(s) : s[j] = NULL
      BY <1>1, <2>3
    <3> QED BY <1>1, <2>3, <3>1
  <2> QED BY <1>1, <2>1, <2>2, <2>3
<1>9. listed' = {t[k] : k \in 1..Len(t)} \ {NULL}
  <2>1. {t[k] : k \in 1..Len(t)} \ {NULL} = listed \cup ({v} \ {NULL})
    BY <1>1, <1>6
  <2>2. CASE v = p /\ listed' = listed \cup {p}
    BY <1>7, <2>1, <2>2
  <2>3. CASE v = last /\ listed' = listed
    BY <1>8, <2>1, <2>3
  <2> QED BY <1>7, <2>2, <2>3
<1>10. listed' \subseteq wanted \ dir'
  BY <1>1, <1>7
<1>11. ASSUME NEW k \in 1..Len(t), t[k] = NULL
       PROVE  (\E q \in wanted \ dir' : q \notin listed') /\ \A j \in 1..k : t[j] = NULL
  <2>1. CASE k \in 1..Len(s)
    <3>1. \A j \in 1..k : j \in 1..Len(s) /\ t[j] = NULL
      BY <1>1, <1>4, <1>11, <2>1
    <3>2. PICK q \in wanted \ dir : q \notin listed
      BY <1>1, <1>4, <1>11, <2>1
    <3>3. q \in wanted \ dir' /\ q \notin listed'
      BY <1>7, <3>2
    <3> QED BY <3>1, <3>3
  <2>2. CASE k = Len(s) + 1
    <3>1. last' = NULL /\ last = NULL /\ listed' = {} /\ listed = {}
      BY <1>1, <1>4, <1>7, <1>8, <1>11, <2>2
    <3>2. p \in wanted \ dir' /\ p \notin listed'
      BY <3>1
    <3>3. \A j \in 1..Len(s) : s[j] = NULL
      BY <1>1, <3>1
    <3>4. \A j \in 1..k : t[j] = NULL
      BY <1>1, <1>4, <1>11, <2>2, <3>3
    <3> QED BY <3>2, <3>4
  <2> QED BY <1>5, <2>1, <2>2
<1>12. ASSUME NEW j \in 1..Len(t), NEW k \in 1..Len(t), NEW i \in j..k, t[j] = t[k]
       PROVE  t[i] = t[j]
  <2>1. CASE k \in 1..Len(s)
    BY <1>1, <1>4, <1>12, <2>1
  <2>2. CASE k = Len(s) + 1 /\ j \in 1..Len(s)
    <3>1. t[k] = last' /\ s[j] = last' /\ Len(s) > 0
      BY <1>1, <1>4, <1>12, <2>2
    <3>2. s[j] # p
      BY <1>1, <1>7, <2>2
    <3>3. last' = last /\ last = s[Len(s)] /\ s[j] = s[Len(s)]
      BY <1>1, <1>7, <3>1, <3>2
    <3>4. \A m \in j..Len(s) : s[m] = s[j]
      BY <1>1, <2>2, <3>3
    <3>5. i \in j..Len(s) \/ i = Len(s) + 1
      BY <1>1, <2>2
    <3>6. CASE i \in j..Len(s)
      BY <1>1, <1>4, <2>2, <3>4, <3>6
    <3>7. CASE i = Len(s) + 1
      BY <1>12, <2>2, <3>7
    <3> QED BY <3>5, <3>6, <3>7
  <2>3. CASE k = Len(s) + 1 /\ j = Len(s) + 1
    BY <1>1, <2>3
  <2> QED BY <1>5, <2>1, <2>2, <2>3
<1>13. last' = IF Len(t) = 0 THEN NULL ELSE t[Len(t)]
  BY <1>1, <1>4
<1>14. Found' = Len(t) /\ (mode' = "thread" => gen' \notin {"finish", "done"})
  BY <1>2, <1>4
<1>15. Len(t) # Len(t) + 1
  BY <1>1, <1>4
<1> HIDE DEF Found
<1> QED BY <1>2, <1>9, <1>10, <1>11, <1>12, <1>13, <1>14, <1>15 DEF Sent, t

\* The end of /proc: a NULL is handed out.
LEMMA SentEnd ==
  ASSUME IterInv, mode # "pid", NEW s \in Seq(Elem), Sent(s), gen = "scan", dir = {},
         UNCHANGED <<mode, wanted, dir, last, listed>>,
         mode = "thread" => gen' = "finish",
         mode = "direct" => main' = "end" /\ now' = NULL
  PROVE  Sent(Append(s, NULL))'
<1> DEFINE t == Append(s, NULL)
<1>1. Len(s) = Found /\ Len(s) \in Nat
  BY DEF Sent, IterInv, ListType, ControlInv
<1>2. /\ Len(t) = Found + 1 /\ t[Found + 1] = NULL
      /\ \A k \in 1..Found : t[k] = s[k]
  BY <1>1, ListFacts
<1>3. Found' = Found /\ (wanted \ dir)' = wanted \ dir
  BY DEF Found
<1>4. {t[k] : k \in 1..Found} = {s[k] : k \in 1..Found}
  BY <1>2
<1>5. Found # 0 => Found \in 1..Found
  BY <1>1
<1>6. \A k \in 1..Found : \A j \in 1..k : j \in 1..Found
  BY <1>1
<1>7. \A j, k \in 1..Found : \A i \in j..k : i \in 1..Found
  BY <1>1
<1>8. /\ last' = IF Found = 0 THEN NULL ELSE t[Found]
      /\ listed' = {t[k] : k \in 1..Found} \ {NULL}
      /\ listed' \subseteq wanted \ dir
  BY <1>2, <1>4, <1>5 DEF Sent
<1>9. \A k \in 1..Found : t[k] = NULL =>
        /\ \E p \in wanted \ dir : p \notin listed
        /\ \A j \in 1..k : t[j] = NULL
  BY <1>2, <1>6 DEF Sent
<1>10. \A j, k \in 1..Found : \A i \in j..k : t[j] = t[k] => t[i] = t[j]
  BY <1>2, <1>7 DEF Sent
<1>11. IsFiniteSet(wanted \ dir)
  BY DEF Sent
<1> HIDE DEF t, Found
<1> QED BY <1>2, <1>3, <1>8, <1>9, <1>10, <1>11 DEF Sent, t

\* Every step keeps the line.
LEMMA NextLineInv == IterInv /\ IterInv' /\ LineInv /\ [Next]_vars => LineInv'
<1> SUFFICES ASSUME IterInv, IterInv', LineInv, [Next]_vars, mode' # "pid"
             PROVE  \E s : Line(s)' /\ Sent(s)'
  BY DEF LineInv
<1>1. mode' = mode
  BY DEF Next, GenStep, MainStep, Generate, GenerateEnd, Enqueue, process_list_begin,
     process_list_next, process_list_end, TriggerProcess, Finished, vars, listVars
<1>2. PICK s : Line(s) /\ Sent(s)
  BY <1>1 DEF LineInv
<1>3. s \in Seq(Elem) /\ mode # "pid" /\ mode \in {"thread", "direct"}
  BY <1>1, <1>2 DEF Line, IterInv, ListType
<1>4. CASE \/ Enqueue \/ process_list_begin \/ process_list_next
           \/ process_list_end \/ TriggerProcess
  BY <1>2, <1>3, <1>4, LineKept, QuietSent
<1>5. CASE Generate
  <2>1. PICK p \in dir :
          /\ dir' = dir \ {p}
          /\ IF p \notin wanted
               THEN UNCHANGED <<last, listed, gen, now, main>>
               ELSE /\ Insert(p)
                    /\ IF mode = "thread"
                         THEN gen' = "enqueue" /\ UNCHANGED <<now, main>>
                         ELSE Answer(last')
    BY <1>5 DEF Generate
  <2>2. UNCHANGED <<queueVars, mode, wanted, visited>> /\ gen = "scan"
    BY <1>5 DEF Generate, batchVars
  <2>3. CASE p \notin wanted
    <3>1. Contents' = Contents /\ UNCHANGED <<put, val, get, got, visited, last, gen, now, main>>
      BY <2>1, <2>2, <2>3, ContentsKept DEF IterInv, queueVars, putVars, getVars
    <3>2. Taken' = Taken /\ Claimed' = Claimed /\ Pending' = Pending
      BY <3>1 DEF Taken, Claimed, Pending
    <3>3. Line(s)'
      BY <1>2, <3>1, <3>2 DEF Line
    <3>4. Sent(s)'
      BY <1>2, <2>1, <2>2, <2>3, SentKept
    <3> QED BY <3>3, <3>4
  <2>4. CASE p \in wanted
    <3>1. PICK v : v = last'
      OBVIOUS
    <3>2. /\ Insert(p)
          /\ mode = "thread" => gen' = "enqueue" /\ UNCHANGED <<now, main>>
          /\ mode = "direct" => gen' = "off" /\ now' = v /\ main' = "end"
      BY <2>1, <2>4, <3>1 DEF Answer
    <3>3. v \in Elem
      BY <3>1 DEF IterInv, ListType
    <3>4. Line(Append(s, v))'
      BY <1>2, <1>3, <2>2, <3>1, <3>2, <3>3, LineGrows
    <3>5. Sent(Append(s, v))'
      BY <1>2, <1>3, <2>1, <2>2, <2>4, <3>1, <3>2, SentFound
    <3> QED BY <3>4, <3>5
  <2> QED BY <2>3, <2>4
<1>6. CASE GenerateEnd
  <2>1. /\ UNCHANGED <<queueVars, mode, wanted, dir, last, listed, visited>>
        /\ gen = "scan" /\ dir = {}
        /\ mode = "thread" => gen' = "finish" /\ UNCHANGED <<now, main>>
        /\ mode = "direct" => gen' = "off" /\ now' = NULL /\ main' = "end"
    BY <1>6 DEF GenerateEnd, Answer, batchVars
  <2>2. Line(Append(s, NULL))'
    BY <1>2, <1>3, <2>1, ListFacts, LineGrows
  <2>3. Sent(Append(s, NULL))'
    BY <1>2, <1>3, <2>1, SentEnd
  <2> QED BY <2>2, <2>3
<1>7. CASE Finished \/ UNCHANGED vars
  <2>1. UNCHANGED vars
    BY <1>7 DEF Finished
  <2>2. UNCHANGED <<queueVars, put, val, get, got, visited, last, gen, now, main, wanted, dir,
                    listed, mode>>
    BY <2>1 DEF vars, queueVars, putVars, getVars, listVars, batchVars
  <2>3. Contents' = Contents
    BY <2>2, ContentsKept DEF IterInv
  <2>4. Taken' = Taken /\ Claimed' = Claimed /\ Pending' = Pending
    BY <2>2 DEF Taken, Claimed, Pending
  <2>5. Line(s)'
    BY <1>2, <2>2, <2>3, <2>4 DEF Line
  <2>6. Sent(s)'
    BY <1>2, <2>2, SentKept
  <2> QED BY <2>5, <2>6
<1> QED BY <1>4, <1>5, <1>6, <1>7 DEF Next, GenStep, MainStep

\* Nothing was handed out at the start.
LEMMA InitLineInv == Init => LineInv
<1> SUFFICES ASSUME Init PROVE Line(<< >>) /\ Sent(<< >>)
  BY DEF LineInv
<1>1. visited = << >> /\ Taken = 0 /\ Claimed = 0 /\ Pending = 0
  BY DEF Init, QueueInit, Taken, Claimed, Pending
<1>2. Contents \in Seq(Elem) /\ Len(Contents) = 0
  BY InitInv, ContentsType DEF Init, QueueInit, Count, ContentsOK
<1>3. Line(<< >>)
  BY <1>1, <1>2 DEF Line
<1>4. wanted \ dir = {} /\ Found = 0 /\ IsFiniteSet(wanted \ dir)
  BY FS_EmptySet DEF Init, Found
<1>5. Sent(<< >>)
  BY <1>4 DEF Sent, Init
<1> QED BY <1>3, <1>5

\* The line is an invariant of the iteration.
LEMMA LineInvariant == Spec => [](IterInv /\ LineInv)
<1> QED BY InitIterInv, NextIterInv, InitLineInv, NextLineInv, PTL DEF Spec

-----------------------------------------------------------------------------
(***************************************************************************)
(* What the line is for.                                                   *)
(***************************************************************************)

\* At the end of the loop the main thread holds the NULL of the end of /proc, or
\* one that came first, in the place of a process that could not be inserted.
LEMMA LastHeld ==
  ASSUME IterInv, LineInv, mode # "pid", main \in {"join", "done"}
  PROVE  \E s : /\ Line(s) /\ Sent(s)
                /\ \/ /\ Len(visited) = Found /\ Len(s) = Found + 1 /\ dir = {}
                   \/ visited = << >> /\ InsertFailed
<1>1. PICK s : Line(s) /\ Sent(s)
  BY DEF LineInv
<1>2. Taken = 1 /\ Claimed \in {0, 1} /\ Pending \in {0, 1} /\ now = NULL
  BY DEF Taken, Claimed, Pending, IterInv, ControlInv
<1>3. /\ Len(visited) \in Nat /\ Len(Contents) \in Nat /\ Len(s) \in Nat
      /\ visited \in Seq(Pid) /\ NULL \notin Pid
  BY <1>1, RingSeq, ListFacts DEF IterInv, ListType, Line
<1>4. Len(visited) + 1 \in 1..Len(s) /\ s[Len(visited) + 1] = NULL
  BY <1>1, <1>2, <1>3 DEF Line
<1>5. Found \in Nat /\ (Len(s) = Found \/ Len(s) = Found + 1)
  BY <1>1, <1>3, FS_CardinalityType DEF Sent, Found
<1>6. CASE Len(visited) + 1 \in 1..Found
  <2>1. (\E p \in wanted \ dir : p \notin listed) /\ \A j \in 1..(Len(visited) + 1) : s[j] = NULL
    BY <1>1, <1>4, <1>6 DEF Sent
  <2>2. Len(visited) = 0
    <3> SUFFICES ASSUME Len(visited) # 0 PROVE FALSE
      OBVIOUS
    <3>1. 1 \in 1..Len(visited) /\ s[1] = NULL
      BY <1>3, <2>1
    <3>2. visited[1] \in Pid /\ s[1] = visited[1]
      BY <1>1, <1>3, <3>1 DEF Line
    <3> QED BY <1>3, <3>1, <3>2
  <2>3. visited = << >>
    BY <1>3, <2>2
  <2> QED BY <1>1, <2>1, <2>3 DEF InsertFailed
<1>7. CASE Len(visited) + 1 \notin 1..Found
  <2>1. Len(s) = Found + 1 /\ Len(visited) = Found
    BY <1>3, <1>4, <1>5, <1>7
  <2>2. dir = {}
    BY <1>1, <1>5, <2>1 DEF Sent
  <2> QED BY <1>1, <2>1, <2>2
<1> QED BY <1>6, <1>7

\* Every process that was inserted is visited, in an unbroken row of visits: one,
\* and one more for each failed insertion right behind it. If the first insertion
\* failed, the loop may end at once, without any. Whatever the size of the ring,
\* no process is lost between the two threads (generate_ulp_list_thread,
\* process_list_next).
THEOREM EveryProcessVisited == Spec => []AllVisited
<1>1. ASSUME IterInv, LineInv PROVE AllVisited
  <2> SUFFICES ASSUME main = "done", mode # "pid"
               PROVE  IF visited = << >> THEN wanted = {} \/ InsertFailed
                      ELSE /\ {visited[k] : k \in DOMAIN visited} = listed
                           /\ Len(visited) = Cardinality(wanted)
                           /\ \A j, k \in DOMAIN visited : \A i \in j .. k :
                                visited[j] = visited[k] => visited[i] = visited[j]
    BY DEF AllVisited
  <2>1. PICK s : /\ Line(s) /\ Sent(s)
                 /\ \/ /\ Len(visited) = Found /\ Len(s) = Found + 1 /\ dir = {}
                    \/ visited = << >> /\ InsertFailed
    BY <1>1, LastHeld
  <2>2. CASE visited = << >> /\ InsertFailed
    BY <2>2
  <2>3. CASE Len(visited) = Found /\ Len(s) = Found + 1 /\ dir = {}
    <3>1. wanted \ dir = wanted /\ Found = Cardinality(wanted) /\ IsFiniteSet(wanted)
      BY <2>1, <2>3 DEF Found, Sent
    <3>2. visited \in Seq(Pid) /\ DOMAIN visited = 1..Found /\ Len(visited) = Found
          /\ Len(visited) \in Nat
      BY <1>1, <2>3 DEF IterInv, ListType
    <3>3. \A k \in 1..Found : visited[k] = s[k] /\ s[k] # NULL
      <4> TAKE k \in 1..Found
      <4>1. visited[k] = s[k]
        BY <2>1, <2>3 DEF Line
      <4>2. visited[k] \in Pid
        BY <3>2
      <4> QED BY <4>1, <4>2, ListFacts
    <3>4. CASE visited = << >>
      <4>1. Cardinality(wanted) = 0
        BY <3>1, <3>2, <3>4
      <4>2. wanted = {}
        BY <3>1, <4>1, FS_EmptySet
      <4> QED BY <3>4, <4>2
    <3>5. CASE visited # << >>
      <4>1. {visited[k] : k \in DOMAIN visited} = {s[k] : k \in 1..Found} \ {NULL}
        BY <3>2, <3>3
      <4>2. {visited[k] : k \in DOMAIN visited} = listed
        BY <2>1, <4>1 DEF Sent
      <4>3. \A j, k \in 1..Found : \A i \in j..k : i \in 1..Found
        BY <3>2
      <4>4. \A j, k \in DOMAIN visited : \A i \in j..k :
              visited[j] = visited[k] => visited[i] = visited[j]
        <5>1. \A j, k \in 1..Found : \A i \in j..k : s[j] = s[k] => s[i] = s[j]
          BY <2>1 DEF Sent
        <5> QED BY <3>2, <3>3, <4>3, <5>1
      <4> QED BY <3>1, <3>2, <3>5, <4>2, <4>4
    <3> QED BY <3>4, <3>5
  <2> QED BY <2>1, <2>2, <2>3
<1> QED BY <1>1, LineInvariant, PTL

\* Nothing is freed under the generator thread: when process_list_end frees the
\* list the thread is past its last insertion, unless one failed, and when it
\* deletes the queue both threads are out of it.
THEOREM NothingFreedInUse == Spec => []ReleasedUnused
<1>1. ASSUME IterInv, LineInv PROVE ReleasedUnused
  <2>1. ASSUME main \in {"join", "done"}, ~InsertFailed
        PROVE  gen \in {"off", "finish", "done"}
    <3>1. CASE mode = "thread"
      <4>1. PICK s : Sent(s) /\ Len(s) = Found + 1
        BY <1>1, <2>1, <3>1, LastHeld
      <4> QED BY <3>1, <4>1 DEF Sent
    <3>2. CASE mode # "thread"
      BY <1>1, <2>1, <3>2 DEF IterInv, ListType, ControlInv
    <3> QED BY <3>1, <3>2
  <2>2. ASSUME main = "done" PROVE put = "out" /\ get = "out" /\ gen \in {"off", "done"}
    BY <1>1, <2>2 DEF IterInv, ListType, ControlInv
  <2> QED BY <2>1, <2>2 DEF ReleasedUnused
<1> QED BY <1>1, LineInvariant, PTL

-----------------------------------------------------------------------------
(***************************************************************************)
(* Failures are reported.                                                  *)
(***************************************************************************)

\* The report says FAILED whatever else happened in the process, in its short
\* and in its long form.
LEMMA FailurePrinted ==
  ASSUME NEW rs, rs["EUNKNOWN"] > 0, NEW short \in BOOLEAN
  PROVE  "FAILED" \in print_patched_unpatched(rs, short)
<1> DEFINE tried      == {e \in ulp_error_t : rs[e] > 0}
           important  == tried \ Minor
           single     == important # {} /\ \A e \in important :
                            important = {e} /\ rs[e] = 1
           verdict(e) == CASE e = "ENONE" -> "SUCCESS"
                           [] e \in Minor -> "SKIPPED"
                           [] OTHER -> "FAILED"
<1>1. "EUNKNOWN" \in important /\ "EUNKNOWN" \in tried
  BY DEF ulp_error_t, Minor
<1>2. verdict("EUNKNOWN") = "FAILED"
  BY DEF Minor
<1>3. CASE short /\ single
  <2>1. print_patched_unpatched(rs, short) =
          {IF e = "EAPPLIED" THEN "SKIPPED" ELSE verdict(e) : e \in important}
    BY <1>1, <1>3 DEF print_patched_unpatched
  <2> HIDE DEF important, verdict
  <2> QED BY <1>1, <1>2, <2>1
<1>4. CASE ~(short /\ single)
  <2>1. print_patched_unpatched(rs, short) =
          {verdict(e) : e \in IF short /\ important # {} THEN important ELSE tried}
    BY <1>1, <1>4 DEF print_patched_unpatched
  <2> HIDE DEF important, verdict, tried
  <2> QED BY <1>1, <1>2, <2>1
<1> QED BY <1>3, <1>4

\* The failed processes were visited, and the results of the last one are kept.
ReportInv ==
  /\ results \in [ulp_error_t -> Nat]
  /\ \A p \in failed : \E k \in 1..Len(visited) : visited[k] = p
  /\ visited # << >> /\ visited[Len(visited)] \in failed => results["EUNKNOWN"] > 0
  /\ mode = "pid" /\ main \in {"end", "body"} /\ now # NULL => visited = << >>

\* A process that was visited before was visited just before.
LEMMA AgainInRow ==
  ASSUME IterInv, LineInv, ReportInv, main = "body",
         NEW k \in 1..Len(visited), visited[k] = now
  PROVE  visited[Len(visited)] = now
<1>1. visited \in Seq(Pid) /\ Len(visited) \in Nat /\ now # NULL /\ visited # << >>
  BY DEF IterInv, ListType, ControlInv
<1>2. mode # "pid"
  BY <1>1 DEF ReportInv
<1>3. PICK s : Line(s) /\ Sent(s)
  BY <1>2 DEF LineInv
<1> DEFINE n == Len(visited)
<1>4. Taken = 1 /\ Claimed \in {0, 1} /\ Pending \in {0, 1} /\ Len(Contents) \in Nat
  BY RingSeq DEF Taken, Claimed, Pending, IterInv
<1>5. Len(s) \in Nat /\ n + 1 <= Len(s) /\ s[n + 1] = now
  BY <1>1, <1>3, <1>4 DEF Line
<1>6. Found \in Nat /\ n + 1 <= Found
  <2>1. Found \in Nat
    BY <1>3, FS_CardinalityType DEF Sent, Found
  <2>2. Len(s) = Found \/ (Len(s) = Found + 1 /\ s[Found + 1] = NULL)
    BY <1>3 DEF Sent
  <2> HIDE DEF Found
  <2> QED BY <1>1, <1>5, <2>1, <2>2
<1>7. k \in 1..Found /\ n + 1 \in 1..Found /\ n \in k..(n + 1) /\ n \in 1..n
  <2> HIDE DEF Found
  <2> QED BY <1>1, <1>6
<1>8. s[k] = visited[k] /\ s[n] = visited[n]
  BY <1>3, <1>7 DEF Line
<1>9. s[k] = s[n + 1] => s[n] = s[k]
  BY <1>3, <1>7 DEF Sent
<1> QED BY <1>5, <1>8, <1>9

\* What the body of the loop does to the results.
LEMMA BodyResults ==
  ASSUME ReportInv, TriggerProcess
  PROVE  LET again == visited # << >> /\ visited[Len(visited)] = now
         IN  /\ results' \in [ulp_error_t -> Nat]
             /\ again /\ results["EUNKNOWN"] > 0 => results'["EUNKNOWN"] > 0
             /\ \/ failed' = failed
                \/ failed' = failed \cup {now} /\ results'["EUNKNOWN"] > 0
<1> DEFINE again == visited # << >> /\ visited[Len(visited)] = now
           old(e) == IF again THEN results[e] ELSE 0
<1>1. PICK files \in SUBSET File : \E top \in SUBSET files :
        \E out \in [files -> ulp_error_t] :
          LET bad == {f \in files : trigger_many_ulps({out[f]}) = {"ERROR"}}
          IN  /\ results' = [e \in ulp_error_t |->
                    LET n == old(e) + Cardinality({f \in files : out[f] = e})
                    IN  IF n > 2 THEN 2 ELSE n]
              /\ failed' = IF bad = {} THEN failed ELSE failed \cup {now}
  BY ZenonT(40) DEF TriggerProcess
<1>2. PICK out \in [files -> ulp_error_t] :
        /\ results' = [e \in ulp_error_t |->
              LET n == old(e) + Cardinality({f \in files : out[f] = e})
              IN  IF n > 2 THEN 2 ELSE n]
        /\ failed' = IF {f \in files : trigger_many_ulps({out[f]}) = {"ERROR"}} = {}
                       THEN failed ELSE failed \cup {now}
  BY <1>1
<1>3. IsFiniteSet(files)
  BY ListFacts, FS_Subset
<1> DEFINE c(e) == Cardinality({f \in files : out[f] = e})
<1>4. \A e : c(e) \in Nat /\ (c(e) = 0 => {f \in files : out[f] = e} = {})
  <2> SUFFICES ASSUME NEW e
               PROVE  c(e) \in Nat /\ (c(e) = 0 => {f \in files : out[f] = e} = {})
    OBVIOUS
  <2>1. IsFiniteSet({f \in files : out[f] = e})
    BY <1>3, FS_Subset
  <2> QED BY <2>1, FS_CardinalityType, FS_EmptySet
<1>5. \A e \in ulp_error_t : old(e) \in Nat
  BY DEF ReportInv
<1>6. results' = [e \in ulp_error_t |-> IF old(e) + c(e) > 2 THEN 2 ELSE old(e) + c(e)]
  BY <1>2
<1>7. again => old("EUNKNOWN") = results["EUNKNOWN"]
  OBVIOUS
<1> HIDE DEF c, old
<1>8. \A e \in ulp_error_t : /\ results'[e] \in Nat
                             /\ old(e) > 0 \/ c(e) > 0 => results'[e] > 0
  <2> SUFFICES ASSUME NEW e \in ulp_error_t
               PROVE  results'[e] \in Nat /\ (old(e) > 0 \/ c(e) > 0 => results'[e] > 0)
    OBVIOUS
  <2>1. results'[e] = IF old(e) + c(e) > 2 THEN 2 ELSE old(e) + c(e)
    BY <1>6
  <2> QED BY <1>4, <1>5, <2>1
<1>9. results' \in [ulp_error_t -> Nat]
  <2> DEFINE x(e) == IF old(e) + c(e) > 2 THEN 2 ELSE old(e) + c(e)
  <2>1. \A e \in ulp_error_t : x(e) \in Nat
    BY <1>4, <1>5
  <2>2. results' = [e \in ulp_error_t |-> x(e)]
    BY <1>6
  <2> HIDE DEF x
  <2> QED BY <2>1, <2>2
<1>10. "EUNKNOWN" \in ulp_error_t
  BY DEF ulp_error_t
<1>11. ASSUME failed' # failed
       PROVE  failed' = failed \cup {now} /\ c("EUNKNOWN") > 0
  <2>1. PICK f \in files : trigger_many_ulps({out[f]}) = {"ERROR"}
    BY <1>2, <1>11
  <2>2. "ERROR" \in trigger_many_ulps({out[f]})
    BY <2>1
  <2>3. out[f] = "EUNKNOWN"
    <3>1. out[f] \in ulp_error_t
      OBVIOUS
    <3>2. out[f] # "ENONE" /\ ~skippable_error(out[f])
      BY <2>2 DEF trigger_many_ulps
    <3> QED BY <3>1, <3>2 DEF ulp_error_t, skippable_error
  <2>4. c("EUNKNOWN") # 0
    BY <1>4, <2>3
  <2>5. c("EUNKNOWN") > 0
    BY <1>4, <2>4
  <2> QED BY <1>2, <1>11, <2>5
<1> QED BY <1>7, <1>8, <1>9, <1>10, <1>11

\* Every step keeps the results of the process that was visited last.
LEMMA NextReportInv ==
  ASSUME IterInv, LineInv, ReportInv, [Next]_vars
  PROVE  ReportInv'
<1>1. CASE TriggerProcess
  <2>1. /\ main = "body" /\ main' = "next" /\ visited' = Append(visited, now)
        /\ visited \in Seq(Pid) /\ now \in Pid
    BY <1>1, TriggerFrame, ListFacts DEF IterInv, ListType, ControlInv
  <2>2. /\ Len(visited) \in Nat /\ Len(visited') = Len(visited) + 1
        /\ visited'[Len(visited')] = now
        /\ \A k \in 1..Len(visited) : k \in 1..Len(visited') /\ visited'[k] = visited[k]
    BY <2>1
  <2>3. Len(visited') \in 1..Len(visited')
    BY <2>2
  <2>4. failed' \subseteq failed \cup {now}
    BY <1>1, BodyResults
  <2>5. \A p \in failed' : \E k \in 1..Len(visited') : visited'[k] = p
    <3> SUFFICES ASSUME NEW p \in failed' PROVE \E k \in 1..Len(visited') : visited'[k] = p
      OBVIOUS
    <3>1. CASE p = now
      BY <2>2, <2>3, <3>1
    <3>2. CASE p \in failed
      BY <2>2, <3>2 DEF ReportInv
    <3> QED BY <2>4, <3>1, <3>2
  <2>6. now \in failed' => results'["EUNKNOWN"] > 0
    <3>1. CASE now \in failed
      <4>1. PICK k \in 1..Len(visited) : visited[k] = now
        BY <3>1 DEF ReportInv
      <4>2. visited[Len(visited)] = now
        BY <2>1, <4>1, AgainInRow
      <4>3. visited # << >>
        BY <2>1, <4>1
      <4>4. results["EUNKNOWN"] > 0
        BY <3>1, <4>2, <4>3 DEF ReportInv
      <4> QED BY <1>1, <4>2, <4>3, <4>4, BodyResults
    <3>2. CASE now \notin failed
      BY <1>1, <3>2, BodyResults
    <3> QED BY <3>1, <3>2
  <2>7. results' \in [ulp_error_t -> Nat]
    BY <1>1, BodyResults
  <2> QED BY <2>1, <2>2, <2>5, <2>6, <2>7 DEF ReportInv
<1>2. CASE ~TriggerProcess
  <2>1. UNCHANGED <<results, visited, failed, mode>>
    BY <1>2 DEF Next, GenStep, MainStep, Generate, GenerateEnd, Enqueue, process_list_begin,
       process_list_next, process_list_end, Finished, vars, batchVars, listVars
  <2>2. mode = "pid" /\ main' \in {"end", "body"} /\ now' # NULL => visited = << >>
    BY <1>2 DEF ReportInv, IterInv, ControlInv, ListType, Next, GenStep, MainStep, Generate,
       GenerateEnd, Enqueue, process_list_begin, process_list_next, process_list_end, Finished,
       vars, batchVars, listVars
  <2> QED BY <2>1, <2>2 DEF ReportInv
<1> QED BY <1>1, <1>2

\* A process in which some live patch failed is reported as FAILED, for any number
\* of processes, live patches and folders, and also if it comes several times
\* because a process behind it could not be inserted (trigger_many_processes,
\* print_patched_unpatched).
THEOREM FailuresReported == Spec => []FailureReported
<1>1. Init => ReportInv
  BY DEF Init, ReportInv, NoResults, ulp_error_t
<1>2. ReportInv => FailureReported
  BY FailurePrinted DEF ReportInv, FailureReported
<1>3. IterInv /\ LineInv /\ ReportInv /\ [Next]_vars => ReportInv'
  BY NextReportInv
<1> QED BY <1>1, <1>2, <1>3, LineInvariant, PTL DEF Spec

=============================================================================
