------------------------------ MODULE MsgQueue ------------------------------
(***************************************************************************)
(* The message queue of lib/msg_queue.c, in which libpulp keeps the newest *)
(* of its messages for ulp messages to print: a circular buffer of zero    *)
(* terminated strings. A message lies in one piece; when it does not fit   *)
(* in front of the end of the buffer the rest is filled with zeros and it  *)
(* goes to the beginning, and the oldest messages make room for it.        *)
(*                                                                         *)
(* A byte is 0 or tells its message and its place in it. A push is cut     *)
(* into the turns of its loop; the reader attaches to the process between  *)
(* pushes.                                                                 *)
(***************************************************************************)
EXTENDS Integers, Sequences

CONSTANTS
  BUFFER_MAX,    \* MSGQ_BUFFER_MAX
  Texts,  \* numbers of messages
  Sizes   \* sizes of messages, the terminating zero included

ASSUME MsgQueueAssumption ==
  /\ BUFFER_MAX \in Nat \ {0}
  /\ Texts \subseteq Nat \ {0}
  /\ Sizes \subseteq Nat \ {0}

VARIABLES
  buffer, top, bottom, distance,  \* __ulp_msg_queue
  pc,                             \* "idle", or "push" in the loop
  msg,                            \* the message being pushed
  t, b, d,                        \* local copies of top, bottom, distance
  log                             \* what was pushed, newest last

queueVars == <<top, bottom, distance>>
vars == <<buffer, queueVars, pc, msg, t, b, d, log>>

Message == [text : Texts, size : Sizes]

Char(m, k) == m.text * BUFFER_MAX + k

Init ==
  /\ buffer = [x \in 0..(BUFFER_MAX - 1) |-> 0]
  /\ top = 0 /\ bottom = 0 /\ distance = 0
  /\ pc = "idle" /\ msg \in Message
  /\ t = 0 /\ b = 0 /\ d = 0
  /\ log = <<>>

-----------------------------------------------------------------------------

\* The message does not fit in front of the end of the buffer.
Wraps(size) == top + size >= BUFFER_MAX

\* Mutant of Rejected: an empty message is queued.
Rejected_large(size) == size > BUFFER_MAX

\* An empty message, or one that is too large.
Rejected(size) == size = 1 \/ size > BUFFER_MAX

\* msgq_strpush up to its loop.
msgq_strpush(m) ==
  /\ pc = "idle" /\ ~Rejected(m.size)
  /\ pc' = "push" /\ msg' = m
  /\ b' = bottom
  /\ IF Wraps(m.size)
       THEN /\ buffer' = [x \in DOMAIN buffer |->
                            IF x >= top THEN 0 ELSE buffer[x]]
            /\ d' = distance + BUFFER_MAX - top
            /\ t' = 0
       ELSE d' = distance /\ t' = top /\ UNCHANGED buffer
  /\ UNCHANGED <<queueVars, log>>

\* Mutant of Full: the message may fill the buffer.
Full_late == d + msg.size > BUFFER_MAX + 1

\* The loop goes on; the sum is one of unsigned numbers.
Full == d + msg.size >= BUFFER_MAX \/ d + msg.size < 0

Strlen(x) ==
  CHOOSE k \in 0..(BUFFER_MAX - x) :
    /\ x + k = BUFFER_MAX \/ buffer[x + k] = 0
    /\ \A m \in 0..(k - 1) : buffer[x + m] # 0

\* How many zeros follow position x; the loop that skips them does not end if
\* there is nothing else in the buffer.
Zeros(x) ==
  IF \A y \in DOMAIN buffer : buffer[y] = 0 THEN -1
  ELSE CHOOSE k \in 0..(BUFFER_MAX - 1) :
         /\ buffer[(x + k) % BUFFER_MAX] # 0
         /\ \A m \in 0..(k - 1) : buffer[(x + m) % BUFFER_MAX] = 0

\* Mutant of Evict: the zeros skipped are not accounted for.
Evict_uncounted ==
  /\ pc = "push" /\ Full
  /\ LET travel == Strlen(b) + 1
         start  == (b + travel) % BUFFER_MAX
         zeros  == Zeros(start)
     IN IF zeros = -1 THEN UNCHANGED <<b, d>>
        ELSE b' = (start + zeros) % BUFFER_MAX /\ d' = d - travel
  /\ UNCHANGED <<buffer, queueVars, pc, msg, t, log>>

\* One turn of the loop: the oldest message goes, with the zeros behind it.
Evict ==
  /\ pc = "push" /\ Full
  /\ LET travel == Strlen(b) + 1
         start  == (b + travel) % BUFFER_MAX
         zeros  == Zeros(start)
     IN IF zeros = -1 THEN UNCHANGED <<b, d>>
        ELSE b' = (start + zeros) % BUFFER_MAX /\ d' = d - travel - zeros
  /\ UNCHANGED <<buffer, queueVars, pc, msg, t, log>>

\* Bound: as much of the log as can fit in the buffer.
Recent(l) ==
  LET bound == BUFFER_MAX \div 2
  IN IF Len(l) > bound THEN SubSeq(l, Len(l) - bound + 1, Len(l)) ELSE l

Commit ==
  /\ pc = "push" /\ ~Full
  /\ buffer' = [x \in DOMAIN buffer |->
                  CASE x \in t..(t + msg.size - 2) -> Char(msg, x - t + 1)
                    [] x = t + msg.size - 1        -> 0
                    [] OTHER                       -> buffer[x]]
  /\ distance' = d + msg.size
  /\ top' = (t + msg.size) % BUFFER_MAX
  /\ bottom' = b
  /\ log' = Recent(Append(log, msg))
  /\ pc' = "idle" /\ t' = 0 /\ b' = 0 /\ d' = 0
  /\ UNCHANGED msg

\* msgq_push and msgq_vpush; ulp_warn and ulp_debug push the time and then the
\* text.
Push == \E m \in Message : msgq_strpush(m)

Next == Push \/ Evict \/ Commit

Fairness == WF_vars(Evict) /\ WF_vars(Commit)

Spec == Init /\ [][Next]_vars /\ Fairness

-----------------------------------------------------------------------------

\* msgq_print of tools/messages.c: the bytes it writes to the terminal, zeros
\* included.
msgq_print == [k \in 1..distance |-> buffer[(bottom + k - 1) % BUFFER_MAX]]

\* The bytes show the messages of a sequence, each in one piece and before the
\* next one, and nothing else but zeros; message i begins at at[i].
Shows(bytes, messages) ==
  \E at \in [DOMAIN messages -> DOMAIN bytes] :
    /\ \A i \in DOMAIN messages :
         /\ at[i] + messages[i].size - 1 <= Len(bytes)
         /\ \A k \in 1..(messages[i].size - 1) : bytes[at[i] + k - 1] = Char(messages[i], k)
    /\ \A i, j \in DOMAIN messages : i < j => at[i] + messages[i].size <= at[j]
    /\ \A x \in DOMAIN bytes : bytes[x] # 0 =>
         \E i \in DOMAIN messages : x \in at[i]..(at[i] + messages[i].size - 2)

\* Byte i of message m, the terminating zero included.
ByteOf(m, i) == IF i = m.size THEN 0 ELSE Char(m, i)

\* The bytes begin with the last c bytes of message m and then show the others.
ShowsEnd(bytes, m, c, messages) ==
  /\ \A i \in 1..c : bytes[i] = ByteOf(m, m.size - c + i)
  /\ Shows(SubSeq(bytes, c + 1, Len(bytes)), messages)

\* Between pushes, ulp messages prints whole messages, in the order in which
\* they were pushed, without a gap and up to the newest one: wrapping around
\* and making room never leaves half of a message or skips one (msg_queue.h:
\* bottom points to "the oldest message still in buffer"). There is one
\* exception, which the header does not have: a message of exactly BUFFER_MAX
\* bytes passes the test of msgq_strpush, the loop that makes room for it goes
\* on until the unsigned sum is small again, and bottom is then inside the new
\* message, so that any part of its beginning, or all of it, is not printed.
PrintsNewest ==
  pc = "idle" /\ log # <<>> =>
    \E k \in DOMAIN log :
      \/ Shows(msgq_print, SubSeq(log, k, Len(log)))
      \/ /\ log[k].size = BUFFER_MAX
         /\ \E c \in 0..distance :
              ShowsEnd(msgq_print, log[k], c, SubSeq(log, k + 1, Len(log)))

\* Nothing is read or written outside the buffer, although it wraps around and
\* a message of exactly BUFFER_MAX bytes makes the distance negative: strlen
\* finds its zero in it, and top, bottom and distance agree on what is in use,
\* which is never all of it, as the numbers could not tell that from empty
\* (msg_queue.h: distance "should not be greater than MSGQ_BUFFER_MAX").
StaysInBuffer ==
  /\ pc = "push" /\ Full => b + Strlen(b) < BUFFER_MAX
  /\ pc = "idle" =>
       /\ top < BUFFER_MAX /\ distance \in 0..(BUFFER_MAX - 1)
       /\ (bottom + distance) % BUFFER_MAX = top

\* Every push ends, with one exception: a message of exactly BUFFER_MAX bytes
\* that is pushed while top is at the beginning of the buffer (as it is at first,
\* and after another such message) has the whole buffer cleared, and the loop
\* that skips zeros finds nothing else.
PushEnds ==
  (pc = "push" /\ (msg.size < BUFFER_MAX \/ top # 0)) ~> (pc = "idle")

=============================================================================
