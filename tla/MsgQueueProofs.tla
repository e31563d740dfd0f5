--------------------------- MODULE MsgQueueProofs ---------------------------
(***************************************************************************)
(* The message queue stays inside its buffer, for every size of the buffer *)
(* and every set of messages, and keeps whole messages, the newest ones,   *)
(* if none of them has exactly the size of the buffer.                     *)
(***************************************************************************)
EXTENDS MsgQueue, NaturalsInduction, WellFoundedInduction, TLAPS

\* What msgq_strpush does not turn away: at least one byte and the zero.
Pushed == {m \in Message : m.size >= 2}

\* What holds of bottom, distance and top, and in the loop of the local copies:
\* from b0 it is d0 bytes to t0, around the buffer at most twice. The first byte
\* of the buffer is 0 only as long as nothing was pushed.
Frame(b0, d0, t0) ==
  /\ b0 \in 0..(BUFFER_MAX - 1) /\ t0 \in 0..(BUFFER_MAX - 1) /\ d0 \in Nat
  /\ b0 + d0 \in {t0, t0 + BUFFER_MAX, t0 + BUFFER_MAX + BUFFER_MAX}
  /\ buffer[0] = 0 => d0 = 0 /\ t0 = 0

\* What holds in the loop for a message of exactly the size of the buffer, which
\* goes to the beginning: the distance may fall below zero, but not further than
\* by one buffer.
Wide ==
  /\ b \in 0..(BUFFER_MAX - 1) /\ t = 0
  /\ d \in Int /\ d + BUFFER_MAX >= 0
  /\ b + d \in {0 - BUFFER_MAX, 0, BUFFER_MAX, BUFFER_MAX + BUFFER_MAX}
  /\ buffer[0] = 0 => \A x \in 0..(BUFFER_MAX - 1) : buffer[x] = 0

\* The numbers agree, and the last byte of the buffer is never used: strlen
\* stops there.
RingInv ==
  /\ buffer \in [0..(BUFFER_MAX - 1) -> Nat] /\ buffer[BUFFER_MAX - 1] = 0
  /\ pc \in {"idle", "push"} /\ msg \in Message
  /\ log \in Seq(Pushed) /\ Len(log) <= BUFFER_MAX \div 2
  /\ pc = "idle" => Frame(bottom, distance, top) /\ distance < BUFFER_MAX
  /\ pc = "push" =>
       /\ msg.size >= 2
       /\ \/ Frame(b, d, t) /\ t + msg.size < BUFFER_MAX
          \/ Wide /\ msg.size = BUFFER_MAX

-----------------------------------------------------------------------------
(***************************************************************************)
(* Facts about the operators.                                              *)
(***************************************************************************)

\* What the assumption on the constants says.
LEMMA QueueFacts ==
  /\ BUFFER_MAX \in Nat /\ BUFFER_MAX > 0
  /\ \A s \in Sizes : s \in Nat /\ s > 0
  /\ \A x \in Texts : x \in Nat /\ x > 0
BY MsgQueueAssumption

\* The bytes that the messages between two messages take at least.
LEMMA GapIsNat ==
  ASSUME NEW i \in Nat, NEW j \in Nat, i < j
  PROVE  2 * (j - i - 1) \in Nat
OBVIOUS

\* Quotients and remainders are unique.
LEMMA Remainder ==
  ASSUME NEW n \in Nat, n > 0, NEW q \in Int, NEW p \in Int,
         NEW r \in 0..(n - 1), NEW s \in 0..(n - 1), n * q + r = n * p + s
  PROVE  r = s
<1>1. ASSUME q < p PROVE FALSE
  <2>1. n * (q + 1) <= n * p
    BY <1>1
  <2>2. n * (q + 1) = n * q + n
    OBVIOUS
  <2> QED BY <2>1, <2>2
<1>2. ASSUME p < q PROVE FALSE
  <2>1. n * (p + 1) <= n * q
    BY <1>2
  <2>2. n * (p + 1) = n * p + n
    OBVIOUS
  <2> QED BY <2>1, <2>2
<1> QED BY <1>1, <1>2

\* Positions are counted around the buffer.
LEMMA Around ==
  ASSUME NEW x \in Nat
  PROVE  /\ x % BUFFER_MAX \in 0..(BUFFER_MAX - 1)
         /\ x < BUFFER_MAX => x % BUFFER_MAX = x
         /\ (x + BUFFER_MAX) % BUFFER_MAX = x % BUFFER_MAX
<1> DEFINE n == BUFFER_MAX
<1>1. n \in Nat /\ n > 0 /\ x + n \in Nat
  BY QueueFacts
<1> HIDE DEF n
<1>2. x % n \in 0..(n - 1) /\ (x + n) % n \in 0..(n - 1)
  BY <1>1
<1>3. x < n => x % n = x
  BY <1>1
<1>4. (x + n) % n = x % n
  <2> DEFINE q == x \div n
             p == (x + n) \div n
             r == x % n
             s == (x + n) % n
  <2>1. q \in Int /\ x = n * q + r
    BY <1>1
  <2>2. p \in Int /\ x + n = n * p + s
    BY <1>1
  <2>3. r \in 0..(n - 1) /\ s \in 0..(n - 1)
    BY <1>2
  <2> HIDE DEF q, p, r, s
  <2>4. n * (q + 1) = n * q + n /\ n * q \in Int /\ r \in Int
    BY <1>1, <2>1, <2>3
  <2>5. n * (q + 1) + r = n * p + s /\ q + 1 \in Int
    BY <1>1, <2>1, <2>2, <2>4
  <2>6. r = s
    BY <1>1, <2>2, <2>3, <2>5, Remainder
  <2> QED BY <2>6 DEF r, s
<1> QED BY <1>2, <1>3, <1>4 DEF n

\* A byte of a message is a number other than 0.
LEMMA CharType ==
  ASSUME NEW m \in Message, NEW k \in Nat, k > 0
  PROVE  Char(m, k) \in Nat /\ Char(m, k) # 0
<1>1. m.text \in Nat /\ BUFFER_MAX \in Nat
  BY QueueFacts DEF Message
<1>2. m.text * BUFFER_MAX \in Nat
  BY <1>1
<1> QED BY <1>2 DEF Char

\* A set of numbers that is not empty has a least element.
LEMMA LeastOf ==
  ASSUME NEW S, S \subseteq Nat, S # {}
  PROVE  \E x \in S : \A y \in S : x <= y
<1> DEFINE R == OpToRel(<, Nat)
<1>1. IsWellFoundedOn(R, Nat)
  BY NatLessThanWellFounded
<1>2. \A x, y \in Nat : x < y => <<x, y>> \in R
  BY DEF OpToRel
<1> HIDE DEF R
<1>3. PICK x \in S : \A y \in S : ~(<<y, x>> \in R)
  BY <1>1, WFMin
<1>4. ASSUME NEW y \in S PROVE x <= y
  <2>1. x \in Nat /\ y \in Nat
    OBVIOUS
  <2>2. ~(y < x)
    BY <1>2, <1>3, <2>1
  <2> QED BY <2>1, <2>2
<1> QED BY <1>4

\* strlen finds a zero in the buffer, as the last byte is one.
LEMMA StrlenIs ==
  ASSUME RingInv, NEW x \in 0..(BUFFER_MAX - 1)
  PROVE  /\ Strlen(x) \in Nat /\ x + Strlen(x) < BUFFER_MAX
         /\ buffer[x + Strlen(x)] = 0
         /\ \A m \in 0..(Strlen(x) - 1) : buffer[x + m] # 0
<1> DEFINE Z == {k \in Nat : x + k < BUFFER_MAX /\ buffer[x + k] = 0}
<1>1. BUFFER_MAX - 1 - x \in Z
  BY QueueFacts DEF RingInv
<1>2. PICK k \in Z : \A y \in Z : k <= y
  <2>1. Z \subseteq Nat /\ Z # {}
    BY <1>1
  <2> HIDE DEF Z
  <2> QED BY <2>1, LeastOf
<1>3. \A m \in 0..(k - 1) : buffer[x + m] # 0
  BY <1>2, QueueFacts
<1>4. /\ k \in 0..(BUFFER_MAX - x)
      /\ x + k = BUFFER_MAX \/ buffer[x + k] = 0
      /\ \A m \in 0..(k - 1) : buffer[x + m] # 0
  BY <1>2, <1>3, QueueFacts
<1>5. /\ Strlen(x) \in 0..(BUFFER_MAX - x)
      /\ x + Strlen(x) = BUFFER_MAX \/ buffer[x + Strlen(x)] = 0
      /\ \A m \in 0..(Strlen(x) - 1) : buffer[x + m] # 0
  BY <1>4 DEF Strlen
<1>6. x + Strlen(x) # BUFFER_MAX
  <2> SUFFICES ASSUME x + Strlen(x) = BUFFER_MAX PROVE FALSE
    OBVIOUS
  <2>1. BUFFER_MAX - 1 - x \in 0..(Strlen(x) - 1) /\ x + (BUFFER_MAX - 1 - x) = BUFFER_MAX - 1
    BY <1>5, QueueFacts
  <2> QED BY <1>5, <2>1 DEF RingInv
<1> QED BY <1>5, <1>6, QueueFacts

\* Once something was pushed, the zeros end at the beginning of the buffer at the
\* latest.
LEMMA ZerosIs ==
  ASSUME RingInv, buffer[0] # 0, NEW x \in 0..(BUFFER_MAX - 1)
  PROVE  /\ Zeros(x) \in Nat /\ x + Zeros(x) <= BUFFER_MAX
         /\ x = 0 => Zeros(x) = 0
         /\ buffer[(x + Zeros(x)) % BUFFER_MAX] # 0
         /\ \A m \in 0..(Zeros(x) - 1) : buffer[x + m] = 0
<1> DEFINE F(k) == buffer[(x + k) % BUFFER_MAX]
           Z == {k \in Nat : F(k) # 0}
           e == IF x = 0 THEN 0 ELSE BUFFER_MAX - x
<1>1. e \in Z /\ e \in 0..(BUFFER_MAX - 1)
  <2>1. (x + e) % BUFFER_MAX = 0
    <3>1. x = 0 => (x + e) % BUFFER_MAX = 0
      BY Around, QueueFacts
    <3>2. (0 + BUFFER_MAX) % BUFFER_MAX = 0
      BY Around, QueueFacts
    <3> QED BY <3>1, <3>2, QueueFacts
  <2>2. e \in 0..(BUFFER_MAX - 1)
    BY QueueFacts
  <2> QED BY <2>1, <2>2
<1>2. PICK k \in Z : \A y \in Z : k <= y
  <2>1. Z \subseteq Nat /\ Z # {}
    BY <1>1
  <2> HIDE DEF Z
  <2> QED BY <2>1, LeastOf
<1>3. k \in 0..(BUFFER_MAX - 1) /\ F(k) # 0 /\ \A m \in 0..(k - 1) : F(m) = 0
  <2>1. k \in Nat /\ k <= e /\ F(k) # 0
    BY <1>1, <1>2
  <2>2. \A m \in 0..(k - 1) : F(m) = 0
    BY <1>2, <2>1
  <2> QED BY <1>1, <2>1, <2>2, QueueFacts
<1>4. ~(\A y \in DOMAIN buffer : buffer[y] = 0)
  BY QueueFacts DEF RingInv
<1>5. /\ Zeros(x) \in 0..(BUFFER_MAX - 1) /\ F(Zeros(x)) # 0
      /\ \A m \in 0..(Zeros(x) - 1) : F(m) = 0
  BY <1>3, <1>4 DEF Zeros
<1>6. Zeros(x) <= e
  <2> SUFFICES ASSUME e < Zeros(x) PROVE FALSE
    BY <1>1, <1>5, QueueFacts
  <2>1. e \in 0..(Zeros(x) - 1)
    BY <1>1, <1>5, QueueFacts
  <2> QED BY <1>1, <1>5, <2>1
<1>7. ASSUME NEW m \in 0..(Zeros(x) - 1) PROVE buffer[x + m] = 0
  <2>1. x + m \in Nat /\ x + m < BUFFER_MAX
    BY <1>1, <1>5, <1>6, QueueFacts
  <2> QED BY <1>5, <2>1, Around
<1> QED BY <1>1, <1>5, <1>6, <1>7, QueueFacts

-----------------------------------------------------------------------------
(***************************************************************************)
(* The numbers of the queue.                                               *)
(***************************************************************************)

\* When there is no room, something is in the buffer, and the way from bottom to
\* top leads across the end of the buffer.
LEMMA FullMeans ==
  ASSUME RingInv, pc = "push", Full, msg.size # BUFFER_MAX
  PROVE  d > t /\ buffer[0] # 0 /\ b + d >= t + BUFFER_MAX
<1>1. /\ b \in 0..(BUFFER_MAX - 1) /\ t \in 0..(BUFFER_MAX - 1) /\ d \in Nat
      /\ b + d \in {t, t + BUFFER_MAX, t + BUFFER_MAX + BUFFER_MAX}
      /\ buffer[0] = 0 => d = 0 /\ t = 0
      /\ msg.size \in Nat /\ t + msg.size < BUFFER_MAX
  BY QueueFacts DEF RingInv, Frame, Message
<1>2. d + msg.size >= BUFFER_MAX
  BY <1>1 DEF Full
<1> QED BY <1>1, <1>2, QueueFacts

\* A turn of the loop takes e bytes away: what is left of the oldest message with
\* its zero, and zeros up to the next message; it never goes beyond the end of
\* the buffer.
LEMMA EvictEffect ==
  ASSUME RingInv, Evict, buffer[0] # 0
  PROVE  \E e \in Nat :
           /\ Strlen(b) < e /\ b + e <= BUFFER_MAX
           /\ d' = d - e /\ b' = IF b + e = BUFFER_MAX THEN 0 ELSE b + e
           /\ b' = (b + e) % BUFFER_MAX /\ buffer[b'] # 0
           /\ \A m \in Strlen(b)..(e - 1) : buffer[b + m] = 0
<1>1. pc = "push" /\ Full
  BY DEF Evict
<1>2. b \in 0..(BUFFER_MAX - 1) /\ d \in Int
  BY <1>1 DEF RingInv, Frame, Wide
<1>3. buffer[0] # 0
  OBVIOUS
<1> DEFINE len == Strlen(b)
           start == (b + (len + 1)) % BUFFER_MAX
           zeros == Zeros(start)
           e == len + 1 + zeros
<1>4. len \in Nat /\ b + len < BUFFER_MAX /\ buffer[b + len] = 0
  BY <1>2, StrlenIs
<1>5. /\ start \in 0..(BUFFER_MAX - 1)
      /\ start = IF b + len + 1 = BUFFER_MAX THEN 0 ELSE b + len + 1
  <2>1. (0 + BUFFER_MAX) % BUFFER_MAX = 0
    BY Around, QueueFacts
  <2>2. b + (len + 1) \in Nat /\ b + (len + 1) <= BUFFER_MAX
    BY <1>2, <1>4, QueueFacts
  <2> HIDE DEF len
  <2>3. CASE b + (len + 1) = BUFFER_MAX
    BY <2>1, <2>3, <1>4, <1>2, QueueFacts
  <2>4. CASE b + (len + 1) < BUFFER_MAX
    <3>1. start = b + (len + 1)
      BY <2>2, <2>4, Around
    <3> QED BY <3>1, <2>4, <1>2, <1>4, QueueFacts
  <2> QED BY <2>2, <2>3, <2>4, QueueFacts
<1>6. /\ zeros \in Nat /\ start + zeros <= BUFFER_MAX
      /\ start = 0 => zeros = 0
      /\ buffer[(start + zeros) % BUFFER_MAX] # 0
      /\ \A m \in 0..(zeros - 1) : buffer[start + m] = 0
  <2> HIDE DEF start
  <2> QED BY <1>3, <1>5, ZerosIs
<1>7. b' = (start + zeros) % BUFFER_MAX /\ d' = d - (len + 1) - zeros
  <2>1. zeros # -1
    BY <1>6
  <2> QED BY <2>1 DEF Evict
<1> HIDE DEF len, start, zeros
<1>8. /\ e \in Nat /\ len < e /\ b + e <= BUFFER_MAX /\ d' = d - e
  BY <1>2, <1>3, <1>4, <1>5, <1>6, <1>7, QueueFacts
<1>9. b' = (b + e) % BUFFER_MAX /\ b' = IF b + e = BUFFER_MAX THEN 0 ELSE b + e
  <2>1. (0 + BUFFER_MAX) % BUFFER_MAX = 0 /\ 0 % BUFFER_MAX = 0
    BY Around, QueueFacts
  <2>2. CASE b + len + 1 = BUFFER_MAX
    <3>1. start = 0 /\ zeros = 0 /\ b + e = BUFFER_MAX
      BY <1>4, <1>2, <1>5, <1>6, <2>2
    <3> HIDE DEF e
    <3> QED BY <1>7, <2>1, <3>1, QueueFacts
  <2>3. CASE b + len + 1 # BUFFER_MAX
    <3>1. start + zeros = b + e /\ b + e \in Nat
      BY <1>2, <1>4, <1>5, <1>6, <1>8, <2>3
    <3>2. b' = (b + e) % BUFFER_MAX
      BY <1>7, <3>1
    <3> HIDE DEF e
    <3>3. b + e < BUFFER_MAX => b' = b + e
      BY <3>1, <3>2, Around
    <3>4. b + e = BUFFER_MAX => b' = 0
      BY <3>2, <2>1, QueueFacts
    <3> QED BY <1>8, <3>1, <3>2, <3>3, <3>4, QueueFacts
  <2> QED BY <2>2, <2>3
<1>10. buffer[b'] # 0
  BY <1>6, <1>7
<1>11. ASSUME NEW m \in len..(e - 1) PROVE buffer[b + m] = 0
  <2>1. CASE m = len
    BY <1>4, <2>1
  <2>2. CASE m # len
    <3>1. start = b + len + 1 /\ m - (len + 1) \in 0..(zeros - 1)
      BY <1>2, <1>4, <1>5, <1>6, <2>2, QueueFacts
    <3>2. start + (m - (len + 1)) = b + m
      BY <1>2, <1>4, <3>1
    <3> QED BY <1>6, <3>1, <3>2
  <2> QED BY <2>1, <2>2
<1> HIDE DEF e
<1> QED BY <1>8, <1>9, <1>10, <1>11 DEF len

\* The numbers at the start.
LEMMA InitRing == Init => RingInv
<1> SUFFICES ASSUME Init PROVE RingInv
  OBVIOUS
<1>1. buffer \in [0..(BUFFER_MAX - 1) -> Nat] /\ buffer[BUFFER_MAX - 1] = 0
  BY QueueFacts DEF Init
<1>2. log \in Seq(Pushed) /\ Len(log) <= BUFFER_MAX \div 2
  BY QueueFacts DEF Init
<1>3. Frame(bottom, distance, top) /\ distance < BUFFER_MAX
  BY QueueFacts DEF Init, Frame
<1> QED BY <1>1, <1>2, <1>3 DEF Init, RingInv

\* Taking the first part of the log keeps its type.
LEMMA RecentType ==
  ASSUME NEW l \in Seq(Pushed)
  PROVE  /\ Recent(l) \in Seq(Pushed) /\ Len(Recent(l)) <= BUFFER_MAX \div 2
         /\ \E drop \in 0..Len(l) :
              /\ Len(Recent(l)) = Len(l) - drop
              /\ \A j \in 1..(Len(l) - drop) : Recent(l)[j] = l[j + drop]
              /\ drop = IF Len(l) > BUFFER_MAX \div 2 THEN Len(l) - BUFFER_MAX \div 2 ELSE 0
<1> DEFINE h == BUFFER_MAX \div 2
<1>1. h \in Nat /\ Len(l) \in Nat
  BY QueueFacts
<1>2. CASE Len(l) > h
  <2>1. Recent(l) = SubSeq(l, Len(l) - h + 1, Len(l))
    BY <1>2 DEF Recent
  <2> DEFINE drop == Len(l) - h
  <2>2. drop \in 0..Len(l) /\ Len(l) - h + 1 \in 1..(Len(l) + 1)
    BY <1>1, <1>2
  <2> HIDE DEF h
  <2>3. /\ Recent(l) \in Seq(Pushed) /\ Len(Recent(l)) = h
        /\ \A j \in 1..h : Recent(l)[j] = l[j + drop]
    BY <1>1, <1>2, <2>1, <2>2
  <2>4. Len(l) - drop = h /\ Len(Recent(l)) <= h
    BY <1>1, <2>3
  <2>5. /\ Len(Recent(l)) = Len(l) - drop
        /\ \A j \in 1..(Len(l) - drop) : Recent(l)[j] = l[j + drop]
        /\ drop = IF Len(l) > h THEN Len(l) - h ELSE 0
    BY <1>2, <2>3, <2>4
  <2> HIDE DEF drop
  <2> QED BY <2>2, <2>3, <2>4, <2>5 DEF h
<1>3. CASE ~(Len(l) > h)
  <2>1. Recent(l) = l
    BY <1>3 DEF Recent
  <2>2. 0 \in 0..Len(l) /\ Len(l) <= h /\ \A j \in 1..(Len(l) - 0) : l[j] = l[j + 0]
    BY <1>1, <1>3
  <2> QED BY <1>1, <1>3, <2>1, <2>2
<1> QED BY <1>2, <1>3

\* Every step keeps the numbers right.
LEMMA NextRing == RingInv /\ [Next]_vars => RingInv'
<1> SUFFICES ASSUME RingInv, [Next]_vars PROVE RingInv'
  OBVIOUS
<1>0. /\ buffer \in [0..(BUFFER_MAX - 1) -> Nat] /\ buffer[BUFFER_MAX - 1] = 0
      /\ log \in Seq(Pushed) /\ Len(log) <= BUFFER_MAX \div 2 /\ msg \in Message
  BY DEF RingInv
<1>1. ASSUME NEW m \in Message, msgq_strpush(m) PROVE RingInv'
  <2>1. /\ pc = "idle" /\ pc' = "push" /\ msg' = m /\ b' = bottom /\ UNCHANGED log
        /\ m.size \in Nat /\ m.size >= 2 /\ m.size <= BUFFER_MAX
    BY <1>1, QueueFacts DEF msgq_strpush, Rejected, Message
  <2>2. /\ bottom \in 0..(BUFFER_MAX - 1) /\ top \in 0..(BUFFER_MAX - 1) /\ distance \in Nat
        /\ bottom + distance \in {top, top + BUFFER_MAX, top + BUFFER_MAX + BUFFER_MAX}
        /\ buffer[0] = 0 => distance = 0 /\ top = 0
        /\ distance < BUFFER_MAX
    BY <2>1 DEF RingInv, Frame
  <2>3. CASE Wraps(m.size)
    <3>1. /\ d' = distance + BUFFER_MAX - top /\ t' = 0
          /\ buffer' = [x \in DOMAIN buffer |-> IF x >= top THEN 0 ELSE buffer[x]]
      BY <1>1, <2>3 DEF msgq_strpush
    <3>2. buffer' \in [0..(BUFFER_MAX - 1) -> Nat] /\ buffer'[BUFFER_MAX - 1] = 0
      BY <1>0, <2>2, <3>1, QueueFacts
    <3>3. /\ d' \in Nat
          /\ bottom + d' \in {0, BUFFER_MAX, BUFFER_MAX + BUFFER_MAX}
      BY <2>2, <3>1, QueueFacts
    <3>4. CASE m.size < BUFFER_MAX
      <4>1. top > 0 /\ buffer[0] # 0
        BY <2>1, <2>2, <2>3, <3>4, QueueFacts DEF Wraps
      <4>2. buffer'[0] # 0
        BY <1>0, <2>2, <3>1, <4>1, QueueFacts
      <4>3. Frame(b, d, t)'
        BY <2>1, <2>2, <3>1, <3>3, <4>2, QueueFacts DEF Frame
      <4>4. t' + m.size < BUFFER_MAX
        BY <2>1, <3>1, <3>4
      <4> QED BY <1>0, <2>1, <3>2, <4>3, <4>4 DEF RingInv
    <3>5. CASE m.size = BUFFER_MAX
      <4>1. buffer'[0] = 0 => top = 0
        BY <1>0, <2>2, <3>1, QueueFacts
      <4>2. top = 0 => \A x \in 0..(BUFFER_MAX - 1) : buffer'[x] = 0
        BY <1>0, <3>1, QueueFacts
      <4>3. Wide'
        BY <2>1, <2>2, <3>1, <3>3, <4>1, <4>2, QueueFacts DEF Wide
      <4> QED BY <1>0, <2>1, <3>2, <3>5, <4>3 DEF RingInv
    <3> QED BY <2>1, <3>4, <3>5, QueueFacts
  <2>4. CASE ~Wraps(m.size)
    <3>1. d' = distance /\ t' = top /\ UNCHANGED buffer
      BY <1>1, <2>4 DEF msgq_strpush
    <3>2. Frame(b, d, t)'
      BY <2>1, <2>2, <3>1 DEF Frame
    <3>3. t' + m.size < BUFFER_MAX
      BY <2>1, <2>2, <2>4, <3>1, QueueFacts DEF Wraps
    <3> QED BY <1>0, <2>1, <3>1, <3>2, <3>3 DEF RingInv
  <2> QED BY <2>3, <2>4
<1>2. CASE Evict
  <2>1. pc = "push" /\ Full /\ UNCHANGED <<buffer, queueVars, pc, msg, t, log>>
    BY <1>2 DEF Evict
  <2>2. CASE Frame(b, d, t) /\ t + msg.size < BUFFER_MAX
    <3>1. msg.size \in Nat /\ msg.size # BUFFER_MAX
      BY <1>0, <2>2, QueueFacts DEF Frame, Message
    <3>2. buffer[0] # 0 /\ b + d >= t + BUFFER_MAX
      BY <2>1, <3>1, FullMeans
    <3>3. PICK e \in Nat : /\ b + e <= BUFFER_MAX /\ d' = d - e
                           /\ b' = IF b + e = BUFFER_MAX THEN 0 ELSE b + e
      BY <1>2, <3>2, EvictEffect
    <3>4. /\ b \in 0..(BUFFER_MAX - 1) /\ t \in 0..(BUFFER_MAX - 1) /\ d \in Nat
          /\ b + d \in {t, t + BUFFER_MAX, t + BUFFER_MAX + BUFFER_MAX}
      BY <2>2 DEF Frame
    <3>5. /\ b' \in 0..(BUFFER_MAX - 1) /\ d' \in Nat
          /\ b' + d' \in {t, t + BUFFER_MAX, t + BUFFER_MAX + BUFFER_MAX}
      BY <3>2, <3>3, <3>4, QueueFacts
    <3>6. Frame(b, d, t)'
      BY <2>1, <3>2, <3>4, <3>5 DEF Frame
    <3> QED BY <1>0, <2>1, <2>2, <3>6 DEF RingInv
  <2>3. CASE Wide /\ msg.size = BUFFER_MAX
    <3>1. /\ b \in 0..(BUFFER_MAX - 1) /\ d \in Int /\ t = 0 /\ d + BUFFER_MAX >= 0
          /\ b + d \in {0 - BUFFER_MAX, 0, BUFFER_MAX, BUFFER_MAX + BUFFER_MAX}
      BY <2>3 DEF Wide
    <3>2. CASE buffer[0] = 0
      <4>1. \A x \in DOMAIN buffer : buffer[x] = 0
        BY <1>0, <2>3, <3>2 DEF Wide
      <4>2. \A x : Zeros(x) = -1
        BY <4>1 DEF Zeros
      <4>3. UNCHANGED <<b, d>>
        BY <1>2, <4>2 DEF Evict
      <4>4. Wide'
        BY <2>1, <2>3, <4>3 DEF Wide
      <4> QED BY <1>0, <2>1, <2>3, <4>4 DEF RingInv
    <3>3. CASE buffer[0] # 0
      <4>1. PICK e \in Nat : /\ b + e <= BUFFER_MAX /\ d' = d - e
                             /\ b' = IF b + e = BUFFER_MAX THEN 0 ELSE b + e
        BY <1>2, <3>3, EvictEffect
      <4>2. d >= 0
        BY <2>1, <2>3, <3>1, QueueFacts DEF Full
      <4>3. /\ b' \in 0..(BUFFER_MAX - 1) /\ d' \in Int /\ d' + BUFFER_MAX >= 0
            /\ b' + d' \in {0 - BUFFER_MAX, 0, BUFFER_MAX, BUFFER_MAX + BUFFER_MAX}
        BY <3>1, <4>1, <4>2, QueueFacts
      <4>4. Wide'
        BY <2>1, <3>1, <3>3, <4>3 DEF Wide
      <4> QED BY <1>0, <2>1, <2>3, <4>4 DEF RingInv
    <3> QED BY <3>2, <3>3
  <2> QED BY <2>1, <2>2, <2>3 DEF RingInv
<1>3. CASE Commit
  <2>1. /\ pc = "push" /\ ~Full /\ pc' = "idle" /\ msg' = msg /\ bottom' = b
        /\ distance' = d + msg.size /\ top' = (t + msg.size) % BUFFER_MAX
        /\ log' = Recent(Append(log, msg))
    BY <1>3 DEF Commit
  <2>2. /\ b \in 0..(BUFFER_MAX - 1) /\ t \in 0..(BUFFER_MAX - 1) /\ d \in Int
        /\ t # 0 => buffer[0] # 0
        /\ msg.size \in Nat /\ msg.size >= 2 /\ t + msg.size <= BUFFER_MAX
    <3>1. msg.size \in Nat /\ msg.size >= 2
      BY <2>1, QueueFacts DEF RingInv, Message
    <3>2. \/ Frame(b, d, t) /\ t + msg.size < BUFFER_MAX
          \/ Wide /\ msg.size = BUFFER_MAX
      BY <2>1 DEF RingInv
    <3>3. CASE Frame(b, d, t) /\ t + msg.size < BUFFER_MAX
      BY <3>1, <3>3, QueueFacts DEF Frame
    <3>4. CASE Wide /\ msg.size = BUFFER_MAX
      BY <3>1, <3>4, QueueFacts DEF Wide
    <3> QED BY <3>2, <3>3, <3>4
  <2>3. /\ top' \in 0..(BUFFER_MAX - 1) /\ distance' \in Nat /\ distance' < BUFFER_MAX
        /\ b + distance' \in {top', top' + BUFFER_MAX, top' + BUFFER_MAX + BUFFER_MAX}
    <3>1. d + msg.size \in Nat /\ d + msg.size < BUFFER_MAX
      BY <2>1, <2>2, QueueFacts DEF Full
    <3>2. CASE Frame(b, d, t) /\ t + msg.size < BUFFER_MAX
      <4>1. top' = t + msg.size
        BY <2>1, <2>2, <3>2, Around
      <4>2. b + d \in {t, t + BUFFER_MAX, t + BUFFER_MAX + BUFFER_MAX}
        BY <3>2 DEF Frame
      <4> QED BY <2>1, <2>2, <3>1, <3>2, <4>1, <4>2, QueueFacts
    <3>3. CASE Wide /\ msg.size = BUFFER_MAX
      <4>1. (0 + BUFFER_MAX) % BUFFER_MAX = 0 % BUFFER_MAX /\ 0 % BUFFER_MAX = 0
        BY Around, QueueFacts
      <4>2. t = 0 /\ b + d \in {0 - BUFFER_MAX, 0, BUFFER_MAX, BUFFER_MAX + BUFFER_MAX}
        BY <3>3 DEF Wide
      <4>3. top' = 0
        BY <2>1, <3>3, <4>1, <4>2
      <4> QED BY <2>1, <2>2, <3>1, <3>3, <4>2, <4>3, QueueFacts
    <3> QED BY <2>1, <3>2, <3>3 DEF RingInv
  <2>5. log' \in Seq(Pushed) /\ Len(log') <= BUFFER_MAX \div 2
    <3>1. Append(log, msg) \in Seq(Pushed)
      BY <1>0, <2>2 DEF Pushed
    <3> QED BY <2>1, <3>1, RecentType
  <2>6. /\ buffer' \in [0..(BUFFER_MAX - 1) -> Nat] /\ buffer'[BUFFER_MAX - 1] = 0
        /\ buffer'[0] # 0
    <3>1. buffer' = [x \in 0..(BUFFER_MAX - 1) |->
                       CASE x \in t..(t + msg.size - 2) -> Char(msg, x - t + 1)
                         [] x = t + msg.size - 1        -> 0
                         [] OTHER                       -> buffer[x]]
      BY <1>0, <1>3 DEF Commit
    <3>2. ASSUME NEW x \in t..(t + msg.size - 2)
          PROVE  Char(msg, x - t + 1) \in Nat /\ Char(msg, x - t + 1) # 0
      <4>1. x - t + 1 \in Nat /\ x - t + 1 > 0
        BY <2>2
      <4> QED BY <1>0, <4>1, CharType
    <3>3. \A x \in 0..(BUFFER_MAX - 1) : buffer'[x] \in Nat
      BY <1>0, <3>1, <3>2
    <3>4. buffer'[BUFFER_MAX - 1] = 0
      <4>1. /\ BUFFER_MAX - 1 \notin t..(t + msg.size - 2)
            /\ BUFFER_MAX - 1 \in 0..(BUFFER_MAX - 1)
        BY <2>2, QueueFacts
      <4> QED BY <1>0, <3>1, <4>1
    <3>5. buffer'[0] # 0
      <4>1. CASE t = 0
        <5>1. 0 \in t..(t + msg.size - 2)
          BY <2>2, <4>1
        <5> QED BY <2>2, <3>1, <3>2, <5>1, QueueFacts
      <4>2. CASE t # 0
        BY <2>2, <3>1, <4>2, QueueFacts
      <4> QED BY <4>1, <4>2
    <3>6. buffer' = [x \in 0..(BUFFER_MAX - 1) |-> buffer'[x]]
      BY <3>1
    <3> QED BY <3>3, <3>4, <3>5, <3>6
  <2>7. Frame(bottom, distance, top)'
    BY <2>1, <2>2, <2>3, <2>6 DEF Frame
  <2> QED BY <1>0, <2>1, <2>3, <2>5, <2>6, <2>7 DEF RingInv
<1>4. CASE UNCHANGED vars
  BY <1>4 DEF RingInv, Frame, Wide, vars, queueVars
<1> QED BY <1>1, <1>2, <1>3, <1>4 DEF Next, Push

\* The queue never reads or writes outside its buffer, whatever the sizes of the
\* messages and of the buffer, also with messages of exactly its size
\* (msgq_strpush).
THEOREM InsideBuffer == Spec => []StaysInBuffer
<1>1. ASSUME RingInv PROVE StaysInBuffer
  <2>1. ASSUME pc = "push" PROVE b + Strlen(b) < BUFFER_MAX
    <3>1. b \in 0..(BUFFER_MAX - 1)
      BY <1>1, <2>1 DEF RingInv, Frame, Wide
    <3> QED BY <1>1, <3>1, StrlenIs
  <2>2. ASSUME pc = "idle"
        PROVE  /\ top < BUFFER_MAX /\ distance \in 0..(BUFFER_MAX - 1)
               /\ (bottom + distance) % BUFFER_MAX = top
    <3>1. /\ bottom \in 0..(BUFFER_MAX - 1) /\ top \in 0..(BUFFER_MAX - 1) /\ distance \in Nat
          /\ bottom + distance \in {top, top + BUFFER_MAX, top + BUFFER_MAX + BUFFER_MAX}
          /\ distance < BUFFER_MAX
      BY <1>1, <2>2 DEF RingInv, Frame
    <3>2. bottom + distance \in {top, top + BUFFER_MAX}
      BY <3>1, QueueFacts
    <3>3. top % BUFFER_MAX = top /\ (top + BUFFER_MAX) % BUFFER_MAX = top
      BY <3>1, Around, QueueFacts
    <3> QED BY <3>1, <3>2, <3>3, QueueFacts
  <2> QED BY <2>1, <2>2 DEF StaysInBuffer
<1> QED BY <1>1, InitRing, NextRing, PTL DEF Spec

-----------------------------------------------------------------------------
(***************************************************************************)
(* What is in the buffer.                                                  *)
(***************************************************************************)

\* The characters of a message.
Chars(m) == 0..(m.size - 2)

\* The d0 bytes from position b0 on are the messages of l from number k on and
\* zeros. Message j begins at[j] bytes after b0; there are at least two bytes for
\* every message between two others, so that the log is long enough for all.
Laid(buf, l, b0, d0, k, at) ==
  /\ \A j \in k..Len(l) : at[j] + l[j].size <= d0
  /\ \A j \in k..Len(l) : \A c \in Chars(l[j]) :
       buf[(b0 + at[j] + c) % BUFFER_MAX] = Char(l[j], c + 1)
  /\ \A i, j \in k..Len(l) : i < j => at[i] + l[i].size + 2 * (j - i - 1) <= at[j]
  /\ \A x \in 0..(d0 - 1) : buf[(b0 + x) % BUFFER_MAX] # 0 =>
       \E j \in k..Len(l) : x \in at[j]..(at[j] + l[j].size - 2)

\* Messages of the log that may be in the buffer, and where.
Firsts(l) == 1..(Len(l) + 1)
Places(l) == [1..Len(l) -> Nat]

ContentInv ==
  /\ pc = "idle" => \E k \in Firsts(log), at \in Places(log) :
       Laid(buffer, log, bottom, distance, k, at) /\ (log # <<>> => k <= Len(log))
  /\ pc = "push" => \E k \in Firsts(log), at \in Places(log) :
       Laid(buffer, log, b, d, k, at)

\* A position once around the buffer.
LEMMA Position ==
  ASSUME NEW y \in Nat
  PROVE  /\ y < BUFFER_MAX => y % BUFFER_MAX = y
         /\ y >= BUFFER_MAX /\ y < BUFFER_MAX + BUFFER_MAX =>
              y % BUFFER_MAX = y - BUFFER_MAX
<1>1. y < BUFFER_MAX => y % BUFFER_MAX = y
  BY Around
<1>2. ASSUME y >= BUFFER_MAX, y < BUFFER_MAX + BUFFER_MAX
      PROVE  y % BUFFER_MAX = y - BUFFER_MAX
  <2> DEFINE z == y - BUFFER_MAX
  <2>1. z \in Nat /\ z < BUFFER_MAX /\ y = z + BUFFER_MAX
    BY <1>2, QueueFacts
  <2> HIDE DEF z
  <2>2. (z + BUFFER_MAX) % BUFFER_MAX = z
    BY <2>1, Around
  <2> QED BY <2>1, <2>2, QueueFacts
<1> QED BY <1>1, <1>2

\* The messages of a log are numbers of bytes.
LEMMA LogFacts ==
  ASSUME NEW l \in Seq(Pushed), NEW j \in 1..Len(l)
  PROVE  /\ l[j] \in Message /\ l[j].size \in Nat /\ l[j].size >= 2
         /\ Chars(l[j]) = 0..(l[j].size - 2)
         /\ \A c \in Chars(l[j]) : Char(l[j], c + 1) # 0
<1>1. l[j] \in Pushed
  OBVIOUS
<1>2. l[j] \in Message /\ l[j].size \in Nat /\ l[j].size >= 2
  BY <1>1, QueueFacts DEF Pushed, Message
<1>3. ASSUME NEW c \in Chars(l[j]) PROVE Char(l[j], c + 1) # 0
  <2>1. c + 1 \in Nat /\ c + 1 > 0
    BY <1>2 DEF Chars
  <2> QED BY <1>2, <2>1, CharType
<1> QED BY <1>2, <1>3 DEF Chars

\* Message m, with its zero, was written at t0, and nothing else.
Written(new, buf, m, t0) ==
  /\ \A c \in 0..(m.size - 2) : new[t0 + c] = Char(m, c + 1)
  /\ new[t0 + m.size - 1] = 0
  /\ \A x \in 0..(BUFFER_MAX - 1) : x \notin t0..(t0 + m.size - 1) => new[x] = buf[x]

\* One more message further on, there are two more bytes.
LEMMA Spacing ==
  ASSUME NEW n \in Int, NEW i \in Int, NEW a \in Int, NEW z \in Int, NEW e \in Int,
         NEW y \in Int, NEW d0 \in Int,
         a + z + 2 * (n - i - 1) <= e, e + y <= d0, y >= 2
  PROVE  a + z + 2 * ((n + 1) - i - 1) <= d0
OBVIOUS

\* There is room for message m at t0, d0 bytes behind b0.
Fits(m, b0, d0, t0) ==
  /\ b0 + d0 \in {t0, t0 + BUFFER_MAX}
  /\ t0 + m.size < BUFFER_MAX /\ d0 + m.size < BUFFER_MAX

\* A new message goes behind the others.
LEMMA LaidCommit ==
  ASSUME NEW buf \in [0..(BUFFER_MAX - 1) -> Nat], NEW l \in Seq(Pushed),
         NEW k \in Firsts(l), NEW at \in Places(l), NEW m \in Pushed,
         NEW b0 \in 0..(BUFFER_MAX - 1), NEW t0 \in 0..(BUFFER_MAX - 1), NEW d0 \in Nat,
         Fits(m, b0, d0, t0),
         Laid(buf, l, b0, d0, k, at),
         NEW new, Written(new, buf, m, t0)
  PROVE  \E at2 \in Places(Append(l, m)) :
           Laid(new, Append(l, m), b0, d0 + m.size, k, at2)
<1> DEFINE n == Len(l)
           l2 == Append(l, m)
           s == m.size
           at2 == [j \in 1..(n + 1) |-> IF j = n + 1 THEN d0 ELSE at[j]]
<1>a. Len(l2) = n + 1 /\ l2[n + 1] = m /\ \A j \in 1..n : l2[j] = l[j]
  OBVIOUS
<1>b. /\ s \in Nat /\ s >= 2 /\ t0 + s < BUFFER_MAX /\ d0 + s < BUFFER_MAX
      /\ b0 + d0 \in {t0, t0 + BUFFER_MAX}
  BY QueueFacts DEF Pushed, Message, Fits
<1>c. n \in Nat /\ k \in 1..(n + 1)
  BY DEF Firsts
<1>0. /\ \A c \in 0..(s - 2) : new[t0 + c] = Char(m, c + 1)
      /\ new[t0 + s - 1] = 0
      /\ \A x \in 0..(BUFFER_MAX - 1) : x \notin t0..(t0 + s - 1) => new[x] = buf[x]
  BY DEF Written
<1>2. /\ at2 \in Places(l2) /\ at2[n + 1] = d0
      /\ \A j \in 1..n : at2[j] = at[j] /\ at[j] \in Nat
  <2>1. \A j \in 1..n : at[j] \in Nat
    BY DEF Places
  <2> HIDE DEF l2, n
  <2> QED BY <1>a, <1>c, <2>1 DEF Places
<1> HIDE DEF n, l2, at2, s
<1> USE QueueFacts, <1>c
<1>3. \A j \in 1..n : l[j].size \in Nat /\ l[j].size >= 2
  BY LogFacts DEF n
<1>4. ASSUME NEW x \in 0..(d0 - 1)
      PROVE  new[(b0 + x) % BUFFER_MAX] = buf[(b0 + x) % BUFFER_MAX]
  <2> DEFINE p == (b0 + x) % BUFFER_MAX
  <2>1. /\ b0 + x < BUFFER_MAX => p = b0 + x
        /\ b0 + x >= BUFFER_MAX => p = b0 + x - BUFFER_MAX
    <3>1. b0 + x \in Nat /\ b0 + x < BUFFER_MAX + BUFFER_MAX
      BY <1>b, QueueFacts
    <3> DEFINE y == b0 + x
    <3>2. y \in Nat /\ y < BUFFER_MAX + BUFFER_MAX
      BY <3>1
    <3> HIDE DEF y
    <3>3. /\ y < BUFFER_MAX => y % BUFFER_MAX = y
          /\ y >= BUFFER_MAX => y % BUFFER_MAX = y - BUFFER_MAX
      BY <3>2, Position
    <3> QED BY <3>3 DEF y
  <2> HIDE DEF p
  <2>2. p \in 0..(BUFFER_MAX - 1) /\ p \notin t0..(t0 + s - 1)
    <3>1. CASE b0 + d0 = t0
      <4>1. p = b0 + x /\ p < t0 /\ p >= 0
        BY <2>1, <3>1
      <4> QED BY <4>1
    <3>2. CASE b0 + d0 = t0 + BUFFER_MAX
      <4>1. CASE b0 + x < BUFFER_MAX
        <5>1. p = b0 + x /\ p >= b0 /\ p < BUFFER_MAX
          BY <2>1, <4>1
        <5>2. b0 >= t0 + s
          BY <1>b, <3>2
        <5> QED BY <1>b, <5>1, <5>2
      <4>2. CASE b0 + x >= BUFFER_MAX
        <5>1. p = b0 + x - BUFFER_MAX /\ p < t0 /\ p >= 0
          BY <2>1, <3>2, <4>2
        <5> QED BY <5>1
      <4> QED BY <4>1, <4>2
    <3> QED BY <1>b, <3>1, <3>2
  <2>3. new[p] = buf[p]
    BY <1>0, <2>2
  <2> QED BY <2>3 DEF p
<1>5. ASSUME NEW c \in 0..(s - 1)
      PROVE  /\ (b0 + d0 + c) % BUFFER_MAX = t0 + c
             /\ c <= s - 2 => new[(b0 + d0 + c) % BUFFER_MAX] = Char(m, c + 1)
             /\ c = s - 1 => new[(b0 + d0 + c) % BUFFER_MAX] = 0
  <2>1. (b0 + d0 + c) % BUFFER_MAX = t0 + c
    <3>1. c \in Nat /\ c <= s - 1 /\ t0 + c \in Nat /\ t0 + c < BUFFER_MAX
      BY <1>b, QueueFacts
    <3>2. CASE b0 + d0 = t0
      <4>1. b0 + d0 + c = t0 + c
        BY <3>2
      <4> QED BY <3>1, <4>1, Around
    <3>3. CASE b0 + d0 = t0 + BUFFER_MAX
      <4>1. b0 + d0 + c = (t0 + c) + BUFFER_MAX
        BY <3>1, <3>3, QueueFacts
      <4> QED BY <3>1, <4>1, Around
    <3> QED BY <1>b, <3>2, <3>3
  <2>2. ASSUME c <= s - 2 PROVE new[t0 + c] = Char(m, c + 1)
    <3>1. c \in 0..(s - 2)
      BY <1>a, <1>b, <1>c, <2>2
    <3> QED BY <1>0, <3>1
  <2>3. ASSUME c = s - 1 PROVE new[t0 + c] = 0
    <3>1. t0 + c = t0 + s - 1
      BY <1>a, <1>b, <1>c, <2>3
    <3> QED BY <1>0, <3>1
  <2> QED BY <2>1, <2>2, <2>3
<1>6. /\ \A j \in k..n : at[j] + l[j].size <= d0
      /\ \A j \in k..n : \A c \in Chars(l[j]) :
           buf[(b0 + at[j] + c) % BUFFER_MAX] = Char(l[j], c + 1)
      /\ \A i, j \in k..n : i < j => at[i] + l[i].size + 2 * (j - i - 1) <= at[j]
      /\ \A x \in 0..(d0 - 1) : buf[(b0 + x) % BUFFER_MAX] # 0 =>
           \E j \in k..n : x \in at[j]..(at[j] + l[j].size - 2)
  BY DEF Laid, n
<1>7. ASSUME NEW j \in k..(n + 1) PROVE at2[j] + l2[j].size <= d0 + s
  <2>1. CASE j = n + 1
    <3>1. at2[j] = d0 /\ l2[j].size = s
      BY <1>a, <1>2, <2>1 DEF s
    <3> QED BY <1>b, <3>1
  <2>2. CASE j # n + 1
    <3>1. j \in k..n /\ j \in 1..n
      BY <1>c, <2>2
    <3> DEFINE a == at[j]
               z == l[j].size
    <3>2. at2[j] = a /\ l2[j].size = z
      BY <1>a, <1>2, <3>1
    <3>3. a \in Nat /\ z \in Nat /\ a + z <= d0
      BY <1>2, <1>3, <1>6, <3>1
    <3> HIDE DEF a, z
    <3>4. a + z <= d0 + s
      BY <1>b, <3>3
    <3> QED BY <3>2, <3>4
  <2> QED BY <2>1, <2>2
<1>8. ASSUME NEW j \in k..(n + 1), NEW c \in Chars(l2[j])
      PROVE  new[(b0 + at2[j] + c) % BUFFER_MAX] = Char(l2[j], c + 1)
  <2>1. CASE j = n + 1
    <3>1. c \in 0..(s - 1) /\ c <= s - 2
      <4>1. c \in 0..(s - 2)
        BY <1>a, <1>8, <2>1 DEF s, Chars
      <4> QED BY <1>b, <4>1
    <3> QED BY <1>a, <1>b, <1>c, <1>2, <1>5, <2>1, <3>1
  <2>2. CASE j # n + 1
    <3>1. j \in k..n /\ j \in 1..n /\ l2[j] = l[j] /\ at2[j] = at[j] /\ at[j] \in Nat
      BY <1>a, <1>b, <1>c, <1>2, <2>2
    <3>2. at[j] + c \in 0..(d0 - 1) /\ b0 + at[j] + c = b0 + (at[j] + c)
      <4>1. c \in 0..(l[j].size - 2) /\ l[j].size \in Nat /\ at[j] + l[j].size <= d0
        BY <1>3, <1>6, <1>8, <3>1 DEF Chars
      <4> DEFINE z == l[j].size
                 a == at[j]
      <4>2. c \in 0..(z - 2) /\ z \in Nat /\ a \in Nat /\ a + z <= d0
        BY <3>1, <4>1
      <4> HIDE DEF z, a
      <4>3. a + c \in 0..(d0 - 1) /\ b0 + a + c = b0 + (a + c)
        BY <4>2, QueueFacts
      <4> QED BY <4>3 DEF a
    <3> QED BY <1>4, <1>6, <1>8, <3>1, <3>2
  <2> QED BY <2>1, <2>2
<1>9. ASSUME NEW i \in k..(n + 1), NEW j \in k..(n + 1), i < j
      PROVE  at2[i] + l2[i].size + 2 * (j - i - 1) <= at2[j]
  <2>1. i \in k..n /\ i \in 1..n /\ l2[i] = l[i] /\ at2[i] = at[i] /\ at[i] \in Nat
    BY <1>a, <1>b, <1>c, <1>2, <1>9
  <2>2. CASE j = n + 1
    <3>1. CASE i = n
      <4>1. at[n] + l[n].size <= d0 /\ at[n] \in Nat /\ l[n].size \in Nat
        BY <1>3, <1>6, <2>1, <3>1
      <4>2. at2[i] = at[n] /\ l2[i] = l[n] /\ at2[j] = d0 /\ 2 * (j - i - 1) = 0
        BY <1>2, <2>1, <2>2, <3>1
      <4> QED BY <4>1, <4>2
    <3>2. CASE i # n
      <4>0. i \in Nat /\ k <= i /\ i < n
        BY <1>c, <2>1, <3>2
      <4>1. n \in k..n /\ n \in 1..n /\ i < n
        BY <1>c, <4>0
      <4> DEFINE a == at[i]
                 z == l[i].size
                 e == at[n]
                 y == l[n].size
      <4>2. a + z + 2 * (n - i - 1) <= e
        BY <1>6, <2>1, <4>1
      <4>3. e + y <= d0
        BY <1>6, <4>1
      <4>4. a \in Nat /\ z \in Nat /\ e \in Nat /\ y \in Nat /\ y >= 2 /\ i \in Int
        <5>1. a \in Nat /\ e \in Nat
          BY <1>2, <2>1, <4>1
        <5>2. z \in Nat /\ y \in Nat /\ y >= 2
          BY <1>3, <2>1, <4>1
        <5> QED BY <2>1, <5>1, <5>2
      <4> HIDE DEF a, z, e, y
      <4>5. a + z + 2 * ((n + 1) - i - 1) <= d0
        BY <4>2, <4>3, <4>4, Spacing
      <4> QED BY <1>2, <2>1, <2>2, <4>5 DEF a, z
    <3> QED BY <3>1, <3>2
  <2>3. CASE j # n + 1
    <3>1. j \in k..n /\ at2[j] = at[j]
      BY <1>a, <1>b, <1>c, <1>2, <2>3
    <3> QED BY <1>6, <1>9, <2>1, <3>1
  <2> QED BY <2>2, <2>3
<1>10. ASSUME NEW x \in 0..(d0 + s - 1), new[(b0 + x) % BUFFER_MAX] # 0
       PROVE  \E j \in k..(n + 1) : x \in at2[j]..(at2[j] + l2[j].size - 2)
  <2>1. CASE x < d0
    <3>1. x \in 0..(d0 - 1)
      BY <2>1, <1>a, <1>b, <1>c
    <3>2. buf[(b0 + x) % BUFFER_MAX] # 0
      BY <1>4, <1>10, <3>1
    <3>3. PICK j \in k..n : x \in at[j]..(at[j] + l[j].size - 2)
      BY <1>6, <3>1, <3>2
    <3>4. j \in k..(n + 1) /\ j \in 1..n
      BY <1>a, <1>b, <1>c
    <3> QED BY <1>a, <1>b, <1>c, <1>2, <3>3, <3>4
  <2>2. CASE x >= d0
    <3>1. x - d0 \in 0..(s - 1) /\ b0 + d0 + (x - d0) = b0 + x
      BY <1>a, <1>b, <1>c, <2>2, QueueFacts
    <3>2. x - d0 # s - 1
      BY <1>5, <1>10, <3>1
    <3>3. x \in d0..(d0 + s - 2)
      BY <1>b, <3>1, <3>2
    <3>4. n + 1 \in k..(n + 1) /\ at2[n + 1] = d0 /\ l2[n + 1].size = s
      BY <1>a, <1>c, <1>2 DEF s
    <3> QED BY <3>3, <3>4
  <2> QED BY <1>a, <1>b, <1>c, <2>1, <2>2
<1>11. Laid(new, l2, b0, d0 + s, k, at2)
  BY <1>a, <1>b, <1>c, <1>7, <1>8, <1>9, <1>10 DEF Laid
<1> QED BY <1>2, <1>11 DEF l2, s

\* A position counted from the position e bytes further on.
LEMMA Further ==
  ASSUME NEW b0 \in Nat, NEW e \in Nat, b0 + e <= BUFFER_MAX, NEW y \in Nat
  PROVE  (((b0 + e) % BUFFER_MAX) + y) % BUFFER_MAX = (b0 + (y + e)) % BUFFER_MAX
<1> DEFINE z == b0 + e
<1>1. z \in Nat /\ z <= BUFFER_MAX /\ b0 + (y + e) = z + y
  OBVIOUS
<1> HIDE DEF z
<1>2. CASE z < BUFFER_MAX
  <2>1. z % BUFFER_MAX = z
    BY <1>1, <1>2, Around
  <2> QED BY <1>1, <2>1 DEF z
<1>3. CASE z = BUFFER_MAX
  <2>1. 0 % BUFFER_MAX = 0 /\ (0 + BUFFER_MAX) % BUFFER_MAX = 0
    BY Around, QueueFacts
  <2>2. z % BUFFER_MAX = 0
    BY <1>3, <2>1, QueueFacts
  <2>3. (y + BUFFER_MAX) % BUFFER_MAX = y % BUFFER_MAX
    BY Around
  <2>4. z + y = y + BUFFER_MAX /\ 0 + y = y
    BY <1>1, <1>3, QueueFacts
  <2> QED BY <1>1, <2>2, <2>3, <2>4 DEF z
<1> QED BY <1>1, <1>2, <1>3, QueueFacts

\* Of the messages from k on, those from k2 on lie behind the first e bytes, and
\* no others reach there.
Kept(l, at, k, e, k2) ==
  /\ \A j \in k2..Len(l) : e <= at[j]
  /\ \A j \in k..Len(l) : \A x \in at[j]..(at[j] + l[j].size - 2) : e <= x => k2 <= j

\* Bytes that hold no message that is kept can be taken away at the front.
LEMMA LaidShift ==
  ASSUME NEW buf, NEW l \in Seq(Pushed), NEW k \in Firsts(l), NEW at \in Places(l),
         NEW b0 \in Nat, NEW d0 \in Nat, NEW e \in Nat, e <= d0, b0 + e <= BUFFER_MAX,
         Laid(buf, l, b0, d0, k, at),
         NEW k2 \in Firsts(l), k <= k2,
         Kept(l, at, k, e, k2)
  PROVE  \E at2 \in Places(l) : Laid(buf, l, (b0 + e) % BUFFER_MAX, d0 - e, k2, at2)
<1> DEFINE n == Len(l)
           at2 == [j \in 1..n |-> IF e <= at[j] THEN at[j] - e ELSE 0]
           b2 == (b0 + e) % BUFFER_MAX
<1>1. n \in Nat /\ k \in 1..(n + 1) /\ k2 \in 1..(n + 1)
  BY DEF Firsts
<1>2. \A j \in 1..n : at[j] \in Nat
  BY DEF Places
<1>3. \A j \in k2..n : j \in k..n /\ j \in 1..n
  BY <1>1
<1>4. \A j \in k2..n : at2[j] \in Nat /\ at[j] = at2[j] + e
  BY <1>1, <1>2, <1>3 DEF Kept
<1>5. at2 \in Places(l)
  BY <1>1, <1>2 DEF Places
<1>6. \A y \in Nat : (b2 + y) % BUFFER_MAX = (b0 + (y + e)) % BUFFER_MAX
  BY Further
<1>7. \A j \in 1..n : l[j].size \in Nat /\ l[j].size >= 2 /\ Chars(l[j]) = 0..(l[j].size - 2)
  BY LogFacts
<1> HIDE DEF n, at2, b2
<1>8. /\ \A j \in k..n : at[j] + l[j].size <= d0
      /\ \A j \in k..n : \A c \in Chars(l[j]) :
           buf[(b0 + at[j] + c) % BUFFER_MAX] = Char(l[j], c + 1)
      /\ \A i, j \in k..n : i < j => at[i] + l[i].size + 2 * (j - i - 1) <= at[j]
      /\ \A x \in 0..(d0 - 1) : buf[(b0 + x) % BUFFER_MAX] # 0 =>
           \E j \in k..n : x \in at[j]..(at[j] + l[j].size - 2)
  BY DEF Laid, n
<1> USE QueueFacts, <1>1
<1>9. ASSUME NEW j \in k2..n PROVE at2[j] + l[j].size <= d0 - e
  <2> DEFINE a == at2[j]
             z == l[j].size
  <2>1. a \in Nat /\ z \in Nat /\ at[j] = a + e
    BY <1>3, <1>4, <1>7
  <2>2. at[j] + z <= d0
    BY <1>3, <1>8
  <2> HIDE DEF a, z
  <2>3. a + z <= d0 - e
    BY <2>1, <2>2
  <2> QED BY <2>3 DEF a, z
<1>10. ASSUME NEW j \in k2..n, NEW c \in Chars(l[j])
       PROVE  buf[(b2 + at2[j] + c) % BUFFER_MAX] = Char(l[j], c + 1)
  <2> DEFINE a == at2[j]
  <2>0. c \in Nat
    <3>1. Chars(l[j]) = 0..(l[j].size - 2)
      BY <1>3, <1>7
    <3> QED BY <3>1
  <2>1. a \in Nat /\ at[j] = a + e
    BY <1>4
  <2>2. b2 \in Nat
    BY Around DEF b2
  <2>3. buf[(b0 + at[j] + c) % BUFFER_MAX] = Char(l[j], c + 1)
    BY <1>3, <1>8
  <2> HIDE DEF a
  <2>4. a + c \in Nat /\ b2 + a + c = b2 + (a + c) /\ b0 + at[j] + c = b0 + ((a + c) + e)
    BY <2>0, <2>1, <2>2
  <2> QED BY <1>6, <2>3, <2>4 DEF a
<1>11. ASSUME NEW i \in k2..n, NEW j \in k2..n, i < j
       PROVE  at2[i] + l[i].size + 2 * (j - i - 1) <= at2[j]
  <2> DEFINE a == at2[i]
             z == l[i].size
             g == 2 * (j - i - 1)
             a2 == at2[j]
  <2>1. a \in Nat /\ z \in Nat /\ a2 \in Nat /\ at[i] = a + e /\ at[j] = a2 + e
    BY <1>3, <1>4, <1>7
  <2>2. at[i] + z + g <= at[j]
    BY <1>3, <1>8, <1>11
  <2>3. g \in Int
    OBVIOUS
  <2> HIDE DEF a, z, g, a2
  <2>4. a + z + g <= a2
    BY <2>1, <2>2, <2>3
  <2> QED BY <2>4 DEF a, z, g, a2
<1>12. ASSUME NEW y \in 0..(d0 - e - 1), buf[(b2 + y) % BUFFER_MAX] # 0
       PROVE  \E j \in k2..n : y \in at2[j]..(at2[j] + l[j].size - 2)
  <2>1. y \in Nat /\ y + e \in 0..(d0 - 1)
    OBVIOUS
  <2>2. buf[(b0 + (y + e)) % BUFFER_MAX] # 0
    BY <1>6, <1>12, <2>1
  <2>3. PICK j \in k..n : y + e \in at[j]..(at[j] + l[j].size - 2)
    BY <1>8, <2>1, <2>2
  <2>4. k2 <= j
    <3>1. e <= y + e
      BY <2>1
    <3> QED BY <2>3, <3>1 DEF n, Kept
  <2>5. j \in k2..n /\ j \in 1..n
    BY <2>4
  <2> DEFINE a == at2[j]
             z == l[j].size
  <2>6. a \in Nat /\ z \in Nat /\ at[j] = a + e /\ y + e \in (a + e)..(a + e + z - 2)
    BY <1>4, <1>7, <2>3, <2>5
  <2> HIDE DEF a, z
  <2>7. y \in a..(a + z - 2)
    BY <2>1, <2>6
  <2> QED BY <2>5, <2>7 DEF a, z
<1>13. Laid(buf, l, b2, d0 - e, k2, at2)
  BY <1>9, <1>10, <1>11, <1>12 DEF Laid, n
<1> QED BY <1>5, <1>13 DEF b2

\* From b0 on there is a string of len bytes, and zeros behind it up to e.
Word(buf, b0, len, e) ==
  /\ \A x \in 0..(len - 1) : buf[b0 + x] # 0
  /\ \A x \in len..(e - 1) : buf[b0 + x] = 0

\* Taking a string and the zeros behind it away takes one message, or none if it
\* had been overwritten with zeros.
LEMMA LaidEvict ==
  ASSUME NEW buf, NEW l \in Seq(Pushed), NEW k \in Firsts(l), NEW at \in Places(l),
         NEW b0 \in Nat, NEW d0 \in Nat, NEW len \in Nat, NEW e \in Nat,
         len < e, e <= d0, b0 + e <= BUFFER_MAX,
         Laid(buf, l, b0, d0, k, at), Word(buf, b0, len, e)
  PROVE  \E k2 \in Firsts(l), at2 \in Places(l) :
           Laid(buf, l, (b0 + e) % BUFFER_MAX, d0 - e, k2, at2)
<1> DEFINE n == Len(l)
<1>1. n \in Nat /\ k \in 1..(n + 1) /\ k \in Nat
  BY DEF Firsts
<1>2. \A j \in 1..n : at[j] \in Nat
  BY DEF Places
<1>3. \A j \in 1..n : l[j].size \in Nat /\ l[j].size >= 2 /\ Chars(l[j]) = 0..(l[j].size - 2)
                      /\ \A c \in Chars(l[j]) : Char(l[j], c + 1) # 0
  BY LogFacts
<1> HIDE DEF n
<1>4. /\ \A j \in k..n : at[j] + l[j].size <= d0
      /\ \A j \in k..n : \A c \in Chars(l[j]) :
           buf[(b0 + at[j] + c) % BUFFER_MAX] = Char(l[j], c + 1)
  BY DEF Laid, n
<1>5. \A i, j \in k..n : i < j => at[i] + l[i].size + 2 * (j - i - 1) <= at[j]
  BY DEF Laid, n
<1>6. \A x \in 0..(d0 - 1) : buf[(b0 + x) % BUFFER_MAX] # 0 =>
         \E j \in k..n : x \in at[j]..(at[j] + l[j].size - 2)
  BY DEF Laid, n
<1> USE QueueFacts, <1>1
<1>7. \A j \in k..n : j \in 1..n
  OBVIOUS
<1>8. ASSUME NEW x \in 0..(e - 1)
      PROVE  /\ (b0 + x) % BUFFER_MAX = b0 + x
             /\ x < len => buf[b0 + x] # 0
             /\ x >= len => buf[b0 + x] = 0
  <2>1. b0 + x \in Nat /\ b0 + x < BUFFER_MAX
    OBVIOUS
  <2>2. (b0 + x) % BUFFER_MAX = b0 + x
    BY <2>1, Around
  <2>3. ASSUME x < len PROVE buf[b0 + x] # 0
    <3>1. x \in 0..(len - 1)
      BY <2>3
    <3> QED BY <3>1 DEF Word
  <2>4. ASSUME x >= len PROVE buf[b0 + x] = 0
    <3>1. x \in len..(e - 1)
      BY <2>4
    <3> QED BY <3>1 DEF Word
  <2> QED BY <2>2, <2>3, <2>4
<1>9. ASSUME NEW j \in k..n, NEW c \in Chars(l[j]), at[j] + c < e
      PROVE  at[j] + c < len
  <2> DEFINE x == at[j] + c
  <2>1. c \in Nat
    <3>1. Chars(l[j]) = 0..(l[j].size - 2)
      BY <1>3, <1>7
    <3> QED BY <3>1
  <2>2. at[j] \in Nat
    BY <1>2, <1>7
  <2>3. x \in Nat /\ x \in 0..(e - 1) /\ b0 + at[j] + c = b0 + x
    BY <1>9, <2>1, <2>2
  <2>4. buf[(b0 + at[j] + c) % BUFFER_MAX] # 0
    BY <1>3, <1>4, <1>7, <1>9
  <2> HIDE DEF x
  <2>5. buf[b0 + x] # 0
    BY <1>8, <2>3, <2>4
  <2>6. x < len
    BY <1>8, <2>3, <2>5
  <2> QED BY <2>6 DEF x
<1>10. \A j \in k..n : 0 \in Chars(l[j]) /\ at[j] + 0 = at[j]
  <2> TAKE j \in k..n
  <2>1. at[j] \in Nat /\ Chars(l[j]) = 0..(l[j].size - 2)
    BY <1>2, <1>3, <1>7
  <2> DEFINE z == l[j].size
  <2>2. z \in Nat /\ z >= 2
    BY <1>3, <1>7
  <2> HIDE DEF z
  <2>3. 0 \in 0..(z - 2)
    BY <2>2
  <2> QED BY <2>1, <2>3 DEF z
<1>11. CASE len = 0
  <2>1. ASSUME NEW j \in k..n PROVE e <= at[j]
    <3>1. at[j] \in Nat /\ (at[j] < e => at[j] < len)
      BY <1>2, <1>7, <1>9, <1>10
    <3> QED BY <1>11, <3>1
  <2>2. Kept(l, at, k, e, k)
    BY <2>1 DEF Kept, n
  <2> QED BY <2>2, LaidShift
<1>12. CASE len > 0
  <2>1. 0 \in 0..(d0 - 1) /\ 0 \in 0..(e - 1) /\ b0 + 0 = b0
    OBVIOUS
  <2>2. buf[(b0 + 0) % BUFFER_MAX] # 0
    BY <1>8, <1>12, <2>1
  <2>3. PICK o \in k..n : 0 \in at[o]..(at[o] + l[o].size - 2)
    BY <1>6, <2>1, <2>2
  <2>4. at[o] = 0
    BY <1>2, <1>7, <2>3
  <2>5. \A j \in k..n : o < j => l[o].size <= at[j] /\ at[j] \in Nat
    <3> SUFFICES ASSUME NEW j \in k..n, o < j PROVE l[o].size <= at[j] /\ at[j] \in Nat
      OBVIOUS
    <3> DEFINE z == l[o].size
               g == 2 * (j - o - 1)
    <3>1. at[o] + z + g <= at[j]
      BY <1>5
    <3>2. z \in Nat /\ at[j] \in Nat /\ g \in Nat
      BY <1>2, <1>3, <1>7
    <3> HIDE DEF z, g
    <3>3. z <= at[j]
      BY <2>4, <3>1, <3>2
    <3> QED BY <3>2, <3>3 DEF z
  <2>6. o = k
    <3> SUFFICES ASSUME k < o PROVE FALSE
      OBVIOUS
    <3> DEFINE z == l[k].size
               g == 2 * (o - k - 1)
    <3>1. k \in k..n
      OBVIOUS
    <3>2. at[k] + z + g <= at[o]
      BY <1>5, <3>1
    <3>3. z \in Nat /\ z >= 2 /\ at[k] \in Nat /\ g \in Nat
      BY <1>2, <1>3, <1>7, <3>1
    <3> HIDE DEF z, g
    <3> QED BY <2>4, <3>2, <3>3
  <2> DEFINE s == l[o].size
  <2>7. s \in Nat /\ s >= 2 /\ Chars(l[o]) = 0..(s - 2) /\ s <= d0
    BY <1>3, <1>4, <1>7, <2>4
  <2> HIDE DEF s
  <2>8. ASSUME NEW x \in 0..(s - 2), x < e PROVE x < len
    <3>1. x \in Chars(l[o]) /\ at[o] + x = x
      BY <2>4, <2>7
    <3> QED BY <1>9, <2>8, <3>1
  <2>9. buf[(b0 + (s - 1)) % BUFFER_MAX] = 0
    <3> SUFFICES ASSUME buf[(b0 + (s - 1)) % BUFFER_MAX] # 0 PROVE FALSE
      OBVIOUS
    <3>1. s - 1 \in 0..(d0 - 1)
      BY <2>7
    <3>2. PICK j \in k..n : s - 1 \in at[j]..(at[j] + l[j].size - 2)
      BY <1>6, <3>1
    <3>3. CASE j = o
      <4>1. s - 1 \in 0..(0 + s - 2)
        BY <2>4, <3>2, <3>3 DEF s
      <4> QED BY <2>7, <4>1
    <3>4. CASE j # o
      <4>1. o < j
        BY <2>6, <3>4
      <4>2. s <= at[j] /\ at[j] \in Nat /\ at[j] <= s - 1
        BY <2>5, <3>2, <4>1 DEF s
      <4> QED BY <2>7, <4>2
    <3> QED BY <3>3, <3>4
  <2>10. len = s - 1
    <3>1. ASSUME s - 1 < len PROVE FALSE
      <4>1. s - 1 \in 0..(e - 1)
        BY <2>7, <3>1
      <4>2. (b0 + (s - 1)) % BUFFER_MAX = b0 + (s - 1) /\ buf[b0 + (s - 1)] # 0
        BY <1>8, <3>1, <4>1
      <4> QED BY <2>9, <4>2
    <3>2. ASSUME len < s - 1 PROVE FALSE
      <4>1. len \in 0..(s - 2)
        BY <2>7, <3>2
      <4>2. len < len
        BY <2>8, <4>1
      <4> QED BY <4>2
    <3> QED BY <2>7, <3>1, <3>2
  <2>11. k + 1 \in Firsts(l) /\ k <= k + 1
    BY <2>6 DEF Firsts, n
  <2>12. ASSUME NEW j \in (k + 1)..n PROVE e <= at[j]
    <3>1. j \in k..n /\ o < j
      BY <2>6
    <3>2. s <= at[j] /\ at[j] \in Nat
      BY <2>5, <3>1 DEF s
    <3>3. at[j] < e => at[j] < len
      BY <1>9, <1>10, <3>1
    <3> QED BY <2>7, <2>10, <3>2, <3>3
  <2>13. ASSUME NEW j \in k..n, NEW x \in at[j]..(at[j] + l[j].size - 2), e <= x
         PROVE  k + 1 <= j
    <3> SUFFICES ASSUME j = k PROVE FALSE
      OBVIOUS
    <3>1. x \in 0..(0 + s - 2)
      BY <2>4, <2>6 DEF s
    <3> QED BY <2>7, <2>10, <2>13, <3>1
  <2>14. Kept(l, at, k, e, k + 1)
    BY <2>12, <2>13 DEF Kept, n
  <2> QED BY <2>11, <2>14, LaidShift
<1> QED BY <1>11, <1>12

\* From t0 on there are only zeros.
Zeroed(new, buf, t0) ==
  \A x \in 0..(BUFFER_MAX - 1) : new[x] = IF x >= t0 THEN 0 ELSE buf[x]

\* Where a byte lies that is x bytes behind b0, less than twice around.
LEMMA Offset ==
  ASSUME NEW b0 \in Nat, NEW x \in Nat, b0 + x < BUFFER_MAX + BUFFER_MAX
  PROVE  /\ (b0 + x) % BUFFER_MAX \in 0..(BUFFER_MAX - 1)
         /\ b0 + x < BUFFER_MAX => (b0 + x) % BUFFER_MAX = b0 + x
         /\ b0 + x >= BUFFER_MAX => (b0 + x) % BUFFER_MAX = b0 + x - BUFFER_MAX
<1> DEFINE y == b0 + x
<1>1. y \in Nat /\ y < BUFFER_MAX + BUFFER_MAX
  OBVIOUS
<1> HIDE DEF y
<1>2. /\ y % BUFFER_MAX \in 0..(BUFFER_MAX - 1)
      /\ y < BUFFER_MAX => y % BUFFER_MAX = y
      /\ y >= BUFFER_MAX => y % BUFFER_MAX = y - BUFFER_MAX
  BY <1>1, Position, Around
<1> QED BY <1>2, QueueFacts DEF y

\* When top jumps to the beginning, the messages behind top are lost, whole, and
\* those before it stay.
LEMMA LaidWrap ==
  ASSUME NEW buf \in [0..(BUFFER_MAX - 1) -> Nat], buf[BUFFER_MAX - 1] = 0,
         NEW l \in Seq(Pushed), NEW k \in Firsts(l), NEW at \in Places(l),
         NEW b0 \in 0..(BUFFER_MAX - 1), NEW t0 \in 0..(BUFFER_MAX - 1), NEW d0 \in Nat,
         d0 < BUFFER_MAX, b0 + d0 \in {t0, t0 + BUFFER_MAX},
         Laid(buf, l, b0, d0, k, at), NEW new, Zeroed(new, buf, t0)
  PROVE  \E k2 \in Firsts(l) : Laid(new, l, b0, d0 + BUFFER_MAX - t0, k2, at)
<1> USE QueueFacts
<1> DEFINE n == Len(l)
           w == IF b0 + d0 = t0 THEN 0 ELSE BUFFER_MAX - b0
           d2 == d0 + BUFFER_MAX - t0
           S == {j \in k..(n + 1) : j = n + 1 \/ w <= at[j]}
<1>1. n \in Nat /\ k \in 1..(n + 1) /\ k \in Nat
  BY DEF Firsts
<1>2. \A j \in 1..n : at[j] \in Nat
  BY DEF Places
<1>3. \A j \in 1..n : l[j].size \in Nat /\ l[j].size >= 2 /\ Chars(l[j]) = 0..(l[j].size - 2)
                      /\ \A c \in Chars(l[j]) : Char(l[j], c + 1) # 0
  BY LogFacts
<1>w. w \in Nat /\ d2 \in Nat /\ d0 <= d2
  OBVIOUS
<1> HIDE DEF n
<1>4. /\ \A j \in k..n : at[j] + l[j].size <= d0
      /\ \A j \in k..n : \A c \in Chars(l[j]) :
           buf[(b0 + at[j] + c) % BUFFER_MAX] = Char(l[j], c + 1)
  BY DEF Laid, n
<1>5. \A i, j \in k..n : i < j => at[i] + l[i].size + 2 * (j - i - 1) <= at[j]
  BY DEF Laid, n
<1>6. \A x \in 0..(d0 - 1) : buf[(b0 + x) % BUFFER_MAX] # 0 =>
         \E j \in k..n : x \in at[j]..(at[j] + l[j].size - 2)
  BY DEF Laid, n
<1> USE <1>1
<1>7. PICK k2 \in S : \A y \in S : k2 <= y
  <2>1. S \subseteq Nat /\ n + 1 \in S
    OBVIOUS
  <2> HIDE DEF S
  <2> QED BY <2>1, LeastOf
<1>8. k2 \in Firsts(l) /\ k2 \in k..(n + 1)
  BY <1>7 DEF Firsts, n
<1>9. \A j \in k2..n : j \in k..n /\ j \in 1..n
  BY <1>8
<1>10. ASSUME NEW j \in k2..n PROVE w <= at[j]
  <2>1. k2 \in k..n /\ k2 \in 1..n /\ w <= at[k2]
    BY <1>7, <1>8
  <2> DEFINE z == l[k2].size
             g == 2 * (j - k2 - 1)
             a == at[k2]
             a2 == at[j]
  <2>2. k2 < j => a + z + g <= a2
    BY <1>5, <1>9, <2>1
  <2>3. z \in Nat /\ a \in Nat /\ a2 \in Nat /\ k2 \in Nat /\ j \in Nat
    BY <1>2, <1>3, <1>9, <2>1
  <2>4. k2 < j => g \in Nat
    BY <2>3, GapIsNat
  <2>6. k2 = j => a = a2
    OBVIOUS
  <2>7. w <= a
    BY <2>1
  <2> HIDE DEF z, g, a, a2, w
  <2>5. k2 < j => a <= a2
    BY <2>2, <2>3, <2>4
  <2>8. w <= a2
    BY <1>w, <2>3, <2>5, <2>6, <2>7
  <2> QED BY <2>8 DEF a2
<1>11. ASSUME NEW x \in 0..(d0 - 1), w <= x
       PROVE  new[(b0 + x) % BUFFER_MAX] = buf[(b0 + x) % BUFFER_MAX]
  <2> DEFINE p == (b0 + x) % BUFFER_MAX
  <2>0. b0 \in Nat /\ x \in Nat /\ b0 + x < BUFFER_MAX + BUFFER_MAX
    OBVIOUS
  <2>1. /\ p \in 0..(BUFFER_MAX - 1)
        /\ b0 + x < BUFFER_MAX => p = b0 + x
        /\ b0 + x >= BUFFER_MAX => p = b0 + x - BUFFER_MAX
    BY <2>0, Offset
  <2> HIDE DEF p
  <2>2. p < t0
    <3>1. CASE b0 + d0 = t0
      BY <2>1, <3>1
    <3>2. CASE b0 + d0 # t0
      BY <1>11, <2>1, <3>2
    <3> QED BY <3>1, <3>2
  <2>3. new[p] = buf[p]
    BY <2>1, <2>2 DEF Zeroed
  <2> QED BY <2>3 DEF p
<1>12. ASSUME NEW j \in k2..n, NEW c \in Chars(l[j])
       PROVE  new[(b0 + at[j] + c) % BUFFER_MAX] = Char(l[j], c + 1)
  <2> DEFINE a == at[j]
             z == l[j].size
  <2>1. a \in Nat /\ z \in Nat /\ c \in 0..(z - 2)
    BY <1>2, <1>3, <1>9
  <2>2. a + z <= d0 /\ w <= a
    BY <1>4, <1>9, <1>10
  <2> HIDE DEF a, z, w
  <2>3. a + c \in 0..(d0 - 1) /\ w <= a + c /\ b0 + a + c = b0 + (a + c)
    BY <1>w, <2>1, <2>2
  <2>4. buf[(b0 + a + c) % BUFFER_MAX] = Char(l[j], c + 1)
    BY <1>4, <1>9 DEF a
  <2>5. new[(b0 + a + c) % BUFFER_MAX] = Char(l[j], c + 1)
    BY <1>11, <2>3, <2>4
  <2> QED BY <2>5 DEF a
<1>13. ASSUME NEW x \in 0..(d2 - 1), new[(b0 + x) % BUFFER_MAX] # 0
       PROVE  \E j \in k2..n : x \in at[j]..(at[j] + l[j].size - 2)
  <2> DEFINE p == (b0 + x) % BUFFER_MAX
  <2>1. b0 \in Nat /\ x \in Nat /\ x < d2 /\ b0 + x < BUFFER_MAX + BUFFER_MAX
    OBVIOUS
  <2>2. /\ p \in 0..(BUFFER_MAX - 1)
        /\ b0 + x < BUFFER_MAX => p = b0 + x
        /\ b0 + x >= BUFFER_MAX => p = b0 + x - BUFFER_MAX
    BY <2>1, Offset
  <2>3. new[p] # 0
    BY <1>13
  <2> HIDE DEF p
  <2>4. p < t0 /\ buf[p] # 0
    BY <2>2, <2>3 DEF Zeroed
  <2>5. x < d0 /\ w <= x
    <3>1. CASE b0 + d0 = t0
      BY <2>1, <2>2, <2>4, <3>1
    <3>2. CASE b0 + d0 = t0 + BUFFER_MAX
      BY <2>1, <2>2, <2>4, <3>2
    <3> QED BY <3>1, <3>2
  <2>6. x \in 0..(d0 - 1) /\ buf[(b0 + x) % BUFFER_MAX] # 0
    BY <2>1, <2>4, <2>5 DEF p
  <2>7. PICK j \in k..n : x \in at[j]..(at[j] + l[j].size - 2)
    BY <1>6, <2>6
  <2> DEFINE a == at[j]
             z == l[j].size
  <2>8. a \in Nat /\ z \in Nat /\ Chars(l[j]) = 0..(z - 2) /\ x \in a..(a + z - 2)
    BY <1>2, <1>3, <2>7
  <2>9. w <= a
    <3> SUFFICES ASSUME a < w PROVE FALSE
      <4> HIDE DEF a, w
      <4> QED BY <1>w, <2>8
    <3> DEFINE c == BUFFER_MAX - 1 - b0 - a
    <3> HIDE DEF a, z
    <3>1. w = BUFFER_MAX - b0
      BY <2>8
    <3>2. c \in 0..(z - 2) /\ b0 + a + c = BUFFER_MAX - 1
      BY <2>5, <2>8, <3>1
    <3>3. (BUFFER_MAX - 1) % BUFFER_MAX = BUFFER_MAX - 1
      BY Around
    <3>4. c \in Chars(l[j])
      BY <2>8, <3>2
    <3>5. buf[(b0 + a + c) % BUFFER_MAX] # 0
      <4> HIDE DEF c
      <4>1. buf[(b0 + a + c) % BUFFER_MAX] = Char(l[j], c + 1)
        BY <1>4, <3>4 DEF a
      <4>2. j \in 1..n
        OBVIOUS
      <4> QED BY <1>3, <3>4, <4>1, <4>2
    <3> QED BY <3>2, <3>3, <3>5
  <2>10. j \in S
    BY <2>9
  <2>11. j \in k2..n
    BY <1>7, <1>8, <2>10
  <2> QED BY <2>7, <2>11
<1>14. \A j \in k2..n : at[j] + l[j].size <= d2
  <2> SUFFICES ASSUME NEW j \in k2..n PROVE at[j] + l[j].size <= d2
    OBVIOUS
  <2> DEFINE a == at[j]
             z == l[j].size
  <2>1. a \in Nat /\ z \in Nat /\ a + z <= d0
    BY <1>2, <1>3, <1>4, <1>9
  <2> HIDE DEF a, z, d2
  <2>2. a + z <= d2
    BY <1>w, <2>1
  <2> QED BY <2>2 DEF a, z
<1>15. \A i, j \in k2..n : i < j => at[i] + l[i].size + 2 * (j - i - 1) <= at[j]
  BY <1>5, <1>9
<1> HIDE DEF S, w
<1>16. Laid(new, l, b0, d2, k2, at)
  BY <1>12, <1>13, <1>14, <1>15 DEF Laid, n
<1> QED BY <1>8, <1>16

\* The messages in the buffer take two bytes each at least.
LEMMA LaidCount ==
  ASSUME NEW buf, NEW l \in Seq(Pushed), NEW k \in Firsts(l), NEW at \in Places(l),
         NEW b0, NEW d0 \in Nat, Laid(buf, l, b0, d0, k, at)
  PROVE  2 * (Len(l) + 1 - k) <= d0
<1> DEFINE n == Len(l)
           a == at[n]
           y == l[n].size
<1>1. n \in Nat /\ k \in 1..(n + 1)
  BY DEF Firsts
<1>2. CASE k = n + 1
  BY <1>1, <1>2
<1>3. CASE k # n + 1
  <2>1. n \in k..n /\ k \in k..n /\ n \in 1..n /\ k \in 1..n
    BY <1>1, <1>3
  <2>2. a \in Nat /\ y \in Nat /\ y >= 2
    BY <2>1, LogFacts DEF Places
  <2>3. at[k] \in Nat /\ l[k].size \in Nat /\ l[k].size >= 2
    BY <2>1, LogFacts DEF Places
  <2>4. a + y <= d0
    BY <2>1 DEF Laid
  <2>5. CASE k = n
    <3> HIDE DEF a, y, n
    <3>1. 2 * (n + 1 - k) = 2
      BY <1>1, <2>5
    <3>2. 2 * (n + 1 - k) <= d0
      BY <2>2, <2>4, <3>1
    <3> QED BY <3>2 DEF n
  <2>6. CASE k # n
    <3> DEFINE e == at[k]
               z == l[k].size
               g == 2 * (n - k - 1)
               h == 2 * (n + 1 - k)
    <3>1. e + z + g <= a
      BY <1>1, <2>1, <2>6 DEF Laid
    <3> HIDE DEF n
    <3>2. h = g + 4 /\ g \in Int
      BY <1>1
    <3>3. e \in Nat /\ z \in Nat /\ z >= 2
      BY <2>3
    <3> HIDE DEF e, z, g, h, a, y
    <3>4. h <= d0
      BY <2>2, <2>4, <3>1, <3>2, <3>3
    <3> QED BY <3>4 DEF h, n
  <2> QED BY <2>5, <2>6
<1> QED BY <1>2, <1>3

\* Messages of the log that are not in the buffer may be forgotten.
LEMMA LaidDrop ==
  ASSUME NEW buf, NEW l \in Seq(Pushed), NEW k \in Firsts(l), NEW at \in Places(l),
         NEW b0, NEW d0, Laid(buf, l, b0, d0, k, at),
         NEW r \in Seq(Pushed), NEW drop \in 0..Len(l), drop < k,
         Len(r) = Len(l) - drop, \A j \in 1..(Len(l) - drop) : r[j] = l[j + drop]
  PROVE  /\ k - drop \in Firsts(r)
         /\ \E at2 \in Places(r) : Laid(buf, r, b0, d0, k - drop, at2)
<1> DEFINE n == Len(l)
           o == Len(r)
           at2 == [j \in 1..o |-> at[j + drop]]
<1>1. /\ n \in Nat /\ o \in Nat /\ o = n - drop /\ drop \in Nat
      /\ k \in 1..(n + 1) /\ k - drop \in 1..(o + 1)
  BY DEF Firsts
<1>2. \A j \in 1..o : r[j] = l[j + drop] /\ at2[j] = at[j + drop]
  OBVIOUS
<1>3. at2 \in Places(r)
  BY <1>1 DEF Places
<1> HIDE DEF n, o, at2
<1>4. \A j \in (k - drop)..o : j \in 1..o /\ j + drop \in k..n
  BY <1>1
<1>5. /\ \A j \in k..n : at[j] + l[j].size <= d0
      /\ \A j \in k..n : \A c \in Chars(l[j]) :
           buf[(b0 + at[j] + c) % BUFFER_MAX] = Char(l[j], c + 1)
  BY DEF Laid, n
<1>6. \A i, j \in k..n : i < j => at[i] + l[i].size + 2 * (j - i - 1) <= at[j]
  BY DEF Laid, n
<1>7. \A x \in 0..(d0 - 1) : buf[(b0 + x) % BUFFER_MAX] # 0 =>
         \E j \in k..n : x \in at[j]..(at[j] + l[j].size - 2)
  BY DEF Laid, n
<1>8. /\ \A j \in (k - drop)..o : at2[j] + r[j].size <= d0
      /\ \A j \in (k - drop)..o : \A c \in Chars(r[j]) :
           buf[(b0 + at2[j] + c) % BUFFER_MAX] = Char(r[j], c + 1)
  BY <1>2, <1>4, <1>5
<1>9. ASSUME NEW i \in (k - drop)..o, NEW j \in (k - drop)..o, i < j
      PROVE  at2[i] + r[i].size + 2 * (j - i - 1) <= at2[j]
  <2>1. i + drop < j + drop /\ (j + drop) - (i + drop) - 1 = j - i - 1
    BY <1>1, <1>9
  <2>2. at[i + drop] + l[i + drop].size + 2 * ((j + drop) - (i + drop) - 1) <= at[j + drop]
    BY <1>4, <1>6, <2>1
  <2> QED BY <1>2, <1>4, <2>1, <2>2
<1>10. ASSUME NEW x \in 0..(d0 - 1), buf[(b0 + x) % BUFFER_MAX] # 0
       PROVE  \E j \in (k - drop)..o : x \in at2[j]..(at2[j] + r[j].size - 2)
  <2>1. PICK j \in k..n : x \in at[j]..(at[j] + l[j].size - 2)
    BY <1>7, <1>10
  <2>2. j - drop \in (k - drop)..o /\ (j - drop) + drop = j
    BY <1>1
  <2>3. at2[j - drop] = at[j] /\ r[j - drop] = l[j]
    BY <1>2, <1>4, <2>2
  <2> QED BY <2>1, <2>2, <2>3
<1>11. Laid(buf, r, b0, d0, k - drop, at2)
  BY <1>8, <1>9, <1>10 DEF Laid, o
<1> QED BY <1>1, <1>3, <1>11 DEF Firsts, o

-----------------------------------------------------------------------------

\* The empty queue.
LEMMA InitContent == Init => ContentInv
<1> SUFFICES ASSUME Init PROVE ContentInv
  OBVIOUS
<1>1. log = <<>> /\ distance = 0 /\ pc = "idle" /\ Len(log) = 0
  BY DEF Init
<1>2. 1 \in Firsts(log) /\ [j \in 1..0 |-> 0] \in Places(log)
  BY <1>1 DEF Firsts, Places
<1>3. Laid(buffer, log, bottom, distance, 1, [j \in 1..0 |-> 0])
  BY <1>1 DEF Laid
<1> QED BY <1>1, <1>2, <1>3 DEF ContentInv

\* A message is pushed: the part of the buffer in front of its end is given up, or
\* nothing happens yet.
LEMMA PushContent ==
  ASSUME RingInv, ContentInv, NEW m \in Message, msgq_strpush(m)
  PROVE  ContentInv'
<1>1. pc = "idle" /\ pc' = "push" /\ b' = bottom /\ log' = log
  BY DEF msgq_strpush
<1>2. PICK k \in Firsts(log), at \in Places(log) : Laid(buffer, log, bottom, distance, k, at)
  BY <1>1 DEF ContentInv
<1>3. /\ bottom \in 0..(BUFFER_MAX - 1) /\ top \in 0..(BUFFER_MAX - 1) /\ distance \in Nat
      /\ bottom + distance \in {top, top + BUFFER_MAX, top + BUFFER_MAX + BUFFER_MAX}
      /\ distance < BUFFER_MAX /\ log \in Seq(Pushed)
      /\ buffer \in [0..(BUFFER_MAX - 1) -> Nat] /\ buffer[BUFFER_MAX - 1] = 0
  BY <1>1 DEF RingInv, Frame
<1>4. CASE Wraps(m.size)
  <2>1. /\ d' = distance + BUFFER_MAX - top
        /\ buffer' = [x \in DOMAIN buffer |-> IF x >= top THEN 0 ELSE buffer[x]]
    BY <1>4 DEF msgq_strpush
  <2>2. Zeroed(buffer', buffer, top)
    BY <1>3, <2>1 DEF Zeroed
  <2>3. bottom + distance \in {top, top + BUFFER_MAX}
    BY <1>3, QueueFacts
  <2>4. PICK new : new = buffer'
    OBVIOUS
  <2>5. PICK k2 \in Firsts(log) : Laid(new, log, bottom, distance + BUFFER_MAX - top, k2, at)
    BY <1>2, <1>3, <2>2, <2>3, <2>4, LaidWrap
  <2>6. Laid(buffer', log', b', d', k2, at)
    BY <1>1, <2>1, <2>4, <2>5
  <2> QED BY <1>1, <2>5, <2>6 DEF ContentInv
<1>5. CASE ~Wraps(m.size)
  <2>1. d' = distance /\ buffer' = buffer
    BY <1>5 DEF msgq_strpush
  <2>2. Laid(buffer', log', b', d', k, at)
    BY <1>1, <1>2, <2>1
  <2> QED BY <1>1, <1>2, <2>2 DEF ContentInv
<1> QED BY <1>4, <1>5

\* Making room takes the oldest message away, whole.
LEMMA EvictContent ==
  ASSUME RingInv, ContentInv, Evict, BUFFER_MAX \notin Sizes
  PROVE  ContentInv'
<1>1. pc = "push" /\ pc' = "push" /\ log' = log /\ buffer' = buffer
  BY DEF Evict
<1>2. PICK k \in Firsts(log), at \in Places(log) : Laid(buffer, log, b, d, k, at)
  BY <1>1 DEF ContentInv
<1>3. /\ b \in 0..(BUFFER_MAX - 1) /\ d \in Nat /\ t \in Nat /\ log \in Seq(Pushed)
      /\ msg.size # BUFFER_MAX
  BY <1>1 DEF RingInv, Frame, Message
<1>4. PICK e \in Nat : /\ Strlen(b) < e /\ e <= d /\ b + e <= BUFFER_MAX
                       /\ d' = d - e /\ b' = (b + e) % BUFFER_MAX
                       /\ \A m \in Strlen(b)..(e - 1) : buffer[b + m] = 0
  <2>1. buffer[0] # 0 /\ b + d >= t + BUFFER_MAX
    BY <1>1, <1>3, FullMeans DEF Evict
  <2>2. PICK e \in Nat : /\ Strlen(b) < e /\ b + e <= BUFFER_MAX
                         /\ d' = d - e /\ b' = (b + e) % BUFFER_MAX
                         /\ \A m \in Strlen(b)..(e - 1) : buffer[b + m] = 0
    BY <2>1, EvictEffect
  <2>3. e <= d
    BY <1>3, <2>1, <2>2, QueueFacts
  <2> QED BY <2>2, <2>3
<1>5. PICK len \in Nat : len = Strlen(b)
  BY <1>3, StrlenIs
<1>6. Word(buffer, b, len, e)
  BY <1>3, <1>4, <1>5, StrlenIs DEF Word
<1>7. b \in Nat /\ len < e
  BY <1>3, <1>4, <1>5, QueueFacts
<1>8. PICK k2 \in Firsts(log), at2 \in Places(log) :
        Laid(buffer, log, (b + e) % BUFFER_MAX, d - e, k2, at2)
  BY <1>2, <1>3, <1>4, <1>6, <1>7, LaidEvict
<1>9. Laid(buffer', log', b', d', k2, at2)
  BY <1>1, <1>4, <1>8
<1> QED BY <1>1, <1>8, <1>9 DEF ContentInv

\* The message goes behind the others; the log remembers all that are still in
\* the buffer.
LEMMA CommitContent ==
  ASSUME RingInv, ContentInv, Commit, BUFFER_MAX \notin Sizes
  PROVE  ContentInv'
<1>1. /\ pc = "push" /\ ~Full /\ pc' = "idle" /\ bottom' = b /\ distance' = d + msg.size
      /\ log' = Recent(Append(log, msg))
      /\ buffer' = [x \in DOMAIN buffer |->
                      CASE x \in t..(t + msg.size - 2) -> Char(msg, x - t + 1)
                        [] x = t + msg.size - 1        -> 0
                        [] OTHER                       -> buffer[x]]
  BY DEF Commit
<1>2. PICK k \in Firsts(log), at \in Places(log) : Laid(buffer, log, b, d, k, at)
  BY <1>1 DEF ContentInv
<1>3. /\ b \in 0..(BUFFER_MAX - 1) /\ t \in 0..(BUFFER_MAX - 1) /\ d \in Nat
      /\ b + d \in {t, t + BUFFER_MAX, t + BUFFER_MAX + BUFFER_MAX}
      /\ t + msg.size < BUFFER_MAX /\ msg.size >= 2 /\ msg.size \in Nat
      /\ log \in Seq(Pushed) /\ Len(log) <= BUFFER_MAX \div 2
      /\ buffer \in [0..(BUFFER_MAX - 1) -> Nat] /\ msg \in Pushed
  BY <1>1, QueueFacts DEF RingInv, Frame, Message, Pushed
<1>4. d + msg.size < BUFFER_MAX /\ b + d \in {t, t + BUFFER_MAX}
  <2> DEFINE z == msg.size
  <2>1. z \in Nat /\ ~(d + z >= BUFFER_MAX)
    BY <1>1, <1>3 DEF Full
  <2> HIDE DEF z
  <2>2. d + z < BUFFER_MAX /\ d < BUFFER_MAX
    BY <1>3, <2>1, QueueFacts
  <2>3. b + d # t + BUFFER_MAX + BUFFER_MAX
    BY <1>3, <2>2, QueueFacts
  <2> QED BY <1>3, <2>2, <2>3 DEF z
<1>5. Fits(msg, b, d, t)
  BY <1>3, <1>4 DEF Fits
<1>6. Written(buffer', buffer, msg, t)
  <2> DEFINE s == msg.size
  <2>1. s \in Nat /\ s >= 2 /\ t + s < BUFFER_MAX
    BY <1>3
  <2>2. buffer' = [x \in 0..(BUFFER_MAX - 1) |->
                      CASE x \in t..(t + s - 2) -> Char(msg, x - t + 1)
                        [] x = t + s - 1        -> 0
                        [] OTHER                -> buffer[x]]
    BY <1>1, <1>3
  <2> HIDE DEF s
  <2>3. ASSUME NEW c \in 0..(s - 2) PROVE buffer'[t + c] = Char(msg, c + 1)
    <3>1. t + c \in 0..(BUFFER_MAX - 1) /\ t + c \in t..(t + s - 2) /\ (t + c) - t + 1 = c + 1
      BY <1>3, <2>1, QueueFacts
    <3>2. PICK x \in 0..(BUFFER_MAX - 1) : x = t + c
      BY <3>1
    <3>3. x \in t..(t + s - 2) /\ x # t + s - 1 /\ x - t + 1 = c + 1
      BY <1>3, <2>1, <3>1, <3>2
    <3>4. buffer'[x] = Char(msg, x - t + 1)
      BY <2>2, <3>3
    <3> QED BY <3>2, <3>3, <3>4
  <2>4. buffer'[t + s - 1] = 0
    <3>1. PICK x \in 0..(BUFFER_MAX - 1) : x = t + s - 1 /\ x \notin t..(t + s - 2)
      BY <1>3, <2>1, QueueFacts
    <3>2. buffer'[x] = 0
      BY <2>2, <3>1
    <3> QED BY <3>1, <3>2
  <2>5. ASSUME NEW x \in 0..(BUFFER_MAX - 1), x \notin t..(t + s - 1)
        PROVE  buffer'[x] = buffer[x]
    <3>1. x \notin t..(t + s - 2) /\ x # t + s - 1
      BY <1>3, <2>1, <2>5, QueueFacts
    <3> QED BY <2>2, <3>1
  <2> QED BY <2>3, <2>4, <2>5 DEF Written, s
<1>7. PICK new : new = buffer'
  OBVIOUS
<1>8. PICK at2 \in Places(Append(log, msg)) :
        Laid(new, Append(log, msg), b, d + msg.size, k, at2)
  BY <1>2, <1>3, <1>5, <1>6, <1>7, LaidCommit
<1> DEFINE l == Append(log, msg)
           r == Recent(l)
<1>9. /\ l \in Seq(Pushed) /\ Len(l) = Len(log) + 1 /\ k \in Firsts(l) /\ k <= Len(l)
      /\ Len(log) \in Nat /\ k \in Nat /\ k > 0
  BY <1>3 DEF Firsts
<1>10. PICK drop \in 0..Len(l) :
         /\ Len(r) = Len(l) - drop /\ \A j \in 1..(Len(l) - drop) : r[j] = l[j + drop]
         /\ drop = IF Len(l) > BUFFER_MAX \div 2 THEN Len(l) - BUFFER_MAX \div 2 ELSE 0
  BY <1>9, RecentType
<1>11. r \in Seq(Pushed)
  BY <1>9, RecentType
<1>12. drop < k
  <2> DEFINE h == BUFFER_MAX \div 2
             z == d + msg.size
             n == Len(l)
  <2>1. 2 * (n + 1 - k) <= z /\ z \in Nat /\ z < BUFFER_MAX
    <3>1. z \in Nat /\ z < BUFFER_MAX
      BY <1>3, <1>4
    <3> HIDE DEF l
    <3> QED BY <1>8, <1>9, <3>1, LaidCount DEF l
  <2>2. h \in Nat /\ BUFFER_MAX <= 2 * h + 1
    BY QueueFacts
  <2>3. n \in Nat /\ drop = IF n > h THEN n - h ELSE 0
    BY <1>9, <1>10
  <2> HIDE DEF h, z, n, l
  <2> QED BY <1>9, <2>1, <2>2, <2>3, QueueFacts
<1> HIDE DEF l, r
<1>13. k - drop \in Firsts(r) /\ \E at3 \in Places(r) :
         Laid(new, r, b, d + msg.size, k - drop, at3)
  BY <1>8, <1>9, <1>10, <1>11, <1>12, LaidDrop DEF l
<1>14. PICK at3 \in Places(r) : Laid(new, r, b, d + msg.size, k - drop, at3)
  BY <1>13
<1>15. k - drop <= Len(r) /\ log' = r
  BY <1>1, <1>9, <1>10, <1>12 DEF l, r
<1>16. Laid(buffer', log', bottom', distance', k - drop, at3)
  BY <1>1, <1>7, <1>14, <1>15
<1> QED BY <1>1, <1>13, <1>14, <1>15, <1>16 DEF ContentInv

\* Every step keeps whole messages in the buffer.
LEMMA NextContent ==
  ASSUME BUFFER_MAX \notin Sizes
  PROVE  RingInv /\ ContentInv /\ [Next]_vars => ContentInv'
<1> SUFFICES ASSUME RingInv, ContentInv, [Next]_vars PROVE ContentInv'
  OBVIOUS
<1>1. CASE UNCHANGED vars
  BY <1>1 DEF ContentInv, vars, queueVars
<1> QED BY <1>1, PushContent, EvictContent, CommitContent DEF Next, Push

\* Between pushes the reader prints whole messages, the newest ones, in order and
\* without a gap, whatever the sizes of the buffer and of the messages, if none
\* of them has exactly the size of the buffer (msgq_strpush, msgq_print).
THEOREM NewestPrinted ==
  ASSUME BUFFER_MAX \notin Sizes
  PROVE  Spec => []PrintsNewest
<1>1. ASSUME RingInv, ContentInv, pc = "idle", log # <<>>
      PROVE  \E k \in DOMAIN log : Shows(msgq_print, SubSeq(log, k, Len(log)))
  <2>1. PICK k \in Firsts(log), at \in Places(log) :
          Laid(buffer, log, bottom, distance, k, at) /\ k <= Len(log)
    BY <1>1 DEF ContentInv
  <2>2. /\ bottom \in 0..(BUFFER_MAX - 1) /\ distance \in Nat /\ log \in Seq(Pushed)
    BY <1>1 DEF RingInv, Frame
  <2> DEFINE n == Len(log)
             o == n - k + 1
             ms == SubSeq(log, k, n)
             bytes == msgq_print
             at2 == [i \in 1..o |-> at[i + k - 1] + 1]
  <2>3. n \in Nat /\ k \in 1..n /\ o \in Nat /\ k \in DOMAIN log
    BY <2>1, <2>2 DEF Firsts
  <2>4. Len(ms) = o /\ DOMAIN ms = 1..o /\ \A i \in 1..o : ms[i] = log[i + k - 1]
    BY <2>2, <2>3
  <2>5. /\ DOMAIN bytes = 1..distance /\ Len(bytes) = distance
        /\ \A x \in 1..distance : bytes[x] = buffer[(bottom + (x - 1)) % BUFFER_MAX]
    <3>1. \A x \in 1..distance : bottom + x - 1 = bottom + (x - 1)
      BY <2>2, QueueFacts
    <3> QED BY <2>2, <3>1 DEF msgq_print
  <2>6. /\ \A j \in k..n : at[j] + log[j].size <= distance
        /\ \A j \in k..n : \A c \in Chars(log[j]) :
             buffer[(bottom + at[j] + c) % BUFFER_MAX] = Char(log[j], c + 1)
    BY <2>1 DEF Laid
  <2>7. \A i, j \in k..n : i < j => at[i] + log[i].size + 2 * (j - i - 1) <= at[j]
    BY <2>1 DEF Laid
  <2>8. \A x \in 0..(distance - 1) : buffer[(bottom + x) % BUFFER_MAX] # 0 =>
           \E j \in k..n : x \in at[j]..(at[j] + log[j].size - 2)
    BY <2>1 DEF Laid
  <2>9. \A j \in k..n : /\ at[j] \in Nat /\ log[j].size \in Nat /\ log[j].size >= 2
                        /\ Chars(log[j]) = 0..(log[j].size - 2)
    BY <2>2, <2>3, LogFacts DEF Places
  <2> HIDE DEF n, ms, bytes, o
  <2> USE <2>3, QueueFacts
  <2>10. \A i \in 1..o : /\ i + k - 1 \in k..n /\ ms[i] = log[i + k - 1]
                         /\ at2[i] = at[i + k - 1] + 1
    BY <2>4 DEF o
  <2> HIDE DEF at2
  <2>11. ASSUME NEW i \in 1..o
         PROVE  /\ at2[i] \in 1..distance /\ at2[i] + ms[i].size - 1 <= distance
                /\ \A c \in 1..(ms[i].size - 1) : bytes[at2[i] + c - 1] = Char(ms[i], c)
    <3> DEFINE j == i + k - 1
               a == at[j]
               z == log[j].size
    <3>1. /\ a \in Nat /\ z \in Nat /\ z >= 2 /\ a + z <= distance /\ Chars(log[j]) = 0..(z - 2)
          /\ \A c \in Chars(log[j]) : buffer[(bottom + a + c) % BUFFER_MAX] = Char(log[j], c + 1)
      BY <2>6, <2>9, <2>10
    <3>2. at2[i] = a + 1 /\ ms[i].size = z /\ ms[i] = log[j]
      BY <2>10
    <3> HIDE DEF j, a, z
    <3>3. a + 1 \in 1..distance /\ a + 1 + z - 1 <= distance
      BY <2>2, <3>1
    <3>4. ASSUME NEW c \in 1..(z - 1) PROVE bytes[a + 1 + c - 1] = Char(log[j], c)
      <4>1. /\ c - 1 \in 0..(z - 2) /\ (c - 1) + 1 = c /\ a + 1 + c - 1 \in 1..distance
            /\ bottom + ((a + 1 + c - 1) - 1) = bottom + a + (c - 1)
        BY <2>2, <3>1
      <4>2. buffer[(bottom + a + (c - 1)) % BUFFER_MAX] = Char(log[j], c)
        BY <3>1, <4>1
      <4> QED BY <2>5, <4>1, <4>2
    <3> QED BY <3>2, <3>3, <3>4
  <2>12. ASSUME NEW i \in 1..o, NEW j \in 1..o, i < j
         PROVE  at2[i] + ms[i].size <= at2[j]
    <3> DEFINE i2 == i + k - 1
               j2 == j + k - 1
               a == at[i2]
               z == log[i2].size
               a2 == at[j2]
               g == 2 * (j2 - i2 - 1)
    <3>1. i2 \in k..n /\ j2 \in k..n /\ i2 < j2
      BY <2>10, <2>12
    <3>2. a + z + g <= a2 /\ a \in Nat /\ z \in Nat /\ a2 \in Nat
      BY <2>7, <2>9, <3>1
    <3>3. at2[i] = a + 1 /\ ms[i].size = z /\ at2[j] = a2 + 1
      BY <2>10
    <3> HIDE DEF i2, j2
    <3>4. g \in Nat
      BY <3>1
    <3> HIDE DEF a, z, a2, g
    <3> QED BY <3>2, <3>3, <3>4
  <2>13. ASSUME NEW x \in 1..distance, bytes[x] # 0
         PROVE  \E i \in 1..o : x \in at2[i]..(at2[i] + ms[i].size - 2)
    <3>1. x - 1 \in 0..(distance - 1) /\ buffer[(bottom + (x - 1)) % BUFFER_MAX] # 0
      BY <2>2, <2>5, <2>13
    <3>2. PICK j \in k..n : x - 1 \in at[j]..(at[j] + log[j].size - 2)
      BY <2>8, <3>1
    <3> DEFINE i == j - k + 1
               a == at[j]
               z == log[j].size
    <3>3. i \in 1..o /\ i + k - 1 = j
      BY DEF o
    <3>4. at2[i] = a + 1 /\ ms[i].size = z
      BY <2>10, <3>3
    <3>5. a \in Nat /\ z \in Nat
      BY <2>9
    <3>6. x - 1 \in a..(a + z - 2)
      BY <3>2
    <3> HIDE DEF i, a, z
    <3>7. x \in (a + 1)..(a + 1 + z - 2)
      BY <2>2, <3>5, <3>6
    <3> QED BY <3>3, <3>4, <3>7
  <2>14. at2 \in [DOMAIN ms -> DOMAIN bytes]
    <3>1. at2 = [i \in 1..o |-> at2[i]]
      BY DEF at2
    <3>2. \A i \in 1..o : at2[i] \in 1..distance
      BY <2>11
    <3> HIDE DEF at2
    <3> QED BY <2>4, <2>5, <3>1, <3>2
  <2>15. Shows(bytes, ms)
    <3>1. \A i \in DOMAIN ms :
             /\ at2[i] + ms[i].size - 1 <= Len(bytes)
             /\ \A c \in 1..(ms[i].size - 1) : bytes[at2[i] + c - 1] = Char(ms[i], c)
      BY <2>4, <2>5, <2>11
    <3>2. \A i, j \in DOMAIN ms : i < j => at2[i] + ms[i].size <= at2[j]
      BY <2>4, <2>12
    <3>3. \A x \in DOMAIN bytes : bytes[x] # 0 =>
             \E i \in DOMAIN ms : x \in at2[i]..(at2[i] + ms[i].size - 2)
      BY <2>4, <2>5, <2>13
    <3> QED BY <2>14, <3>1, <3>2, <3>3, Zenon DEF Shows
  <2> QED BY <2>15 DEF bytes, ms, n
<1>2. RingInv /\ ContentInv => PrintsNewest
  BY <1>1 DEF PrintsNewest
<1> QED BY <1>2, InitRing, NextRing, InitContent, NextContent, PTL DEF Spec

=============================================================================
