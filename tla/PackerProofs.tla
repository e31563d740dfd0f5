---------------------------- MODULE PackerProofs ----------------------------
(***************************************************************************)
(* What ulp packer writes is what ulp trigger and libpulp.so read, for     *)
(* every description, every size of the numbers and of the buffer, every   *)
(* write that is cut short and every step of the packer that fails.        *)
(***************************************************************************)
EXTENDS Packer, SequenceTheorems, NaturalsInduction, WellFoundedInduction, TLAPS

-----------------------------------------------------------------------------
(***************************************************************************)
(* Induction, and functions that are defined by recursion.                 *)
(***************************************************************************)

\* Every non-empty set of natural numbers has a least element.
LEMMA SmallestNumber ==
  ASSUME NEW S, S \subseteq Nat, S # {}
  PROVE  \E x \in S : \A y \in S : x <= y
<1> DEFINE R == OpToRel(<, Nat)
<1>1. IsWellFoundedOn(R, Nat)
  BY NatLessThanWellFounded
<1>2. \A x, y \in Nat : x < y => <<x, y>> \in R
  BY DEF OpToRel
<1> HIDE DEF R
<1>3. PICK x \in S : \A y \in S : ~(<<y, x>> \in R)
  BY <1>1, WFMin
<1>4. ASSUME NEW y \in S PROVE x <= y
  <2>1. x \in Nat /\ y \in Nat
    OBVIOUS
  <2>2. ~(y < x)
    BY <1>2, <1>3, <2>1
  <2> QED BY <2>1, <2>2
<1> QED BY <1>4

\* Induction, for a property that is given as the set of numbers that have it.
LEMMA Induction ==
  ASSUME NEW S, 0 \in S, \A n \in Nat : n \in S => n + 1 \in S
  PROVE  Nat \subseteq S
<1> SUFFICES ASSUME NEW k \in Nat, k \notin S
             PROVE  FALSE
  OBVIOUS
<1> DEFINE D == Nat \ S
<1>1. PICK x \in D : \A y \in D : x <= y
  BY SmallestNumber
<1>2. x \in Nat /\ x # 0
  OBVIOUS
<1>3. x - 1 \in Nat /\ x - 1 \notin D
  BY <1>1, <1>2
<1>4. (x - 1) + 1 \in S
  BY <1>3
<1> QED BY <1>2, <1>4

\* The values of f along 0..n are in S, and step i computes them with g[i].
Steps(g, n, S) == \A i \in 1..n : \A x \in S : g[i][x] \in S

Solves(f, g, n, a, S) ==
  f \in [0..n -> S] /\ f[0] = a /\ \A i \in 1..n : f[i] = g[i][f[i - 1]]

\* The recursion along 0..n with the steps g has a solution.
LEMMA Recursion ==
  ASSUME NEW S, NEW a \in S, NEW n \in Nat, NEW g, Steps(g, n, S)
  PROVE  \E f : Solves(f, g, n, a, S)
<1> DEFINE P == {k \in Nat : k <= n =>
                   \E f \in [0..k -> S] : f[0] = a /\ \A i \in 1..k : f[i] = g[i][f[i - 1]]}
<1>1. 0 \in P
  <2> DEFINE f == [i \in 0..0 |-> a]
  <2>1. f \in [0..0 -> S] /\ f[0] = a /\ \A i \in 1..0 : f[i] = g[i][f[i - 1]]
    OBVIOUS
  <2> QED BY <2>1
<1>2. ASSUME NEW k \in Nat, k \in P PROVE k + 1 \in P
  <2> SUFFICES ASSUME k + 1 <= n
               PROVE  \E f \in [0..(k + 1) -> S] :
                        f[0] = a /\ \A i \in 1..(k + 1) : f[i] = g[i][f[i - 1]]
    OBVIOUS
  <2>1. PICK f \in [0..k -> S] : f[0] = a /\ \A i \in 1..k : f[i] = g[i][f[i - 1]]
    BY <1>2
  <2> DEFINE h == [i \in 0..(k + 1) |-> IF i <= k THEN f[i] ELSE g[k + 1][f[k]]]
  <2>2. g[k + 1][f[k]] \in S
    <3>1. k + 1 \in 1..n /\ f[k] \in S
      OBVIOUS
    <3> QED BY <3>1 DEF Steps
  <2>3. h \in [0..(k + 1) -> S]
    BY <2>2
  <2>4. h[0] = a
    BY <2>1
  <2>5. ASSUME NEW i \in 1..(k + 1) PROVE h[i] = g[i][h[i - 1]]
    <3>1. CASE i <= k
      <4>1. i \in 1..k /\ i - 1 \in 0..k
        BY <3>1
      <4>2. h[i] = f[i] /\ h[i - 1] = f[i - 1]
        BY <4>1
      <4> QED BY <2>1, <4>1, <4>2
    <3>2. CASE i = k + 1
      <4>1. h[i] = g[k + 1][f[k]] /\ h[i - 1] = f[k]
        BY <3>2
      <4> QED BY <3>2, <4>1
    <3> QED BY <3>1, <3>2
  <2> QED BY <2>3, <2>4, <2>5
<1> HIDE DEF P
<1>3. Nat \subseteq P
  BY <1>1, <1>2, Induction
<1> QED BY <1>3 DEF P, Solves

\* A solution of the recursion stays in the set that the steps stay in.
LEMMA RecursionType ==
  ASSUME NEW S, NEW n \in Nat, NEW f, f[0] \in S,
         \A i \in 1..n : f[i - 1] \in S => f[i] \in S
  PROVE  \A i \in 0..n : f[i] \in S
<1> DEFINE P == {k \in Nat : k <= n => f[k] \in S}
<1>1. 0 \in P
  OBVIOUS
<1>2. ASSUME NEW k \in Nat, k \in P PROVE k + 1 \in P
  BY <1>2
<1> HIDE DEF P
<1>3. Nat \subseteq P
  BY <1>1, <1>2, Induction
<1> QED BY <1>3 DEF P

-----------------------------------------------------------------------------
(***************************************************************************)
(* Numbers and their bytes.                                                *)
(***************************************************************************)

\* What the assumptions on the constants say.
LEMMA Sizes ==
  /\ Base \in Nat /\ Base > 1 /\ NumLen \in Nat /\ NumLen > 1
  /\ AddrLen \in Nat /\ AddrLen > 0 /\ IdLen = 2 /\ BufLen \in Nat
BY MetadataAssumption, PackerAssumption

\* Division by the number of values of a byte.
LEMMA Division ==
  ASSUME NEW n \in Nat
  PROVE  /\ n \div Base \in Nat /\ n % Base \in 0..(Base - 1)
         /\ n = (n % Base) + Base * (n \div Base)
BY Sizes

\* The recursive definition of Shifted has a solution.
LEMMA ShiftedIs ==
  ASSUME NEW n \in Nat, NEW size \in Nat
  PROVE  /\ Shifted(n, size) \in [0..size -> Nat]
         /\ Shifted(n, size)[0] = n
         /\ \A i \in 1..size : Shifted(n, size)[i] = Shifted(n, size)[i - 1] \div Base
<1> DEFINE g == [i \in 1..size |-> [x \in Nat |-> x \div Base]]
           E(q) == q = [i \in 0..size |-> IF i = 0 THEN n ELSE q[i - 1] \div Base]
           w == CHOOSE q : E(q)
<1>1. Steps(g, size, Nat)
  BY Division DEF Steps
<1>a. \A i \in 1..size : \A x \in Nat : g[i][x] = x \div Base
  OBVIOUS
<1> HIDE DEF g
<1>b. PICK f : Solves(f, g, size, n, Nat)
  BY <1>1, Recursion
<1>2. /\ f \in [0..size -> Nat] /\ f[0] = n
      /\ \A i \in 1..size : f[i] = g[i][f[i - 1]]
  BY <1>b DEF Solves
<1>3. ASSUME NEW i \in 1..size PROVE f[i] = f[i - 1] \div Base
  <2>1. f[i - 1] \in Nat
    BY <1>2
  <2> QED BY <1>2, <1>a, <2>1
<1>4. E(f)
  BY <1>2, <1>3
<1>5. E(w)
  BY <1>4
<1>6. Shifted(n, size) = w
  BY DEF Shifted
<1> HIDE DEF w
<1>7. w[0] = n /\ \A i \in 1..size : w[i] = w[i - 1] \div Base
  BY <1>5
<1>8. \A i \in 0..size : w[i] \in Nat
  BY <1>7, Division, RecursionType
<1>9. w \in [0..size -> Nat]
  BY <1>5, <1>8
<1> QED BY <1>6, <1>7, <1>9

\* A number that fits has a smaller number that fits.
LEMMA FitsSmaller ==
  ASSUME NEW n \in Nat, NEW m \in Nat, m <= n, NEW size \in Nat, Fits(n, size)
  PROVE  Fits(m, size)
<1> DEFINE p == Shifted(m, size)
           q == Shifted(n, size)
<1>1. /\ p \in [0..size -> Nat] /\ p[0] = m
      /\ \A i \in 1..size : p[i] = p[i - 1] \div Base
  BY ShiftedIs
<1>2. /\ q \in [0..size -> Nat] /\ q[0] = n
      /\ \A i \in 1..size : q[i] = q[i - 1] \div Base
  BY ShiftedIs
<1> DEFINE P == {k \in Nat : k <= size => p[k] <= q[k]}
<1> HIDE DEF p, q
<1>3. 0 \in P
  BY <1>1, <1>2
<1>4. ASSUME NEW k \in Nat, k \in P PROVE k + 1 \in P
  <2> SUFFICES ASSUME k + 1 <= size PROVE p[k + 1] <= q[k + 1]
    OBVIOUS
  <2>1. p[k] \in Nat /\ q[k] \in Nat /\ p[k] <= q[k]
    BY <1>1, <1>2, <1>4
  <2>2. p[k + 1] = p[k] \div Base /\ q[k + 1] = q[k] \div Base
    BY <1>1, <1>2
  <2>3. \A x, y \in Nat : x <= y => x \div Base <= y \div Base
    BY Sizes
  <2> QED BY <2>1, <2>2, <2>3
<1> HIDE DEF P
<1>5. Nat \subseteq P
  BY <1>3, <1>4, Induction
<1>6. p[size] <= q[size] /\ p[size] \in Nat
  BY <1>1, <1>5 DEF P
<1>7. q[size] = 0
  BY DEF Fits, q
<1> QED BY <1>6, <1>7 DEF Fits, p

\* The bytes of a number.
LEMMA BytesType ==
  ASSUME NEW n \in Nat, NEW size \in Nat
  PROVE  /\ Bytes(n, size) \in Seq(Nat) /\ Len(Bytes(n, size)) = size
         /\ \A i \in 1..size : Bytes(n, size)[i] = Shifted(n, size)[i - 1] % Base
         /\ size > 0 => Bytes(n, size)[1] = n % Base
<1> DEFINE q == Shifted(n, size)
<1>1. q \in [0..size -> Nat] /\ q[0] = n
  BY ShiftedIs
<1>2. Bytes(n, size) = [i \in 1..size |-> q[i - 1] % Base]
  BY DEF Bytes
<1> HIDE DEF q
<1>3. ASSUME NEW i \in 1..size PROVE q[i - 1] % Base \in Nat
  <2>1. q[i - 1] \in Nat
    BY <1>1
  <2>2. q[i - 1] % Base \in 0..(Base - 1)
    BY <2>1, Division
  <2> QED BY <2>2, Sizes
<1>4. Bytes(n, size) \in [1..size -> Nat]
  BY <1>2, <1>3
<1>5. Bytes(n, size) \in Seq(Nat) /\ Len(Bytes(n, size)) = size
  BY <1>4
<1>6. \A i \in 1..size : Bytes(n, size)[i] = q[i - 1] % Base
  BY <1>2
<1>7. size > 0 => Bytes(n, size)[1] = n % Base
  BY <1>1, <1>6
<1> QED BY <1>5, <1>6, <1>7 DEF q

\* The number that bytes spell, and the numbers of their ends.
LEMMA ValueIs ==
  ASSUME NEW s \in Seq(Nat)
  PROVE  \E v \in [0..Len(s) -> Nat] :
           /\ v[0] = 0 /\ Value(s) = v[Len(s)]
           /\ \A i \in 1..Len(s) : v[i] = s[Len(s) + 1 - i] + Base * v[i - 1]
<1> DEFINE n == Len(s)
           g == [i \in 1..n |-> [x \in Nat |-> s[n + 1 - i] + Base * x]]
           E(v) == v = [i \in 0..n |-> IF i = 0 THEN 0 ELSE s[n + 1 - i] + Base * v[i - 1]]
           w == CHOOSE v : E(v)
<1>0. n \in Nat /\ \A i \in 1..n : s[n + 1 - i] \in Nat
  <2>1. n \in Nat
    OBVIOUS
  <2>2. \A i \in 1..n : n + 1 - i \in 1..n
    BY <2>1
  <2> QED BY <2>1, <2>2
<1>m. \A x, y \in Nat : y + Base * x \in Nat
  BY Sizes
<1>1. Steps(g, n, Nat)
  BY <1>0, <1>m DEF Steps
<1>a. \A i \in 1..n : \A x \in Nat : g[i][x] = s[n + 1 - i] + Base * x
  OBVIOUS
<1> HIDE DEF g, n
<1>b. PICK f : Solves(f, g, n, 0, Nat)
  BY <1>0, <1>1, Recursion
<1>2. f \in [0..n -> Nat] /\ f[0] = 0 /\ \A i \in 1..n : f[i] = g[i][f[i - 1]]
  BY <1>b DEF Solves
<1>3. ASSUME NEW i \in 1..n PROVE f[i] = s[n + 1 - i] + Base * f[i - 1]
  <2>1. f[i - 1] \in Nat
    BY <1>0, <1>2
  <2> QED BY <1>2, <1>a, <2>1
<1>4. E(f)
  BY <1>2, <1>3
<1>5. E(w)
  BY <1>4
<1>6. Value(s) = w[n]
  BY DEF Value, n
<1> HIDE DEF w
<1>7. w[0] = 0 /\ \A i \in 1..n : w[i] = s[n + 1 - i] + Base * w[i - 1]
  <2>1. w[0] = 0
    BY <1>0, <1>5
  <2>2. ASSUME NEW i \in 1..n PROVE w[i] = s[n + 1 - i] + Base * w[i - 1]
    <3>1. i \in 0..n /\ i # 0
      BY <1>0
    <3> QED BY <1>5, <3>1
  <2> QED BY <2>1, <2>2
<1>8. \A i \in 0..n : w[i] \in Nat
  <2>1. ASSUME NEW i \in 1..n, w[i - 1] \in Nat PROVE w[i] \in Nat
    <3>1. s[n + 1 - i] \in Nat
      BY <1>0
    <3>2. s[n + 1 - i] + Base * w[i - 1] \in Nat
      BY <1>m, <2>1, <3>1
    <3> QED BY <1>7, <3>2
  <2>2. w[0] \in Nat
    BY <1>7
  <2> QED BY <1>0, <2>1, <2>2, RecursionType, Zenon
<1>9. w \in [0..n -> Nat]
  BY <1>5, <1>8
<1> QED BY <1>6, <1>7, <1>9 DEF n

\* Bytes that spell 0 begin with 0.
LEMMA ValueType ==
  ASSUME NEW s \in Seq(Nat)
  PROVE  Value(s) \in Nat /\ (Len(s) > 0 /\ Value(s) = 0 => s[1] = 0)
<1>1. PICK v \in [0..Len(s) -> Nat] :
           /\ v[0] = 0 /\ Value(s) = v[Len(s)]
           /\ \A i \in 1..Len(s) : v[i] = s[Len(s) + 1 - i] + Base * v[i - 1]
  BY ValueIs
<1>2. Value(s) \in Nat
  BY <1>1
<1>3. ASSUME Len(s) > 0, Value(s) = 0 PROVE s[1] = 0
  <2> DEFINE n == Len(s)
             b == Base * v[n - 1]
  <2>1. n \in 1..n /\ n - 1 \in 0..n /\ n + 1 - n = 1 /\ s[1] \in Nat
    BY <1>3
  <2>2. v[n] = s[1] + b
    BY <1>1, <2>1
  <2>3. \A x \in Nat : Base * x \in Nat
    BY Sizes
  <2>4. b \in Nat
    BY <2>1, <2>3
  <2>5. v[n] = 0
    BY <1>1, <1>3
  <2> HIDE DEF b
  <2> QED BY <2>1, <2>2, <2>4, <2>5
<1> QED BY <1>2, <1>3

\* Reading the bytes of a number gives the number (a uint32_t or a pointer).
LEMMA ValueOfBytes ==
  ASSUME NEW n \in Nat, NEW size \in Nat, Fits(n, size)
  PROVE  Value(Bytes(n, size)) = n
<1> DEFINE s == Bytes(n, size)
           q == Shifted(n, size)
<1>1. s \in Seq(Nat) /\ Len(s) = size /\ \A i \in 1..size : s[i] = q[i - 1] % Base
  BY BytesType
<1>2. /\ q \in [0..size -> Nat] /\ q[0] = n
      /\ \A i \in 1..size : q[i] = q[i - 1] \div Base
  BY ShiftedIs
<1>3. q[size] = 0
  BY DEF Fits
<1> HIDE DEF s, q
<1>4. PICK v \in [0..size -> Nat] :
           /\ v[0] = 0 /\ Value(s) = v[size]
           /\ \A i \in 1..size : v[i] = s[size + 1 - i] + Base * v[i - 1]
  BY <1>1, ValueIs
<1> DEFINE P == {k \in Nat : k <= size => v[k] = q[size - k]}
<1>5. 0 \in P
  BY <1>3, <1>4
<1>6. ASSUME NEW k \in Nat, k \in P PROVE k + 1 \in P
  <2> SUFFICES ASSUME k + 1 <= size PROVE v[k + 1] = q[size - (k + 1)]
    OBVIOUS
  <2> DEFINE j == size - (k + 1)
  <2>1. j \in 0..size /\ j + 1 \in 1..size /\ q[j] \in Nat /\ k + 1 \in 1..size
    BY <1>2
  <2>2. v[k + 1] = s[j + 1] + Base * v[k]
    BY <1>4, <2>1
  <2>3. s[j + 1] = q[j] % Base
    BY <1>1, <2>1
  <2>4. v[k] = q[j + 1] /\ q[j + 1] = q[j] \div Base
    BY <1>2, <1>6, <2>1
  <2>5. q[j] = (q[j] % Base) + Base * (q[j] \div Base)
    BY <2>1, Division
  <2> QED BY <2>2, <2>3, <2>4, <2>5
<1> HIDE DEF P
<1>7. Nat \subseteq P
  BY <1>5, <1>6, Induction
<1>8. v[size] = q[0]
  BY <1>7 DEF P
<1> QED BY <1>2, <1>4, <1>8 DEF s

-----------------------------------------------------------------------------
(***************************************************************************)
(* Sequences that are put one behind the other.                            *)
(***************************************************************************)

\* A function of the first numbers is a sequence.
LEMMA FunctionIsSeq ==
  ASSUME NEW S, NEW k \in Nat, NEW f \in [1..k -> S]
  PROVE  f \in Seq(S) /\ Len(f) = k
OBVIOUS

\* The two ways of concatenating three sequences agree.
Regroups(s, t, u) == (s \o t) \o u = s \o (t \o u)

\* Concatenation is associative, packaged as Regroups so that a leaf unfolds it
\* only for the sequences it names.
LEMMA Assoc ==
  ASSUME NEW S, NEW s \in Seq(S), NEW t \in Seq(S), NEW u \in Seq(S)
  PROVE  Regroups(s, t, u)
BY ConcatAssociative DEF Regroups

\* The first i of n sequences put together are f[i].
Joins(f, seqs, n, S) ==
  /\ \A i \in 1..n : f[i] \in Seq(S)
  /\ f[1] = seqs[1]
  /\ \A i \in 2..n : f[i] = f[i - 1] \o seqs[i]
  /\ FlattenSeq(seqs) = f[n]

\* The recursive definition of FlattenSeq has a solution.
LEMMA FlattenIs ==
  ASSUME NEW S, NEW seqs \in Seq(Seq(S)), Len(seqs) > 0
  PROVE  \E f : Joins(f, seqs, Len(seqs), S)
<1> DEFINE n == Len(seqs)
           g == [i \in 1..(n - 1) |-> [x \in Seq(S) |-> x \o seqs[i + 1]]]
           E(f) == f = [i \in 1..n |-> IF i = 1 THEN seqs[i] ELSE f[i - 1] \o seqs[i]]
           w == CHOOSE f : E(f)
<1>0. n \in Nat /\ n > 0 /\ \A i \in 1..n : seqs[i] \in Seq(S)
  OBVIOUS
<1>1. FlattenSeq(seqs) = w[n]
  BY <1>0 DEF FlattenSeq
<1> HIDE DEF n
<1>2. ASSUME NEW i \in 1..(n - 1), NEW x \in Seq(S)
      PROVE  g[i][x] = x \o seqs[i + 1] /\ g[i][x] \in Seq(S)
  <2>1. i + 1 \in 1..n
    BY <1>0
  <2>2. seqs[i + 1] \in Seq(S)
    BY <1>0, <2>1
  <2> QED BY <2>2, ConcatProperties
<1>3. Steps(g, n - 1, Seq(S))
  BY <1>2 DEF Steps
<1> HIDE DEF g
<1>4. PICK h : Solves(h, g, n - 1, seqs[1], Seq(S))
  <2>1. n - 1 \in Nat /\ seqs[1] \in Seq(S)
    BY <1>0
  <2> QED BY <1>3, <2>1, Recursion
<1>5. /\ h \in [0..(n - 1) -> Seq(S)] /\ h[0] = seqs[1]
      /\ \A i \in 1..(n - 1) : h[i] = g[i][h[i - 1]]
  BY <1>4 DEF Solves
<1> DEFINE k == [i \in 1..n |-> h[i - 1]]
<1>6. E(k)
  <2>1. ASSUME NEW i \in 1..n
        PROVE  k[i] = IF i = 1 THEN seqs[i] ELSE k[i - 1] \o seqs[i]
    <3>1. CASE i = 1
      BY <1>0, <1>5, <3>1
    <3>2. CASE i # 1
      <4>1. i - 1 \in 1..(n - 1) /\ i - 1 \in 1..n /\ (i - 1) - 1 \in 0..(n - 1)
            /\ (i - 1) + 1 = i
        BY <1>0, <3>2
      <4>2. k[i] = h[i - 1] /\ k[i - 1] = h[(i - 1) - 1]
        BY <4>1
      <4>3. h[(i - 1) - 1] \in Seq(S)
        BY <1>5, <4>1
      <4>4. h[i - 1] = g[i - 1][h[(i - 1) - 1]]
        BY <1>5, <4>1
      <4>5. g[i - 1][h[(i - 1) - 1]] = h[(i - 1) - 1] \o seqs[(i - 1) + 1]
        BY <1>2, <4>1, <4>3
      <4> HIDE DEF k
      <4> QED BY <3>2, <4>1, <4>2, <4>4, <4>5
    <3> QED BY <3>1, <3>2
  <2>2. k = [i \in 1..n |-> k[i]]
    OBVIOUS
  <2> HIDE DEF k
  <2> QED BY <2>1, <2>2
<1>7. E(w)
  BY <1>6
<1> HIDE DEF w
<1>8. w[1] = seqs[1] /\ \A i \in 2..n : w[i] = w[i - 1] \o seqs[i]
  <2>1. w[1] = seqs[1]
    BY <1>0, <1>7
  <2>2. ASSUME NEW i \in 2..n PROVE w[i] = w[i - 1] \o seqs[i]
    <3>1. i \in 1..n /\ i # 1
      BY <1>0
    <3> QED BY <1>7, <3>1
  <2> QED BY <2>1, <2>2
<1>9. \A i \in 1..n : w[i] \in Seq(S)
  <2> DEFINE v == [i \in 0..(n - 1) |-> w[i + 1]]
  <2>1. v[0] \in Seq(S)
    BY <1>0, <1>8
  <2>2. ASSUME NEW i \in 1..(n - 1), v[i - 1] \in Seq(S) PROVE v[i] \in Seq(S)
    <3>1. i + 1 \in 2..n /\ i + 1 \in 1..n /\ (i + 1) - 1 = i /\ (i - 1) + 1 = i
          /\ i - 1 \in 0..(n - 1) /\ i \in 0..(n - 1)
      BY <1>0
    <3>2. v[i] = w[i + 1] /\ v[i - 1] = w[i]
      BY <3>1
    <3>3. w[i + 1] = w[i] \o seqs[i + 1] /\ seqs[i + 1] \in Seq(S)
      BY <1>0, <1>8, <3>1
    <3> HIDE DEF v
    <3> QED BY <2>2, <3>2, <3>3, ConcatProperties
  <2>3. n - 1 \in Nat
    BY <1>0
  <2> HIDE DEF v
  <2>4. \A i \in 0..(n - 1) : v[i] \in Seq(S)
    BY <2>1, <2>2, <2>3, RecursionType
  <2>5. ASSUME NEW i \in 1..n PROVE w[i] \in Seq(S)
    <3>1. i - 1 \in 0..(n - 1) /\ (i - 1) + 1 = i
      BY <1>0
    <3>2. v[i - 1] = w[i]
      BY <3>1 DEF v
    <3> QED BY <2>4, <3>1, <3>2
  <2> QED BY <2>5
<1> QED BY <1>1, <1>8, <1>9 DEF n, Joins

\* Nothing put together is nothing.
LEMMA FlattenEmpty ==
  ASSUME NEW seqs, Len(seqs) = 0, NEW S, seqs \in Seq(S)
  PROVE  FlattenSeq(seqs) = <<>>
<1>1. FlattenSeq(seqs) = seqs
  BY DEF FlattenSeq
<1> QED BY <1>1, EmptySeq

\* Sequences put together are a sequence.
LEMMA FlattenType ==
  ASSUME NEW S, NEW seqs \in Seq(Seq(S))
  PROVE  FlattenSeq(seqs) \in Seq(S)
<1>0. Len(seqs) \in Nat
  OBVIOUS
<1>1. CASE Len(seqs) = 0
  <2>1. FlattenSeq(seqs) = <<>>
    BY <1>1, FlattenEmpty
  <2> QED BY <2>1
<1>2. CASE Len(seqs) > 0
  <2>1. PICK f : Joins(f, seqs, Len(seqs), S)
    BY <1>2, FlattenIs
  <2>2. Len(seqs) \in 1..Len(seqs)
    BY <1>0, <1>2
  <2> QED BY <2>1, <2>2 DEF Joins
<1> QED BY <1>0, <1>1, <1>2

\* The last of the sequences comes last.
LEMMA FlattenLast ==
  ASSUME NEW S, NEW s \in Seq(Seq(S)), NEW t \in Seq(Seq(S)), Len(s) = Len(t) + 1,
         \A i \in 1..Len(t) : s[i] = t[i]
  PROVE  FlattenSeq(s) = FlattenSeq(t) \o s[Len(s)]
<1> DEFINE n == Len(t)
<1>0. n \in Nat /\ Len(s) = n + 1
  OBVIOUS
<1>a. PICK f : Joins(f, s, n + 1, S)
  <2>1. Len(s) > 0
    BY <1>0
  <2>2. \E f : Joins(f, s, Len(s), S)
    BY <2>1, FlattenIs
  <2> QED BY <1>0, <2>2
<1>1. /\ \A i \in 1..(n + 1) : f[i] \in Seq(S)
      /\ f[1] = s[1]
      /\ \A i \in 2..(n + 1) : f[i] = f[i - 1] \o s[i]
      /\ FlattenSeq(s) = f[n + 1]
  BY <1>a DEF Joins
<1>2. CASE n = 0
  <2>1. FlattenSeq(t) = <<>>
    BY <1>2, FlattenEmpty
  <2>2. FlattenSeq(s) = s[1] /\ s[1] \in Seq(S) /\ Len(s) = 1
    BY <1>0, <1>1, <1>2
  <2> QED BY <2>1, <2>2, ConcatEmptySeq
<1>3. CASE n > 0
  <2>b. PICK h : Joins(h, t, n, S)
    BY <1>3, FlattenIs
  <2>1. /\ \A i \in 1..n : h[i] \in Seq(S)
        /\ h[1] = t[1]
        /\ \A i \in 2..n : h[i] = h[i - 1] \o t[i]
        /\ FlattenSeq(t) = h[n]
    BY <2>b DEF Joins
  <2> HIDE DEF n
  <2>a. \A i \in 1..n : s[i] = t[i]
    BY DEF n
  <2> DEFINE P == {k \in Nat : k + 1 <= n => f[k + 1] = h[k + 1]}
  <2>2. 0 \in P
    BY <1>0, <1>1, <1>3, <2>1, <2>a
  <2>3. ASSUME NEW k \in Nat, k \in P PROVE k + 1 \in P
    <3> SUFFICES ASSUME (k + 1) + 1 <= n PROVE f[(k + 1) + 1] = h[(k + 1) + 1]
      OBVIOUS
    <3>1. (k + 1) + 1 \in 2..n /\ (k + 1) + 1 \in 2..(n + 1) /\ ((k + 1) + 1) - 1 = k + 1
          /\ k + 1 <= n /\ (k + 1) + 1 \in 1..n
      BY <1>0
    <3>2. f[(k + 1) + 1] = f[k + 1] \o s[(k + 1) + 1]
      BY <1>1, <3>1
    <3>3. h[(k + 1) + 1] = h[k + 1] \o t[(k + 1) + 1]
      BY <2>1, <3>1
    <3> QED BY <2>3, <2>a, <3>1, <3>2, <3>3
  <2> HIDE DEF P
  <2>4. Nat \subseteq P
    BY <2>2, <2>3, Induction
  <2>5. f[n] = h[n]
    <3>1. n - 1 \in Nat /\ (n - 1) + 1 = n
      BY <1>0, <1>3
    <3> QED BY <2>4, <3>1 DEF P
  <2>6. f[n + 1] = f[n] \o s[n + 1]
    <3>1. n + 1 \in 2..(n + 1) /\ (n + 1) - 1 = n
      BY <1>0, <1>3
    <3> QED BY <1>1, <3>1
  <2> QED BY <1>0, <1>1, <2>1, <2>5, <2>6 DEF n
<1> QED BY <1>0, <1>2, <1>3

\* The first of the sequences comes first.
LEMMA FlattenHead ==
  ASSUME NEW S, NEW s \in Seq(Seq(S)), NEW t \in Seq(Seq(S)), Len(s) = Len(t) + 1,
         \A i \in 1..Len(t) : t[i] = s[i + 1]
  PROVE  FlattenSeq(s) = s[1] \o FlattenSeq(t)
<1> DEFINE n == Len(t)
<1>0. n \in Nat /\ Len(s) = n + 1 /\ s[1] \in Seq(S)
  OBVIOUS
<1>a. PICK f : Joins(f, s, n + 1, S)
  <2>1. Len(s) > 0
    BY <1>0
  <2>2. \E f : Joins(f, s, Len(s), S)
    BY <2>1, FlattenIs
  <2> QED BY <1>0, <2>2
<1>1. /\ \A i \in 1..(n + 1) : f[i] \in Seq(S)
      /\ f[1] = s[1]
      /\ \A i \in 2..(n + 1) : f[i] = f[i - 1] \o s[i]
      /\ FlattenSeq(s) = f[n + 1]
  BY <1>a DEF Joins
<1>2. CASE n = 0
  <2>1. FlattenSeq(t) = <<>>
    BY <1>2, FlattenEmpty
  <2>2. FlattenSeq(s) = s[1]
    BY <1>0, <1>1, <1>2
  <2> QED BY <1>0, <2>1, <2>2, ConcatEmptySeq
<1>3. CASE n > 0
  <2>b. PICK h : Joins(h, t, n, S)
    BY <1>3, FlattenIs
  <2>1. /\ \A i \in 1..n : h[i] \in Seq(S)
        /\ h[1] = t[1]
        /\ \A i \in 2..n : h[i] = h[i - 1] \o t[i]
        /\ FlattenSeq(t) = h[n]
    BY <2>b DEF Joins
  <2>a. \A i \in 1..n : t[i] = s[i + 1] /\ t[i] \in Seq(S)
    OBVIOUS
  <2> HIDE DEF n
  <2> DEFINE c == [i \in Nat |-> s[1] \o h[i]]
             P == {k \in Nat : k + 1 <= n => f[k + 2] = c[k + 1]}
  <2>c. \A i \in Nat : c[i] = s[1] \o h[i]
    OBVIOUS
  <2> HIDE DEF c
  <2>2. 0 \in P
    <3>1. 2 \in 2..(n + 1) /\ 1 \in 1..n
      BY <1>0, <1>3
    <3>2. f[2] = f[2 - 1] \o s[2]
      BY <1>0, <1>1, <3>1
    <3>3. h[1] = s[2]
      BY <2>1, <2>a, <3>1
    <3>5. 1 \in Nat /\ 2 - 1 = 1
      OBVIOUS
    <3>6. c[1] = s[1] \o h[1]
      BY <2>c, <3>5
    <3>7. f[2] = s[1] \o s[2]
      BY <1>1, <3>2, <3>5
    <3>4. f[2] = c[1]
      BY <3>3, <3>6, <3>7
    <3> QED BY <3>4
  <2>3. ASSUME NEW k \in Nat, k \in P PROVE k + 1 \in P
    <3> SUFFICES ASSUME (k + 1) + 1 <= n PROVE f[(k + 1) + 2] = c[(k + 1) + 1]
      OBVIOUS
    <3> DEFINE j == k + 1
    <3>1. /\ j + 1 \in 2..n /\ j + 2 \in 2..(n + 1) /\ (j + 1) - 1 = j /\ (j + 2) - 1 = j + 1
          /\ j \in 1..n /\ j + 1 \in 1..n /\ (j + 1) + 1 = j + 2 /\ k + 2 = j + 1
      BY <1>0
    <3>2. f[j + 2] = f[j + 1] \o s[j + 2]
      BY <1>1, <3>1
    <3>3. h[j + 1] = h[j] \o t[j + 1] /\ h[j] \in Seq(S) /\ t[j + 1] \in Seq(S)
      BY <2>1, <2>a, <3>1
    <3>4. t[j + 1] = s[j + 2]
      BY <2>a, <3>1
    <3>5. f[j + 1] = s[1] \o h[j]
      <4>1. k + 1 <= n
        BY <1>0
      <4>2. f[k + 2] = c[k + 1]
        BY <2>3, <4>1
      <4>3. k + 1 \in Nat
        OBVIOUS
      <4>4. c[k + 1] = s[1] \o h[k + 1]
        BY <2>c, <4>3
      <4> QED BY <3>1, <4>2, <4>4
    <3>8. j + 1 \in Nat
      OBVIOUS
    <3> HIDE DEF j
    <3>6. (s[1] \o h[j]) \o t[j + 1] = s[1] \o (h[j] \o t[j + 1])
      <4> DEFINE x == s[1]
                 y == h[j]
                 z == t[j + 1]
      <4>1. x \in Seq(S) /\ y \in Seq(S) /\ z \in Seq(S)
        BY <1>0, <3>3
      <4> HIDE DEF x, y, z
      <4>2. (x \o y) \o z = x \o (y \o z)
        <5>1. Regroups(x, y, z)
          BY <4>1, Assoc
        <5> QED BY <5>1 DEF Regroups
      <4> QED BY <4>2 DEF x, y, z
    <3>7. f[j + 2] = s[1] \o h[j + 1]
      BY <3>2, <3>3, <3>4, <3>5, <3>6
    <3>9. f[j + 2] = c[j + 1]
      BY <2>c, <3>7, <3>8
    <3> QED BY <3>9 DEF j
  <2> HIDE DEF P
  <2>4. Nat \subseteq P
    BY <2>2, <2>3, Induction
  <2>5. f[n + 1] = s[1] \o h[n]
    <3>1. n - 1 \in Nat /\ (n - 1) + 1 = n /\ (n - 1) + 2 = n + 1
      BY <1>0, <1>3
    <3>2. n - 1 \in P
      BY <2>4, <3>1
    <3>3. (n - 1) + 1 <= n
      BY <1>0
    <3>4. f[(n - 1) + 2] = c[(n - 1) + 1]
      BY <3>2, <3>3 DEF P
    <3> QED BY <1>0, <2>c, <3>1, <3>4
  <2> QED BY <1>1, <2>1, <2>5
<1> QED BY <1>0, <1>2, <1>3

-----------------------------------------------------------------------------
(***************************************************************************)
(* Bytes in memory.                                                        *)
(***************************************************************************)

\* As far as b reaches, it has s behind its first p bytes.
Agree(b, p, s) == \A i \in 1..Len(s) : p + i <= Len(b) => b[p + i] = s[i]

\* Memory agrees with two sequences if it agrees with one behind the other.
LEMMA AgreeConcat ==
  ASSUME NEW b \in Seq(Nat), NEW p \in Nat, NEW s \in Seq(Nat), NEW t \in Seq(Nat)
  PROVE  Agree(b, p, s \o t) <=> Agree(b, p, s) /\ Agree(b, p + Len(s), t)
<1>0. Len(s) \in Nat /\ Len(t) \in Nat /\ Len(b) \in Nat
  OBVIOUS
<1>1. /\ s \o t \in Seq(Nat) /\ Len(s \o t) = Len(s) + Len(t)
      /\ \A i \in 1..(Len(s) + Len(t)) :
           (s \o t)[i] = IF i <= Len(s) THEN s[i] ELSE t[i - Len(s)]
  BY ConcatProperties
<1>2. ASSUME Agree(b, p, s \o t) PROVE Agree(b, p, s)
  <2> SUFFICES ASSUME NEW i \in 1..Len(s), p + i <= Len(b) PROVE b[p + i] = s[i]
    BY DEF Agree
  <2>1. i \in 1..(Len(s) + Len(t)) /\ i <= Len(s)
    BY <1>0
  <2> QED BY <1>1, <1>2, <2>1 DEF Agree
<1>3. ASSUME Agree(b, p, s \o t) PROVE Agree(b, p + Len(s), t)
  <2> SUFFICES ASSUME NEW i \in 1..Len(t), (p + Len(s)) + i <= Len(b)
               PROVE  b[(p + Len(s)) + i] = t[i]
    BY DEF Agree
  <2>1. /\ Len(s) + i \in 1..(Len(s) + Len(t)) /\ ~(Len(s) + i <= Len(s))
        /\ (Len(s) + i) - Len(s) = i /\ (p + Len(s)) + i = p + (Len(s) + i)
    BY <1>0
  <2>2. (s \o t)[Len(s) + i] = t[i]
    BY <1>1, <2>1
  <2>3. b[p + (Len(s) + i)] = (s \o t)[Len(s) + i]
    BY <1>1, <1>3, <2>1 DEF Agree
  <2> QED BY <2>1, <2>2, <2>3
<1>4. ASSUME Agree(b, p, s), Agree(b, p + Len(s), t) PROVE Agree(b, p, s \o t)
  <2> SUFFICES ASSUME NEW i \in 1..(Len(s) + Len(t)), p + i <= Len(b)
               PROVE  b[p + i] = (s \o t)[i]
    BY <1>1 DEF Agree
  <2>1. CASE i <= Len(s)
    <3>1. i \in 1..Len(s)
      BY <1>0, <2>1
    <3> QED BY <1>1, <1>4, <2>1, <3>1 DEF Agree
  <2>2. CASE i > Len(s)
    <3>1. i - Len(s) \in 1..Len(t) /\ (p + Len(s)) + (i - Len(s)) = p + i
      BY <1>0, <2>2
    <3>2. b[p + i] = t[i - Len(s)]
      BY <1>4, <3>1 DEF Agree
    <3>3. (s \o t)[i] = t[i - Len(s)]
      BY <1>0, <1>1, <2>2
    <3> QED BY <3>2, <3>3
  <2> QED BY <1>0, <2>1, <2>2
<1> QED BY <1>2, <1>3, <1>4

\* Where the first zero is, the string ends.
LEMMA CStringIs ==
  ASSUME NEW s \in Seq(Nat), NEW n \in 0..Len(s), \A k \in 1..n : s[k] # 0,
         n = Len(s) \/ s[n + 1] = 0
  PROVE  CString(s) = SubSeq(s, 1, n)
<1> DEFINE E(m) == (\A k \in 1..m : s[k] # 0) /\ (m = Len(s) \/ s[m + 1] = 0)
           w == CHOOSE m \in 0..Len(s) : E(m)
<1>0. Len(s) \in Nat
  OBVIOUS
<1>1. E(n)
  OBVIOUS
<1>2. w \in 0..Len(s) /\ E(w)
  BY <1>1
<1>3. CString(s) = SubSeq(s, 1, w)
  BY DEF CString
<1> HIDE DEF w
<1>4. ~(w < n)
  <2> SUFFICES ASSUME w < n PROVE FALSE
    OBVIOUS
  <2>1. w + 1 \in 1..n /\ w # Len(s)
    BY <1>0, <1>2
  <2> QED BY <1>1, <1>2, <2>1
<1>5. ~(n < w)
  <2> SUFFICES ASSUME n < w PROVE FALSE
    OBVIOUS
  <2>1. n + 1 \in 1..w /\ n # Len(s)
    BY <1>0, <1>2
  <2> QED BY <1>1, <1>2, <2>1
<1>6. w = n
  BY <1>0, <1>2, <1>4, <1>5
<1> QED BY <1>3, <1>6

\* A name is read back, with its terminator or without.
LEMMA CStringOfName ==
  ASSUME NEW s \in Name
  PROVE  /\ s \in Seq(Nat) /\ CString(s) = s
         /\ Append(s, 0) \in Seq(Nat) /\ CString(Append(s, 0)) = s
         /\ Len(Append(s, 0)) = Len(s) + 1 /\ Fits(Len(Append(s, 0)), NumLen)
         /\ Fits(Len(s), NumLen)
<1>1. s \in Seq(1..(Base - 1)) /\ Fits(Len(s) + 1, NumLen)
  BY DEF Name
<1>2. Len(s) \in Nat /\ \A k \in 1..Len(s) : s[k] \in Nat /\ s[k] # 0
  BY <1>1, Sizes
<1>3. s \in Seq(Nat)
  BY <1>1, <1>2, Sizes
<1>4. CString(s) = s
  <2>1. CString(s) = SubSeq(s, 1, Len(s))
    BY <1>2, <1>3, CStringIs
  <2> QED BY <1>3, <2>1, SubSeqFull
<1> DEFINE t == Append(s, 0)
<1>5. /\ t \in Seq(Nat) /\ Len(t) = Len(s) + 1
      /\ \A i \in 1..Len(s) : t[i] = s[i] 
      /\ t[Len(s) + 1] = 0
  BY <1>3
<1> HIDE DEF t
<1>6. CString(t) = s
  <2>1. Len(s) \in 0..Len(t) /\ \A k \in 1..Len(s) : t[k] # 0
    BY <1>2, <1>5
  <2>2. CString(t) = SubSeq(t, 1, Len(s))
    BY <1>5, <2>1, CStringIs
  <2>3. SubSeq(t, 1, Len(s)) = s
    BY <1>2, <1>3, <1>5
  <2> QED BY <2>2, <2>3
<1>7. Fits(Len(s), NumLen)
  BY <1>1, <1>2, Sizes, FitsSmaller
<1>8. Fits(Len(t), NumLen)
  BY <1>1, <1>5
<1> QED BY <1>3, <1>4, <1>5, <1>6, <1>7, <1>8 DEF t

-----------------------------------------------------------------------------
(***************************************************************************)
(* Reading. A reader that should be at p is there, or at the end of a      *)
(* buffer that does not reach p, or has failed.                            *)
(***************************************************************************)

ReaderType(s) == s.cur \in 0..Len(buf) /\ s.c \in Nat /\ s.ok \in BOOLEAN

Reached(s, p) == s.ok => s.cur = IF p <= Len(buf) THEN p ELSE Len(buf)

\* The reader s should be at p and reads the bytes w; then it is r.
DataRead(r, s, p, w, need) ==
  /\ ReaderType(r) /\ Reached(r, p + Len(w)) /\ r.c = s.c
  /\ r.ok => s.ok /\ (need > 0 => p + need <= Len(buf))
  /\ s.ok /\ p + Len(w) <= Len(buf) => r.ok /\ r.val = w

\* The same for the length x, and for a length and the bytes w that follow it.
LengthRead(r, s, p, x, need) ==
  /\ ReaderType(r) /\ Reached(r, p + NumLen)
  /\ r.ok => s.ok /\ p + need <= Len(buf)
  /\ s.ok /\ p + NumLen <= Len(buf) => r.ok /\ r.c = x
  /\ r.ok /\ r.c = 0 => x % Base = 0

FieldRead(r, s, p, w, need) ==
  /\ ReaderType(r) /\ Reached(r, p + (NumLen + Len(w)))
  /\ r.ok => s.ok /\ p + need <= Len(buf)
  /\ s.ok /\ p + (NumLen + Len(w)) <= Len(buf) => r.ok /\ r.val = w
  /\ r.ok /\ p + (NumLen + Len(w)) > Len(buf) => Len(w) % Base = 0

\* What is read: so many bytes, or the rest.
LEMMA AvailIs ==
  ASSUME buf \in Seq(Nat), NEW s, ReaderType(s), NEW size \in Nat
  PROVE  /\ Avail(s, size) \in 0..size /\ s.cur + Avail(s, size) \in 0..Len(buf)
         /\ s.cur + size <= Len(buf) => Avail(s, size) = size
         /\ s.cur + size > Len(buf) => Avail(s, size) = Len(buf) - s.cur
         /\ Got(s, size) \in Seq(Nat) /\ Len(Got(s, size)) = Avail(s, size)
         /\ \A i \in 1..Avail(s, size) : Got(s, size)[i] = buf[s.cur + i]
<1> DEFINE n == Avail(s, size)
           p == s.cur
<1>1. p \in 0..Len(buf) /\ Len(buf) \in Nat
  BY DEF ReaderType
<1>2. n = IF size <= Len(buf) - p THEN size ELSE Len(buf) - p
  BY DEF Avail
<1>3. Got(s, size) = SubSeq(buf, p + 1, p + n)
  BY DEF Got
<1> HIDE DEF n, p
<1>4. /\ n \in 0..size /\ p + n \in 0..Len(buf)
      /\ p + size <= Len(buf) => n = size
      /\ p + size > Len(buf) => n = Len(buf) - p
  BY <1>1, <1>2
<1>5. \A i \in (p + 1)..(p + n) : buf[i] \in Nat
  BY <1>1, <1>4
<1>6. /\ SubSeq(buf, p + 1, p + n) \in Seq(Nat)
      /\ Len(SubSeq(buf, p + 1, p + n)) = n
      /\ \A i \in 1..n : SubSeq(buf, p + 1, p + n)[i] = buf[p + i]
  <2> DEFINE a == p + 1
             b == p + n
             g == SubSeq(buf, a, b)
  <2>1. n \in Nat /\ p \in Nat /\ a \in Int /\ b \in Int
    BY <1>1, <1>4
  <2>2. b - a + 1 = n /\ (IF a <= b THEN b - a + 1 ELSE 0) = n
    BY <2>1
  <2>3. \A i \in 1..n : a + i - 1 = p + i
    BY <2>1
  <2> HIDE DEF a, b
  <2>4. \A i \in a..b : buf[i] \in Nat
    BY <1>5 DEF a, b
  <2>5. /\ g \in Seq(Nat) /\ Len(g) = IF a <= b THEN b - a + 1 ELSE 0
        /\ \A i \in 1..(b - a + 1) : g[i] = buf[a + i - 1]
    BY <2>1, <2>4, SubSeqProperties
  <2> HIDE DEF g
  <2>6. Len(g) = n
    BY <2>2, <2>5
  <2>7. \A i \in 1..n : g[i] = buf[p + i]
    BY <2>2, <2>3, <2>5
  <2> QED BY <2>5, <2>6, <2>7 DEF g, a, b
<1> QED BY <1>3, <1>4, <1>6 DEF n, p

\* The fields of the states after reading.
LEMMA ReadFields ==
  ASSUME NEW s, NEW size, NEW need
  PROVE  LET r == read_from_mem(s, size, need)
             l == ReadLength(s, need)
         IN  /\ r.cur = s.cur + Avail(s, size) /\ r.c = s.c /\ r.val = Got(s, size)
             /\ r.ok \in BOOLEAN /\ (r.ok <=> s.ok /\ Avail(s, size) >= need)
             /\ l.cur = s.cur + Avail(s, NumLen)
             /\ l.ok \in BOOLEAN /\ (l.ok <=> s.ok /\ Avail(s, NumLen) >= need)
             /\ l.c = Value(Got(s, NumLen)
                            \o SubSeq(Bytes(s.c, NumLen), Avail(s, NumLen) + 1, NumLen))
BY DEF read_from_mem, ReadLength

\* A reader that failed stays failed.
LEMMA Failed ==
  ASSUME NEW s, NEW size, NEW need, ~s.ok
  PROVE  /\ ~read_from_mem(s, size, need).ok /\ ~ReadLength(s, need).ok
         /\ ~ReadField(s, need).ok
<1>1. \A t : ~t.ok => \A a, b : ~read_from_mem(t, a, b).ok
  BY ReadFields
<1>2. ~ReadLength(s, need).ok
  BY ReadFields
<1> QED BY <1>1, <1>2 DEF ReadField

\* Reading the bytes w.
LEMMA DataStep ==
  ASSUME buf \in Seq(Nat), NEW s, ReaderType(s), NEW p \in Nat, Reached(s, p),
         NEW w \in Seq(Nat), Agree(buf, p, w), NEW need \in 0..Len(w),
         NEW size, size = Len(w)
  PROVE  DataRead(read_from_mem(s, size, need), s, p, w, need)
<1> DEFINE r == read_from_mem(s, size, need)
           n == Avail(s, size)
<1>0. Len(w) \in Nat /\ Len(buf) \in Nat /\ size \in Nat /\ need \in Nat
  OBVIOUS
<1>1. /\ n \in 0..size /\ s.cur + n \in 0..Len(buf)
      /\ s.cur + size <= Len(buf) => n = size
      /\ s.cur + size > Len(buf) => n = Len(buf) - s.cur
      /\ Got(s, size) \in Seq(Nat) /\ Len(Got(s, size)) = n
      /\ \A i \in 1..n : Got(s, size)[i] = buf[s.cur + i]
  BY <1>0, AvailIs
<1>2. /\ r.cur = s.cur + n /\ r.c = s.c /\ r.val = Got(s, size)
      /\ r.ok \in BOOLEAN /\ (r.ok <=> s.ok /\ n >= need)
  BY ReadFields
<1>3. s.cur \in 0..Len(buf) /\ s.c \in Nat /\ s.ok \in BOOLEAN
  BY DEF ReaderType
<1> HIDE DEF r, n
<1>4. ReaderType(r)
  <2> QED BY <1>1, <1>2, <1>3 DEF ReaderType
<1>5. r.ok => s.ok /\ n >= need
  BY <1>2
<1>6. ASSUME r.ok
      PROVE  /\ r.cur = IF p + Len(w) <= Len(buf) THEN p + Len(w) ELSE Len(buf)
             /\ need > 0 => p + need <= Len(buf)
  <2> DEFINE c == s.cur
  <2>1. c = IF p <= Len(buf) THEN p ELSE Len(buf)
    BY <1>5, <1>6 DEF Reached
  <2>2. n >= need /\ r.cur = c + n /\ c \in 0..Len(buf)
    BY <1>2, <1>3, <1>5, <1>6
  <2>3. /\ n \in 0..size
        /\ c + size <= Len(buf) => n = size
        /\ c + size > Len(buf) => n = Len(buf) - c
    BY <1>1
  <2> HIDE DEF c
  <2>4. need > 0 => p + need <= Len(buf)
    BY <1>0, <2>1, <2>2, <2>3
  <2>5. ASSUME p + Len(w) <= Len(buf) PROVE c + n = p + Len(w)
    <3>1. c = p
      BY <1>0, <2>1, <2>5
    <3>2. n = Len(w)
      BY <1>0, <2>3, <2>5, <3>1
    <3> QED BY <3>1, <3>2
  <2>6. ~(p + Len(w) <= Len(buf)) => c + n = Len(buf)
    BY <1>0, <2>1, <2>2, <2>3
  <2>7. r.cur = c + n
    BY <2>2
  <2>8. r.cur = IF p + Len(w) <= Len(buf) THEN p + Len(w) ELSE Len(buf)
    BY <2>5, <2>6, <2>7
  <2> QED BY <2>4, <2>8
<1>7. ASSUME s.ok, p + Len(w) <= Len(buf) PROVE r.ok /\ r.val = w
  <2>1. s.cur = p
    BY <1>0, <1>7 DEF Reached
  <2>2. n = Len(w)
    BY <1>0, <1>1, <1>7, <2>1
  <2>3. r.ok
    <3>1. n >= need
      BY <1>0, <2>2
    <3> QED BY <1>2, <1>7, <3>1
  <2>4. \A i \in 1..Len(w) : Got(s, size)[i] = w[i]
    <3>1. ASSUME NEW i \in 1..Len(w) PROVE Got(s, size)[i] = w[i]
      <4>1. i \in 1..n /\ p + i <= Len(buf)
        BY <1>0, <1>7, <2>2
      <4>2. Got(s, size)[i] = buf[p + i]
        BY <1>1, <2>1, <4>1
      <4>3. buf[p + i] = w[i]
        BY <4>1 DEF Agree
      <4> QED BY <4>2, <4>3
    <3> QED BY <3>1
  <2>5. Got(s, size) = w
    BY <1>1, <2>2, <2>4, SeqEqual
  <2> QED BY <1>2, <2>3, <2>5
<1>8. Reached(r, p + Len(w))
  BY <1>6 DEF Reached
<1> QED BY <1>2, <1>4, <1>5, <1>6, <1>7, <1>8 DEF r, DataRead

\* Reading the length x.
LEMMA LengthStep ==
  ASSUME buf \in Seq(Nat), NEW s, ReaderType(s), NEW p \in Nat, Reached(s, p),
         NEW x \in Nat, Fits(x, NumLen), Agree(buf, p, Bytes(x, NumLen)),
         NEW need \in 1..NumLen
  PROVE  LengthRead(ReadLength(s, need), s, p, x, need)
<1> DEFINE r == ReadLength(s, need)
           d == read_from_mem(s, NumLen, need)
           w == Bytes(x, NumLen)
           old == Bytes(s.c, NumLen)
           n == Avail(s, NumLen)
           b == Got(s, NumLen) \o SubSeq(old, n + 1, NumLen)
<1>0. /\ w \in Seq(Nat) /\ Len(w) = NumLen /\ w[1] = x % Base
      /\ NumLen \in Nat /\ NumLen > 1 /\ need \in Nat /\ need > 0
      /\ Len(buf) \in Nat
  BY Sizes, BytesType
<1>1. s.cur \in 0..Len(buf) /\ s.c \in Nat /\ s.ok \in BOOLEAN
  BY DEF ReaderType
<1>2. /\ r.cur = d.cur /\ r.ok = d.ok /\ r.c = Value(b) /\ d.val = Got(s, NumLen)
      /\ d.cur = s.cur + n /\ (d.ok <=> s.ok /\ n >= need) /\ d.ok \in BOOLEAN
  <2>1. r.ok \in BOOLEAN /\ d.ok \in BOOLEAN /\ (r.ok <=> d.ok)
    BY ReadFields
  <2>2. r.ok = d.ok
    BY <2>1
  <2> QED BY <2>1, <2>2, ReadFields
<1>3. /\ ReaderType(d) /\ Reached(d, p + NumLen)
      /\ d.ok => s.ok /\ p + need <= Len(buf)
      /\ s.ok /\ p + NumLen <= Len(buf) => d.ok /\ d.val = w
  <2>1. need \in 0..Len(w) /\ need > 0 /\ NumLen = Len(w) /\ Agree(buf, p, w)
    BY <1>0
  <2> HIDE DEF w
  <2>2. DataRead(d, s, p, w, need)
    BY <1>0, <2>1, DataStep
  <2> HIDE DEF d
  <2> QED BY <2>1, <2>2 DEF DataRead
<1>4. /\ n \in 0..NumLen
      /\ Got(s, NumLen) \in Seq(Nat) /\ Len(Got(s, NumLen)) = n
      /\ \A i \in 1..n : Got(s, NumLen)[i] = buf[s.cur + i]
      /\ s.cur + n \in 0..Len(buf)
  BY <1>0, AvailIs
<1>5. old \in Seq(Nat) /\ Len(old) = NumLen
  BY <1>0, <1>1, BytesType
<1> HIDE DEF r, d, w, old, n
<1>6. /\ SubSeq(old, n + 1, NumLen) \in Seq(Nat)
      /\ Len(SubSeq(old, n + 1, NumLen)) = NumLen - n
  <2>1. \A i \in (n + 1)..NumLen : old[i] \in Nat
    <3>1. ASSUME NEW i \in (n + 1)..NumLen PROVE old[i] \in Nat
      <4>1. i \in 1..Len(old)
        BY <1>0, <1>4, <1>5
      <4> QED BY <1>5, <4>1
    <3> QED BY <3>1
  <2>2. n + 1 \in Int /\ NumLen \in Int
    BY <1>0, <1>4
  <2>3. /\ SubSeq(old, n + 1, NumLen) \in Seq(Nat)
        /\ Len(SubSeq(old, n + 1, NumLen)) = IF n + 1 <= NumLen THEN NumLen - (n + 1) + 1 ELSE 0
    BY <2>1, <2>2, SubSeqProperties
  <2>4. n \in Nat /\ NumLen \in Nat /\ n <= NumLen
    BY <1>0, <1>4
  <2>5. (IF n + 1 <= NumLen THEN NumLen - (n + 1) + 1 ELSE 0) = NumLen - n
    BY <2>4
  <2> QED BY <2>3, <2>5
<1>7. /\ b \in Seq(Nat) /\ Len(b) = NumLen
      /\ n > 0 => b[1] = Got(s, NumLen)[1]
  <2> DEFINE G == Got(s, NumLen)
             T == SubSeq(old, n + 1, NumLen)
  <2>1. G \in Seq(Nat) /\ Len(G) = n /\ T \in Seq(Nat) /\ Len(T) = NumLen - n
    BY <1>4, <1>6
  <2> HIDE DEF G, T
  <2>2. /\ G \o T \in Seq(Nat) /\ Len(G \o T) = Len(G) + Len(T)
        /\ \A i \in 1..(Len(G) + Len(T)) :
             (G \o T)[i] = IF i <= Len(G) THEN G[i] ELSE T[i - Len(G)]
    BY <2>1, ConcatProperties
  <2>3. /\ G \o T \in Seq(Nat) /\ Len(G \o T) = NumLen
        /\ n > 0 => (G \o T)[1] = G[1]
    BY <1>0, <1>4, <2>1, <2>2
  <2> QED BY <2>3 DEF G, T
<1> HIDE DEF b
<1>8. Value(b) \in Nat /\ (Value(b) = 0 => b[1] = 0)
  BY <1>0, <1>7, ValueType
<1>9. ReaderType(r) /\ Reached(r, p + NumLen) /\ (r.ok => s.ok /\ p + need <= Len(buf))
  BY <1>2, <1>3, <1>8 DEF ReaderType, Reached
<1>10. ASSUME s.ok, p + NumLen <= Len(buf) PROVE r.ok /\ r.c = x
  <2>1. d.ok /\ d.val = w
    BY <1>3, <1>10
  <2>2. Got(s, NumLen) = w /\ n = NumLen
    BY <1>0, <1>2, <1>4, <2>1
  <2>3. b = w
    <3>1. SubSeq(old, n + 1, NumLen) = <<>>
      BY <1>0, <1>4, <2>2, SubSeqEmpty
    <3> QED BY <1>0, <2>2, <3>1, ConcatEmptySeq DEF b
  <2>4. Value(w) = x
    BY <1>0, ValueOfBytes DEF w
  <2> QED BY <1>2, <2>1, <2>3, <2>4
<1>11. ASSUME r.ok, r.c = 0 PROVE x % Base = 0
  <2>1. s.ok /\ n >= need /\ p + need <= Len(buf)
    BY <1>2, <1>9, <1>11
  <2>2. s.cur = p /\ 1 \in 1..n
    BY <1>0, <1>4, <2>1 DEF Reached
  <2>a. Value(b) = 0 /\ n > 0
    BY <1>2, <1>4, <1>11, <2>2
  <2>b. b[1] = 0
    BY <1>8, <2>a
  <2>c. b[1] = Got(s, NumLen)[1]
    BY <1>7, <2>a
  <2>d. Got(s, NumLen)[1] = buf[s.cur + 1]
    BY <1>4, <2>2
  <2>3. b[1] = 0 /\ b[1] = buf[p + 1]
    BY <2>2, <2>b, <2>c, <2>d
  <2>4. buf[p + 1] = w[1]
    <3>1. 1 \in 1..Len(w) /\ p + 1 <= Len(buf)
      BY <1>0, <2>1
    <3>2. Agree(buf, p, w)
      BY DEF w
    <3> QED BY <3>1, <3>2 DEF Agree
  <2> QED BY <1>0, <2>3, <2>4
<1> QED BY <1>9, <1>10, <1>11 DEF r, LengthRead

\* A string behind its length.
LEMMA UnterminatedType ==
  ASSUME NEW w \in Seq(Nat)
  PROVE  Unterminated(w) \in Seq(Nat) /\ Len(Unterminated(w)) = NumLen + Len(w)
<1> DEFINE x == Len(w)
<1>1. x \in Nat /\ NumLen \in Nat
  BY Sizes
<1> HIDE DEF x
<1> DEFINE b == Bytes(x, NumLen)
<1>2. b \in Seq(Nat) /\ Len(b) = NumLen
  BY <1>1, BytesType
<1> HIDE DEF b
<1>3. b \o w \in Seq(Nat) /\ Len(b \o w) = NumLen + Len(w)
  BY <1>1, <1>2, ConcatProperties
<1> QED BY <1>3 DEF Unterminated, b, x

\* Reading a length and the bytes w that follow it.
LEMMA FieldStep ==
  ASSUME buf \in Seq(Nat), NEW s, ReaderType(s), NEW p \in Nat, Reached(s, p),
         NEW w \in Seq(Nat), Fits(Len(w), NumLen), Agree(buf, p, Unterminated(w)),
         NEW need \in 1..NumLen
  PROVE  FieldRead(ReadField(s, need), s, p, w, need)
<1> DEFINE l == ReadLength(s, need)
           r == ReadField(s, need)
           x == Len(w)
           q == p + (NumLen + x)
<1>0. /\ x \in Nat /\ NumLen \in Nat /\ Len(buf) \in Nat
      /\ Bytes(x, NumLen) \in Seq(Nat) /\ Len(Bytes(x, NumLen)) = NumLen
  <2>1. x \in Nat /\ NumLen \in Nat /\ Len(buf) \in Nat
    BY Sizes
  <2> HIDE DEF x
  <2> QED BY <2>1, BytesType
<1>1. q = (p + NumLen) + x
  BY <1>0
<1>2. Agree(buf, p, Bytes(x, NumLen)) /\ Agree(buf, p + NumLen, w)
  BY <1>0, AgreeConcat DEF Unterminated
<1>3. /\ ReaderType(l) /\ Reached(l, p + NumLen)
      /\ l.ok => s.ok /\ p + need <= Len(buf)
      /\ s.ok /\ p + NumLen <= Len(buf) => l.ok /\ l.c = x
      /\ l.ok /\ l.c = 0 => x % Base = 0
  <2>1. LengthRead(l, s, p, x, need)
    BY <1>0, <1>2, LengthStep
  <2> QED BY <2>1 DEF LengthRead
<1>4. r = read_from_mem(l, l.c, l.c)
  BY DEF ReadField
<1> HIDE DEF l, r, x, q
<1>5. l.cur \in 0..Len(buf) /\ l.c \in Nat /\ l.ok \in BOOLEAN
  BY <1>3 DEF ReaderType
<1>6. /\ Avail(l, l.c) \in 0..l.c /\ l.cur + Avail(l, l.c) \in 0..Len(buf)
      /\ r.cur = l.cur + Avail(l, l.c) /\ r.c = l.c
      /\ (r.ok <=> l.ok /\ Avail(l, l.c) >= l.c) /\ r.ok \in BOOLEAN
  <2>1. Avail(l, l.c) \in 0..l.c /\ l.cur + Avail(l, l.c) \in 0..Len(buf)
    BY <1>3, <1>5, AvailIs
  <2> QED BY <1>4, <2>1, ReadFields
<1>7. ReaderType(r) /\ (r.ok => l.ok)
  BY <1>5, <1>6 DEF ReaderType
<1>8. CASE p + NumLen <= Len(buf) /\ l.ok
  <2>1. l.c = x
    BY <1>3, <1>8
  <2>2. /\ Reached(r, (p + NumLen) + x)
        /\ r.ok => (x > 0 => (p + NumLen) + x <= Len(buf))
        /\ l.ok /\ (p + NumLen) + x <= Len(buf) => r.ok /\ r.val = w
    <3> DEFINE o == p + NumLen
    <3>1. x \in 0..Len(w) /\ o \in Nat /\ x = Len(w)
      BY <1>0 DEF x
    <3>2. Reached(l, o) /\ Agree(buf, o, w) /\ r = read_from_mem(l, x, x)
      BY <1>2, <1>3, <1>4, <2>1
    <3> HIDE DEF o
    <3>3. /\ Reached(r, o + Len(w))
          /\ r.ok => (x > 0 => o + x <= Len(buf))
          /\ l.ok /\ o + Len(w) <= Len(buf) => r.ok /\ r.val = w
      <4>1. DataRead(r, l, o, w, x)
        BY <1>3, <3>1, <3>2, DataStep
      <4> QED BY <4>1 DEF DataRead
    <3> QED BY <3>1, <3>3 DEF o
  <2>3. r.ok => q <= Len(buf)
    BY <1>0, <1>1, <1>8, <2>2
  <2> QED BY <1>0, <1>1, <1>3, <1>7, <1>8, <2>2, <2>3 DEF r, q, x, FieldRead
<1>9. CASE p + NumLen > Len(buf) /\ l.ok
  <2>1. l.cur = Len(buf) /\ q > Len(buf)
    BY <1>0, <1>1, <1>9, <1>3 DEF Reached
  <2>2. Avail(l, l.c) = 0
    BY <1>0, <1>5, <1>6, <2>1
  <2>3. ASSUME r.ok PROVE l.c = 0
    <3>1. Avail(l, l.c) >= l.c
      BY <1>6, <2>3
    <3> QED BY <1>5, <2>2, <3>1
  <2>4. r.cur = Len(buf)
    BY <1>0, <1>6, <2>1, <2>2
  <2>5. Reached(r, q)
    BY <1>0, <1>1, <2>1, <2>4 DEF Reached
  <2>6. ~(q <= Len(buf))
    BY <1>0, <1>1, <2>1
  <2> QED BY <1>3, <1>7, <1>9, <2>3, <2>5, <2>6 DEF r, q, x, FieldRead
<1>10. CASE ~l.ok
  <2>1. ~r.ok
    BY <1>7, <1>10
  <2>2. s.ok => ~(q <= Len(buf))
    BY <1>0, <1>1, <1>3, <1>10
  <2> QED BY <1>7, <2>1, <2>2 DEF r, q, x, Reached, FieldRead
<1> QED BY <1>0, <1>8, <1>9, <1>10

-----------------------------------------------------------------------------
(***************************************************************************)
(* The metadata in a file, part by part from the end.                      *)
(***************************************************************************)

UnitRecord == [old_fname : Name, new_fname : Name, old_faddr : Addr]

RefRecord == [target_name : Name, reference_name : Name,
              target_offset : Addr, patch_offset : Addr, tls : Nat]

Id == {s \in Seq(Nat) : Len(s) = IdLen}

\* Metadata that the packer may write.
Writable(m) ==
  /\ m.patch_id \in Id /\ m.build_id = BuildId /\ m.name = LibName
  /\ m.units \in Seq(UnitRecord) /\ Fits(Len(m.units), NumLen)
  /\ m.deps \in Seq(Id) /\ Fits(Len(m.deps), NumLen)
  /\ m.refs \in Seq(RefRecord) /\ Fits(Len(m.refs), NumLen)

RefPart(m) == Bytes(Len(m.refs), NumLen) \o RefsBytes(m.refs)

DepPart(m) == Bytes(Len(m.deps), NumLen) \o (FlattenSeq(m.deps) \o RefPart(m))

UnitPart(m) == Bytes(Len(m.units), NumLen) \o (UnitsBytes(m.units) \o DepPart(m))

NamePart(t, m) ==
  IF t = 1 THEN Terminated(m.name) \o UnitPart(m) ELSE Unterminated(m.name)

\* What follows type and id in the file, and the path in memory.
TailPart(t, m) == Unterminated(m.build_id) \o NamePart(t, m)

\* The file and the memory for an apply patch (1) and a reverse patch (2).
Written(t, m) == IF t = 1 THEN create_patch_metadata_file(m) ELSE write_reverse_patch(m)

Memory(t, m) == <<t>> \o (m.patch_id \o (Terminated(Path) \o TailPart(t, m)))

\* What is behind n more elements of a sequence, and those n elements.
Done(s, n) == SubSeq(s, 1, Len(s) - n)

Todo(s, n) == SubSeq(s, Len(s) - n + 1, Len(s))

\* What the assumptions say about the fixed parts.
LEMMA FixedParts ==
  /\ Path \in Name /\ Path # <<>> /\ LibName \in Name
  /\ Len(LibName) \in Nat /\ Len(LibName) > 0 /\ Len(LibName) < Base
  /\ BuildId \in Seq(Nat) /\ Fits(Len(BuildId), NumLen)
BY PackerAssumption, Sizes

\* Two sequences of numbers.
LEMMA Concat ==
  ASSUME NEW s \in Seq(Nat), NEW t \in Seq(Nat)
  PROVE  s \o t \in Seq(Nat) /\ Len(s \o t) = Len(s) + Len(t) /\ Len(s) \in Nat /\ Len(t) \in Nat
BY ConcatProperties

\* The same for sequences of numbers.
LEMMA Regroup ==
  \A s, t, u \in Seq(Nat) : Regroups(s, t, u)
BY Assoc

\* The bytes of a string with its terminator.
LEMMA TerminatedType ==
  ASSUME NEW s \in Name
  PROVE  Terminated(s) \in Seq(Nat) /\ Len(Terminated(s)) = NumLen + Len(Append(s, 0))
BY CStringOfName, UnterminatedType DEF Terminated

\* The bytes of a length and of an address.
LEMMA NumberType ==
  ASSUME NEW n \in Nat
  PROVE  /\ Bytes(n, NumLen) \in Seq(Nat) /\ Len(Bytes(n, NumLen)) = NumLen
         /\ Bytes(n, AddrLen) \in Seq(Nat) /\ Len(Bytes(n, AddrLen)) = AddrLen
BY Sizes, BytesType

\* The bytes of a function and of a reference are numbers.
LEMMA UnitBytesType ==
  ASSUME NEW u \in UnitRecord
  PROVE  UnitBytes(u) \in Seq(Nat)
<1>1. u.old_fname \in Name /\ u.new_fname \in Name /\ u.old_faddr \in Nat
  BY DEF UnitRecord, Addr
<1> DEFINE a == Terminated(u.old_fname)
           b == Terminated(u.new_fname)
           c == Bytes(u.old_faddr, AddrLen)
<1>2. a \in Seq(Nat) /\ b \in Seq(Nat) /\ c \in Seq(Nat)
  BY <1>1, TerminatedType, NumberType
<1>3. UnitBytes(u) = (a \o b) \o c
  BY DEF UnitBytes
<1> HIDE DEF a, b, c
<1> QED BY <1>2, <1>3, Concat

\* The same for a reference.
LEMMA RefBytesType ==
  ASSUME NEW r \in RefRecord
  PROVE  RefBytes(r) \in Seq(Nat)
<1>1. /\ r.target_name \in Name /\ r.reference_name \in Name /\ r.tls \in Nat
      /\ r.target_offset \in Nat /\ r.patch_offset \in Nat
  BY DEF RefRecord, Addr
<1> DEFINE a == Terminated(r.target_name)
           b == Terminated(r.reference_name)
           c == Bytes(r.target_offset, AddrLen)
           d == Bytes(r.patch_offset, AddrLen)
           e == <<r.tls>>
<1>2. a \in Seq(Nat) /\ b \in Seq(Nat) /\ c \in Seq(Nat) /\ d \in Seq(Nat) /\ e \in Seq(Nat)
  <2>1. a \in Seq(Nat) /\ b \in Seq(Nat)
    BY <1>1, TerminatedType
  <2>2. c \in Seq(Nat) /\ d \in Seq(Nat)
    BY <1>1, NumberType
  <2>3. e \in Seq(Nat)
    BY <1>1
  <2> QED BY <2>1, <2>2, <2>3
<1>3. RefBytes(r) = (((a \o b) \o c) \o d) \o e
  BY DEF RefBytes
<1> HIDE DEF a, b, c, d, e
<1>4. a \o b \in Seq(Nat)
  BY <1>2, Concat
<1>5. (a \o b) \o c \in Seq(Nat)
  BY <1>2, <1>4, Concat
<1>6. ((a \o b) \o c) \o d \in Seq(Nat)
  BY <1>2, <1>5, Concat
<1> QED BY <1>2, <1>3, <1>6, Concat

\* The bytes of units, dependencies and references.
LEMMA ListBytesType ==
  /\ \A us \in Seq(UnitRecord) : UnitsBytes(us) \in Seq(Nat)
  /\ \A ds \in Seq(Id) : FlattenSeq(ds) \in Seq(Nat)
  /\ \A rs \in Seq(RefRecord) : RefsBytes(rs) \in Seq(Nat)
<1>1. ASSUME NEW us \in Seq(UnitRecord) PROVE UnitsBytes(us) \in Seq(Nat)
  <2> DEFINE b == [i \in DOMAIN us |-> UnitBytes(us[i])]
  <2>1. b \in Seq(Seq(Nat))
    <3>1. ASSUME NEW i \in 1..Len(us) PROVE UnitBytes(us[i]) \in Seq(Nat)
      <4>1. us[i] \in UnitRecord
        OBVIOUS
      <4> QED BY <4>1, UnitBytesType
    <3>2. DOMAIN us = 1..Len(us) /\ Len(us) \in Nat
      OBVIOUS
    <3>3. b \in [1..Len(us) -> Seq(Nat)]
      BY <3>1, <3>2
    <3> HIDE DEF b
    <3> QED BY <3>2, <3>3
  <2>2. UnitsBytes(us) = FlattenSeq(b)
    BY DEF UnitsBytes
  <2> HIDE DEF b
  <2> QED BY <2>1, <2>2, FlattenType
<1>2. ASSUME NEW ds \in Seq(Id) PROVE FlattenSeq(ds) \in Seq(Nat)
  <2>1. ds \in Seq(Seq(Nat))
    BY DEF Id
  <2> QED BY <2>1, FlattenType
<1>3. ASSUME NEW rs \in Seq(RefRecord) PROVE RefsBytes(rs) \in Seq(Nat)
  <2> DEFINE b == [i \in DOMAIN rs |-> RefBytes(rs[i])]
  <2>1. b \in Seq(Seq(Nat))
    <3>1. ASSUME NEW i \in 1..Len(rs) PROVE RefBytes(rs[i]) \in Seq(Nat)
      <4>1. rs[i] \in RefRecord
        OBVIOUS
      <4> QED BY <4>1, RefBytesType
    <3>2. DOMAIN rs = 1..Len(rs) /\ Len(rs) \in Nat
      OBVIOUS
    <3>3. b \in [1..Len(rs) -> Seq(Nat)]
      BY <3>1, <3>2
    <3> HIDE DEF b
    <3> QED BY <3>2, <3>3
  <2>2. RefsBytes(rs) = FlattenSeq(b)
    BY DEF RefsBytes
  <2> HIDE DEF b
  <2> QED BY <2>1, <2>2, FlattenType
<1> QED BY <1>1, <1>2, <1>3

\* The parts of the file.
LEMMA PartTypes ==
  ASSUME NEW m, Writable(m)
  PROVE  /\ Len(m.units) \in Nat /\ Len(m.deps) \in Nat /\ Len(m.refs) \in Nat
         /\ m.patch_id \in Seq(Nat) /\ Len(m.patch_id) = IdLen
         /\ RefPart(m) \in Seq(Nat) /\ DepPart(m) \in Seq(Nat) /\ UnitPart(m) \in Seq(Nat)
         /\ \A t \in {1, 2} : NamePart(t, m) \in Seq(Nat) /\ TailPart(t, m) \in Seq(Nat)
<1>1. Len(m.units) \in Nat /\ Len(m.deps) \in Nat /\ Len(m.refs) \in Nat
  BY DEF Writable
<1>2. m.patch_id \in Seq(Nat) /\ Len(m.patch_id) = IdLen
  BY DEF Writable, Id
<1>3. /\ Bytes(Len(m.refs), NumLen) \in Seq(Nat) /\ Bytes(Len(m.deps), NumLen) \in Seq(Nat)
      /\ Bytes(Len(m.units), NumLen) \in Seq(Nat)
  BY <1>1, NumberType
<1>4. /\ RefsBytes(m.refs) \in Seq(Nat) /\ FlattenSeq(m.deps) \in Seq(Nat)
      /\ UnitsBytes(m.units) \in Seq(Nat)
  BY ListBytesType DEF Writable
<1>5. RefPart(m) \in Seq(Nat)
  BY <1>3, <1>4, Concat DEF RefPart
<1>6. DepPart(m) \in Seq(Nat)
  <2>1. FlattenSeq(m.deps) \o RefPart(m) \in Seq(Nat)
    BY <1>4, <1>5, Concat
  <2> QED BY <1>3, <2>1, Concat DEF DepPart
<1>7. UnitPart(m) \in Seq(Nat)
  <2>1. UnitsBytes(m.units) \o DepPart(m) \in Seq(Nat)
    BY <1>4, <1>6, Concat
  <2> QED BY <1>3, <2>1, Concat DEF UnitPart
<1>8. ASSUME NEW t \in {1, 2} PROVE NamePart(t, m) \in Seq(Nat) /\ TailPart(t, m) \in Seq(Nat)
  <2>1. m.name \in Name /\ m.build_id \in Seq(Nat)
    BY FixedParts DEF Writable
  <2>2. Terminated(m.name) \in Seq(Nat) /\ Unterminated(m.name) \in Seq(Nat)
    BY <2>1, CStringOfName, TerminatedType, UnterminatedType
  <2>3. Terminated(m.name) \o UnitPart(m) \in Seq(Nat)
    BY <1>7, <2>2, Concat
  <2>4. NamePart(t, m) \in Seq(Nat)
    BY <2>2, <2>3 DEF NamePart
  <2>5. Unterminated(m.build_id) \in Seq(Nat)
    BY <2>1, UnterminatedType
  <2> QED BY <2>4, <2>5, Concat DEF TailPart
<1> QED BY <1>1, <1>2, <1>5, <1>6, <1>7, <1>8

\* One element more of a sequence.
LEMMA OneMore ==
  ASSUME NEW S, NEW s \in Seq(S), NEW n \in 1..Len(s)
  PROVE  /\ Len(s) - n + 1 \in 1..Len(s)
         /\ Todo(s, n) \in Seq(S) /\ Todo(s, n - 1) \in Seq(S)
         /\ Len(Todo(s, n)) = n /\ Len(Todo(s, n - 1)) = n - 1
         /\ Todo(s, n)[1] = s[Len(s) - n + 1]
         /\ \A i \in 1..(n - 1) : Todo(s, n - 1)[i] = Todo(s, n)[i + 1]
         /\ Append(Done(s, n), s[Len(s) - n + 1]) = Done(s, n - 1)
         /\ Done(s, n) = <<>> => n = Len(s)
<1> DEFINE k == Len(s)
<1>0. k \in Nat /\ n \in Nat /\ n > 0 /\ n <= k /\ \A i \in 1..k : s[i] \in S
  OBVIOUS
<1> HIDE DEF k
<1>1. ASSUME NEW j \in 0..k
      PROVE  /\ Todo(s, j) \in Seq(S) /\ Len(Todo(s, j)) = j
             /\ \A i \in 1..j : Todo(s, j)[i] = s[k - j + i]
             /\ Done(s, j) \in Seq(S) /\ Len(Done(s, j)) = k - j
             /\ \A i \in 1..(k - j) : Done(s, j)[i] = s[i]
  <2>1. /\ \A i \in (k - j + 1)..k : s[i] \in S
        /\ \A i \in 1..(k - j) : s[i] \in S
        /\ k - j + 1 \in Int /\ k \in Int /\ 1 \in Int /\ k - j \in Int
    BY <1>0
  <2>2. /\ SubSeq(s, k - j + 1, k) \in Seq(S)
        /\ Len(SubSeq(s, k - j + 1, k)) = IF k - j + 1 <= k THEN k - (k - j + 1) + 1 ELSE 0
        /\ \A i \in 1..(k - (k - j + 1) + 1) :
             SubSeq(s, k - j + 1, k)[i] = s[(k - j + 1) + i - 1]
    BY <2>1, SubSeqProperties
  <2>3. /\ SubSeq(s, 1, k - j) \in Seq(S)
        /\ Len(SubSeq(s, 1, k - j)) = IF 1 <= k - j THEN k - j - 1 + 1 ELSE 0
        /\ \A i \in 1..(k - j - 1 + 1) : SubSeq(s, 1, k - j)[i] = s[1 + i - 1]
    BY <2>1, SubSeqProperties
  <2> DEFINE y == Todo(s, j)
             z == Done(s, j)
  <2>a. y = SubSeq(s, k - j + 1, k) /\ z = SubSeq(s, 1, k - j)
    BY DEF Todo, Done, k
  <2>4. /\ y \in Seq(S) /\ Len(y) = IF k - j + 1 <= k THEN k - (k - j + 1) + 1 ELSE 0
        /\ \A i \in 1..(k - (k - j + 1) + 1) : y[i] = s[(k - j + 1) + i - 1]
    BY <2>a, <2>2
  <2>5. /\ z \in Seq(S) /\ Len(z) = IF 1 <= k - j THEN k - j - 1 + 1 ELSE 0
        /\ \A i \in 1..(k - j - 1 + 1) : z[i] = s[1 + i - 1]
    BY <2>a, <2>3
  <2> HIDE DEF y, z
  <2>6. Len(y) = j /\ Len(z) = k - j
    BY <1>0, <2>4, <2>5
  <2>7. ASSUME NEW i \in 1..j PROVE y[i] = s[k - j + i]
    <3>1. i \in 1..(k - (k - j + 1) + 1) /\ (k - j + 1) + i - 1 = k - j + i
      BY <1>0
    <3> QED BY <2>4, <3>1
  <2>8. ASSUME NEW i \in 1..(k - j) PROVE z[i] = s[i]
    <3>1. i \in 1..(k - j - 1 + 1) /\ 1 + i - 1 = i
      BY <1>0
    <3> QED BY <2>5, <3>1
  <2> QED BY <2>4, <2>5, <2>6, <2>7, <2>8 DEF y, z
<1>2. n \in 0..k /\ n - 1 \in 0..k /\ k - n + 1 \in 1..k /\ k - (n - 1) = k - n + 1
  BY <1>0
<1>4. /\ Todo(s, n) \in Seq(S) /\ Len(Todo(s, n)) = n
      /\ \A i \in 1..n : Todo(s, n)[i] = s[k - n + i]
      /\ Done(s, n) \in Seq(S) /\ Len(Done(s, n)) = k - n
      /\ \A i \in 1..(k - n) : Done(s, n)[i] = s[i]
  BY <1>1, <1>2
<1>5. /\ Todo(s, n - 1) \in Seq(S) /\ Len(Todo(s, n - 1)) = n - 1
      /\ \A i \in 1..(n - 1) : Todo(s, n - 1)[i] = s[k - (n - 1) + i]
      /\ Done(s, n - 1) \in Seq(S) /\ Len(Done(s, n - 1)) = k - (n - 1)
      /\ \A i \in 1..(k - (n - 1)) : Done(s, n - 1)[i] = s[i]
  BY <1>1, <1>2
<1>6. Todo(s, n)[1] = s[k - n + 1]
  BY <1>0, <1>4
<1>7. ASSUME NEW i \in 1..(n - 1) PROVE Todo(s, n - 1)[i] = Todo(s, n)[i + 1]
  <2>1. i + 1 \in 1..n /\ k - (n - 1) + i = k - n + (i + 1)
    BY <1>0
  <2>2. Todo(s, n)[i + 1] = s[k - n + (i + 1)]
    BY <1>4, <2>1
  <2>3. Todo(s, n - 1)[i] = s[k - (n - 1) + i]
    BY <1>5
  <2> QED BY <2>1, <2>2, <2>3
<1>8. Append(Done(s, n), s[k - n + 1]) = Done(s, n - 1)
  <2> DEFINE d == Done(s, n)
             e == Done(s, n - 1)
             x == s[k - n + 1]
  <2>1. /\ d \in Seq(S) /\ e \in Seq(S) /\ x \in S /\ Len(d) = k - n /\ Len(e) = k - n + 1
        /\ \A i \in 1..(k - n) : d[i] = e[i]
        /\ e[k - n + 1] = x
    <3>1. d \in Seq(S) /\ e \in Seq(S) /\ x \in S /\ Len(d) = k - n /\ Len(e) = k - n + 1
      BY <1>0, <1>2, <1>4, <1>5
    <3>2. ASSUME NEW i \in 1..(k - n) PROVE d[i] = e[i]
      <4>1. i \in 1..(k - (n - 1))
        BY <1>0
      <4> QED BY <1>4, <1>5, <4>1
    <3>3. k - n + 1 \in 1..(k - (n - 1))
      BY <1>0
    <3> QED BY <1>5, <3>1, <3>2, <3>3
  <2> HIDE DEF d, e, x
  <2>2. /\ Append(d, x) \in Seq(S) /\ Len(Append(d, x)) = Len(e)
        /\ \A i \in 1..Len(e) : Append(d, x)[i] = e[i]
    <3> DEFINE a == Append(d, x)
               l == Len(d)
    <3>1. /\ a \in Seq(S) /\ Len(a) = l + 1 /\ a[l + 1] = x
          /\ \A i \in 1..l : a[i] = d[i]
      BY <2>1, AppendProperties
    <3> HIDE DEF a
    <3>2. l \in Nat /\ l = k - n /\ Len(e) = l + 1
      BY <1>0, <2>1
    <3>3. e[l + 1] = x /\ \A i \in 1..l : d[i] = e[i]
      BY <2>1, <3>2
    <3> HIDE DEF l
    <3>4. ASSUME NEW i \in 1..(l + 1) PROVE a[i] = e[i]
      <4>1. i \in 1..l \/ i = l + 1
        BY <3>2
      <4> QED BY <3>1, <3>3, <4>1
    <3> QED BY <3>1, <3>2, <3>4 DEF a
  <2>3. Append(d, x) = e
    BY <2>1, <2>2, SeqEqual
  <2> QED BY <2>3 DEF d, e, x
<1>9. ASSUME Done(s, n) = <<>> PROVE n = k
  BY <1>0, <1>4, <1>9
<1> QED BY <1>2, <1>4, <1>5, <1>6, <1>7, <1>8, <1>9 DEF k

\* All elements, and none.
LEMMA AllAndNone ==
  ASSUME NEW S, NEW s \in Seq(S)
  PROVE  /\ Todo(s, 0) = <<>> /\ Todo(s, Len(s)) = s
         /\ Done(s, 0) = s /\ Done(s, Len(s)) = <<>>
<1>1. Len(s) \in Nat /\ Len(s) - Len(s) + 1 = 1 /\ Len(s) - 0 = Len(s) /\ Len(s) - Len(s) = 0
      /\ Len(s) - 0 + 1 = Len(s) + 1
  OBVIOUS
<1>2. SubSeq(s, 1, Len(s)) = s
  BY SubSeqFull
<1>3. SubSeq(s, Len(s) + 1, Len(s)) = <<>> /\ SubSeq(s, 1, 0) = <<>>
  BY <1>1, SubSeqEmpty
<1> QED BY <1>1, <1>2, <1>3 DEF Todo, Done

\* The bytes of a list begin with those of its first element.
LEMMA UnitsBytesHead ==
  ASSUME NEW us \in Seq(UnitRecord), NEW n \in 1..Len(us)
  PROVE  UnitsBytes(Todo(us, n)) = UnitBytes(us[Len(us) - n + 1]) \o UnitsBytes(Todo(us, n - 1))
<1> DEFINE a == Todo(us, n)
           b == Todo(us, n - 1)
           s == [i \in DOMAIN a |-> UnitBytes(a[i])]
           t == [i \in DOMAIN b |-> UnitBytes(b[i])]
<1>1. /\ a \in Seq(UnitRecord) /\ b \in Seq(UnitRecord) /\ Len(a) = n /\ Len(b) = n - 1
      /\ a[1] = us[Len(us) - n + 1] /\ \A i \in 1..(n - 1) : b[i] = a[i + 1]
  BY OneMore
<1>2. UnitsBytes(a) = FlattenSeq(s) /\ UnitsBytes(b) = FlattenSeq(t)
  BY DEF UnitsBytes
<1> HIDE DEF a, b
<1>3. /\ DOMAIN a = 1..n /\ DOMAIN b = 1..(n - 1) /\ n \in Nat /\ n - 1 \in Nat
      /\ \A i \in 1..n : UnitBytes(a[i]) \in Seq(Nat)
      /\ \A i \in 1..(n - 1) : UnitBytes(b[i]) \in Seq(Nat)
  <2>1. n \in Nat /\ n - 1 \in Nat
    OBVIOUS
  <2>2. DOMAIN a = 1..n /\ DOMAIN b = 1..(n - 1)
    BY <1>1, <2>1
  <2>3. /\ \A i \in 1..n : a[i] \in UnitRecord
        /\ \A i \in 1..(n - 1) : b[i] \in UnitRecord
    BY <1>1, <2>1
  <2> QED BY <2>1, <2>2, <2>3, UnitBytesType
<1>4. s \in [1..n -> Seq(Nat)] /\ t \in [1..(n - 1) -> Seq(Nat)]
  BY <1>3
<1>5. s[1] = UnitBytes(a[1]) /\ \A i \in 1..(n - 1) : t[i] = s[i + 1]
  <2>1. \A i \in 1..(n - 1) : i + 1 \in 1..n
    BY <1>3
  <2>2. 1 \in 1..n
    BY <1>3
  <2> QED BY <1>1, <1>3, <2>1, <2>2
<1> HIDE DEF s, t
<1>6. s \in Seq(Seq(Nat)) /\ t \in Seq(Seq(Nat)) /\ Len(s) = n /\ Len(t) = n - 1
  <2>1. n \in Nat /\ n - 1 \in Nat
    BY <1>3
  <2>2. s \in Seq(Seq(Nat)) /\ Len(s) = n
    BY <1>4, <2>1, FunctionIsSeq
  <2>3. t \in Seq(Seq(Nat)) /\ Len(t) = n - 1
    BY <1>4, <2>1, FunctionIsSeq
  <2> QED BY <2>2, <2>3
<1>7. FlattenSeq(s) = s[1] \o FlattenSeq(t)
  <2>1. Len(s) = Len(t) + 1 /\ \A i \in 1..Len(t) : t[i] = s[i + 1]
    <3>1. n \in Nat /\ Len(s) = n /\ Len(t) = n - 1
      BY <1>3, <1>6
    <3>2. Len(s) = Len(t) + 1
      BY <3>1
    <3> QED BY <1>5, <3>1, <3>2
  <2> QED BY <1>6, <2>1, FlattenHead
<1> QED BY <1>1, <1>2, <1>5, <1>7 DEF a, b

\* The same for references.
LEMMA RefsBytesHead ==
  ASSUME NEW rs \in Seq(RefRecord), NEW n \in 1..Len(rs)
  PROVE  RefsBytes(Todo(rs, n)) = RefBytes(rs[Len(rs) - n + 1]) \o RefsBytes(Todo(rs, n - 1))
<1> DEFINE a == Todo(rs, n)
           b == Todo(rs, n - 1)
           s == [i \in DOMAIN a |-> RefBytes(a[i])]
           t == [i \in DOMAIN b |-> RefBytes(b[i])]
<1>1. /\ a \in Seq(RefRecord) /\ b \in Seq(RefRecord) /\ Len(a) = n /\ Len(b) = n - 1
      /\ a[1] = rs[Len(rs) - n + 1] /\ \A i \in 1..(n - 1) : b[i] = a[i + 1]
  BY OneMore
<1>2. RefsBytes(a) = FlattenSeq(s) /\ RefsBytes(b) = FlattenSeq(t)
  BY DEF RefsBytes
<1> HIDE DEF a, b
<1>3. /\ DOMAIN a = 1..n /\ DOMAIN b = 1..(n - 1) /\ n \in Nat /\ n - 1 \in Nat
      /\ \A i \in 1..n : RefBytes(a[i]) \in Seq(Nat)
      /\ \A i \in 1..(n - 1) : RefBytes(b[i]) \in Seq(Nat)
  <2>1. n \in Nat /\ n - 1 \in Nat
    OBVIOUS
  <2>2. DOMAIN a = 1..n /\ DOMAIN b = 1..(n - 1)
    BY <1>1, <2>1
  <2>3. /\ \A i \in 1..n : a[i] \in RefRecord
        /\ \A i \in 1..(n - 1) : b[i] \in RefRecord
    BY <1>1, <2>1
  <2> QED BY <2>1, <2>2, <2>3, RefBytesType
<1>4. s \in [1..n -> Seq(Nat)] /\ t \in [1..(n - 1) -> Seq(Nat)]
  BY <1>3
<1>5. s[1] = RefBytes(a[1]) /\ \A i \in 1..(n - 1) : t[i] = s[i + 1]
  <2>1. \A i \in 1..(n - 1) : i + 1 \in 1..n
    BY <1>3
  <2>2. 1 \in 1..n
    BY <1>3
  <2> QED BY <1>1, <1>3, <2>1, <2>2
<1> HIDE DEF s, t
<1>6. s \in Seq(Seq(Nat)) /\ t \in Seq(Seq(Nat)) /\ Len(s) = n /\ Len(t) = n - 1
  <2>1. n \in Nat /\ n - 1 \in Nat
    BY <1>3
  <2>2. s \in Seq(Seq(Nat)) /\ Len(s) = n
    BY <1>4, <2>1, FunctionIsSeq
  <2>3. t \in Seq(Seq(Nat)) /\ Len(t) = n - 1
    BY <1>4, <2>1, FunctionIsSeq
  <2> QED BY <2>2, <2>3
<1>7. FlattenSeq(s) = s[1] \o FlattenSeq(t)
  <2>1. Len(s) = Len(t) + 1 /\ \A i \in 1..Len(t) : t[i] = s[i + 1]
    <3>1. n \in Nat /\ Len(s) = n /\ Len(t) = n - 1
      BY <1>3, <1>6
    <3>2. Len(s) = Len(t) + 1
      BY <3>1
    <3> QED BY <1>5, <3>1, <3>2
  <2> QED BY <1>6, <2>1, FlattenHead
<1> QED BY <1>1, <1>2, <1>5, <1>7 DEF a, b

\* The same for dependencies.
LEMMA DepsBytesHead ==
  ASSUME NEW ds \in Seq(Id), NEW n \in 1..Len(ds)
  PROVE  FlattenSeq(Todo(ds, n)) = ds[Len(ds) - n + 1] \o FlattenSeq(Todo(ds, n - 1))
<1> DEFINE a == Todo(ds, n)
           b == Todo(ds, n - 1)
<1>0. ds \in Seq(Seq(Nat)) /\ n \in Nat /\ n - 1 \in Nat
  BY DEF Id
<1>1. /\ a \in Seq(Seq(Nat)) /\ b \in Seq(Seq(Nat)) /\ Len(a) = n /\ Len(b) = n - 1
      /\ a[1] = ds[Len(ds) - n + 1] /\ \A i \in 1..(n - 1) : b[i] = a[i + 1]
  BY <1>0, OneMore
<1> HIDE DEF a, b
<1>2. Len(a) = Len(b) + 1 /\ \A i \in 1..Len(b) : b[i] = a[i + 1]
  BY <1>0, <1>1
<1>3. FlattenSeq(a) = a[1] \o FlattenSeq(b)
  BY <1>1, <1>2, FlattenHead
<1> QED BY <1>1, <1>3 DEF a, b

\* The bytes of an empty list.
LEMMA NoBytes ==
  UnitsBytes(<<>>) = <<>> /\ RefsBytes(<<>>) = <<>> /\ FlattenSeq(<<>>) = <<>>
<1>1. <<>> \in Seq(Nat) /\ Len(<<>>) = 0
  OBVIOUS
<1>2. FlattenSeq(<<>>) = <<>>
  BY <1>1, FlattenEmpty
<1>3. [i \in DOMAIN <<>> |-> UnitBytes(<<>>[i])] = <<>>
  OBVIOUS
<1>4. [i \in DOMAIN <<>> |-> RefBytes(<<>>[i])] = <<>>
  OBVIOUS
<1> QED BY <1>2, <1>3, <1>4 DEF UnitsBytes, RefsBytes

\* The whole file: type, id and the rest.
LEMMA WrittenIs ==
  ASSUME NEW m, Writable(m), NEW t \in {1, 2}
  PROVE  Written(t, m) = (<<t>> \o m.patch_id) \o TailPart(t, m)
<1> DEFINE h == <<t>> \o m.patch_id
           u == Unterminated(m.build_id)
           k == Terminated(m.name)
           a == Bytes(Len(m.units), NumLen)
           b == UnitsBytes(m.units)
           c == Bytes(Len(m.deps), NumLen)
           d == FlattenSeq(m.deps)
           e == Bytes(Len(m.refs), NumLen)
           f == RefsBytes(m.refs)
<1>1. h \in Seq(Nat)
  <2>1. <<t>> \in Seq(Nat) /\ m.patch_id \in Seq(Nat)
    BY PartTypes
  <2> QED BY <2>1, Concat
<1>2. u \in Seq(Nat) /\ k \in Seq(Nat)
  BY FixedParts, UnterminatedType, TerminatedType DEF Writable
<1>3. a \in Seq(Nat) /\ c \in Seq(Nat) /\ e \in Seq(Nat)
  BY PartTypes, NumberType
<1>4. b \in Seq(Nat) /\ d \in Seq(Nat) /\ f \in Seq(Nat)
  BY ListBytesType DEF Writable
<1>5. t = 1 => Written(t, m) = (((((((h \o u) \o k) \o a) \o b) \o c) \o d) \o e) \o f
  BY DEF Written, create_patch_metadata_file, Header
<1>6. t = 2 => Written(t, m) = (h \o u) \o Unterminated(m.name)
  BY DEF Written, write_reverse_patch, Header
<1>7. t = 1 => TailPart(t, m) = u \o (k \o (a \o (b \o (c \o (d \o (e \o f))))))
  BY DEF TailPart, NamePart, UnitPart, DepPart, RefPart
<1>8. t = 2 => TailPart(t, m) = u \o Unterminated(m.name)
  BY DEF TailPart, NamePart
<1>9. Unterminated(m.name) \in Seq(Nat)
  BY FixedParts, CStringOfName, UnterminatedType DEF Writable
<1>10. CASE t = 2
  <2> DEFINE z == Unterminated(m.name)
  <2>1. /\ Written(t, m) = (h \o u) \o z /\ TailPart(t, m) = u \o z
        /\ h \in Seq(Nat) /\ u \in Seq(Nat) /\ z \in Seq(Nat)
    BY <1>1, <1>2, <1>6, <1>8, <1>9, <1>10
  <2> HIDE DEF h, u, z
  <2>2. (h \o u) \o z = h \o (u \o z)
    <3>1. Regroups(h, u, z)
      BY <2>1, Regroup
    <3> QED BY <3>1 DEF Regroups
  <2>3. Written(t, m) = h \o TailPart(t, m)
    BY <2>1, <2>2
  <2> QED BY <2>3 DEF h
<1>11. CASE t = 1
  <2> HIDE DEF h, u, k, a, b, c, d, e, f
  <2> DEFINE x1 == h \o u
             x2 == x1 \o k
             x3 == x2 \o a
             x4 == x3 \o b
             x5 == x4 \o c
             x6 == x5 \o d
             y6 == e \o f
             y5 == d \o y6
             y4 == c \o y5
             y3 == b \o y4
             y2 == a \o y3
             y1 == k \o y2
  <2>1. Written(t, m) = (x6 \o e) \o f /\ TailPart(t, m) = u \o y1
    BY <1>5, <1>7, <1>11
  <2>2. /\ x1 = h \o u /\ x2 = x1 \o k /\ x3 = x2 \o a /\ x4 = x3 \o b
        /\ x5 = x4 \o c /\ x6 = x5 \o d
        /\ y6 = e \o f /\ y5 = d \o y6 /\ y4 = c \o y5 /\ y3 = b \o y4
        /\ y2 = a \o y3 /\ y1 = k \o y2
    OBVIOUS
  <2> HIDE DEF x1, x2, x3, x4, x5, x6, y6, y5, y4, y3, y2, y1
  <2>3. x1 \in Seq(Nat)
    BY <1>1, <1>2, <2>2, Concat
  <2>4. x2 \in Seq(Nat)
    BY <1>2, <2>2, <2>3, Concat
  <2>5. x3 \in Seq(Nat)
    BY <1>3, <2>2, <2>4, Concat
  <2>6. x4 \in Seq(Nat)
    BY <1>4, <2>2, <2>5, Concat
  <2>7. x5 \in Seq(Nat)
    BY <1>3, <2>2, <2>6, Concat
  <2>8. x6 \in Seq(Nat)
    BY <1>4, <2>2, <2>7, Concat
  <2>9. y6 \in Seq(Nat)
    BY <1>3, <1>4, <2>2, Concat
  <2>10. y5 \in Seq(Nat)
    BY <1>4, <2>2, <2>9, Concat
  <2>11. y4 \in Seq(Nat)
    BY <1>3, <2>2, <2>10, Concat
  <2>12. y3 \in Seq(Nat)
    BY <1>4, <2>2, <2>11, Concat
  <2>13. y2 \in Seq(Nat)
    BY <1>3, <2>2, <2>12, Concat
  <2>14. y1 \in Seq(Nat)
    BY <1>2, <2>2, <2>13, Concat
  <2>15. (x6 \o e) \o f = x6 \o (e \o f)
    <3>1. Regroups(x6, e, f)
      BY <1>3, <1>4, <2>8, Regroup
    <3> QED BY <3>1 DEF Regroups
  <2>16. (x5 \o d) \o y6 = x5 \o (d \o y6)
    <3>1. Regroups(x5, d, y6)
      BY <1>4, <2>7, <2>9, Regroup
    <3> QED BY <3>1 DEF Regroups
  <2>17. (x4 \o c) \o y5 = x4 \o (c \o y5)
    <3>1. Regroups(x4, c, y5)
      BY <1>3, <2>6, <2>10, Regroup
    <3> QED BY <3>1 DEF Regroups
  <2>18. (x3 \o b) \o y4 = x3 \o (b \o y4)
    <3>1. Regroups(x3, b, y4)
      BY <1>4, <2>5, <2>11, Regroup
    <3> QED BY <3>1 DEF Regroups
  <2>19. (x2 \o a) \o y3 = x2 \o (a \o y3)
    <3>1. Regroups(x2, a, y3)
      BY <1>3, <2>4, <2>12, Regroup
    <3> QED BY <3>1 DEF Regroups
  <2>20. (x1 \o k) \o y2 = x1 \o (k \o y2)
    <3>1. Regroups(x1, k, y2)
      BY <1>2, <2>3, <2>13, Regroup
    <3> QED BY <3>1 DEF Regroups
  <2>21. (h \o u) \o y1 = h \o (u \o y1)
    <3>1. Regroups(h, u, y1)
      BY <1>1, <1>2, <2>14, Regroup
    <3> QED BY <3>1 DEF Regroups
  <2>22. Written(t, m) = h \o TailPart(t, m)
    <3>1. Written(t, m) = x6 \o y6
      BY <2>1, <2>2, <2>15
    <3>2. Written(t, m) = x5 \o y5
      BY <2>2, <2>16, <3>1
    <3>3. Written(t, m) = x4 \o y4
      BY <2>2, <2>17, <3>2
    <3>4. Written(t, m) = x3 \o y3
      BY <2>2, <2>18, <3>3
    <3>5. Written(t, m) = x2 \o y2
      BY <2>2, <2>19, <3>4
    <3>6. Written(t, m) = x1 \o y1
      BY <2>2, <2>20, <3>5
    <3> QED BY <2>1, <2>2, <2>21, <3>6
  <2> QED BY <2>22 DEF h
<1> QED BY <1>10, <1>11

\* What is extracted from the beginning of the file agrees with the memory.
LEMMA ExtractAgrees ==
  ASSUME NEW m, Writable(m), NEW t \in {1, 2}, NEW n \in 0..Len(Written(t, m)),
         NEW sec, sec = SubSeq(Written(t, m), 1, n), Len(sec) > IdLen
  PROVE  /\ extract_ulp_from_so_to_mem(sec, Path) \in Seq(Nat)
         /\ Agree(extract_ulp_from_so_to_mem(sec, Path), 0, Memory(t, m))
<1> DEFINE h == <<t>> \o m.patch_id
           T == TailPart(t, m)
           P == Terminated(Path)
           w == Written(t, m)
<1>1. <<t>> \in Seq(Nat) /\ Len(<<t>>) = 1 /\ m.patch_id \in Seq(Nat) /\ Len(m.patch_id) = 2
  BY PartTypes, Sizes
<1>2. h \in Seq(Nat) /\ Len(h) = 3
  <2> DEFINE x == <<t>>
             y == m.patch_id
  <2>1. x \in Seq(Nat) /\ Len(x) = 1 /\ y \in Seq(Nat) /\ Len(y) = 2
    BY <1>1
  <2> HIDE DEF x, y
  <2>2. x \o y \in Seq(Nat) /\ Len(x \o y) = Len(x) + Len(y)
    BY <2>1, Concat
  <2>3. Len(x \o y) = 3
    BY <2>1, <2>2
  <2> QED BY <2>2, <2>3 DEF x, y
<1>3. T \in Seq(Nat) /\ P \in Seq(Nat)
  BY PartTypes, FixedParts, TerminatedType
<1>4. w = h \o T
  BY WrittenIs
<1>5. Memory(t, m) = (h \o P) \o T
  <2> DEFINE x == <<t>>
             y == m.patch_id
             z == P \o T
  <2>1. h = x \o y /\ x \in Seq(Nat) /\ y \in Seq(Nat)
    BY <1>1
  <2>2. Memory(t, m) = x \o (y \o z)
    BY DEF Memory
  <2> HIDE DEF h, T, P, x, y
  <2>3. z \in Seq(Nat)
    BY <1>3, Concat
  <2>4. h \o z = (h \o P) \o T
    <3>1. Regroups(h, P, T)
      BY <1>2, <1>3, Regroup
    <3> QED BY <3>1 DEF Regroups
  <2> HIDE DEF z
  <2>5. (x \o y) \o z = x \o (y \o z)
    <3>1. Regroups(x, y, z)
      BY <2>1, <2>3, Regroup
    <3> QED BY <3>1 DEF Regroups
  <2> QED BY <2>1, <2>2, <2>4, <2>5
<1> DEFINE R == SubSeq(sec, 4, Len(sec))
<1>6. extract_ulp_from_so_to_mem(sec, Path) = (SubSeq(sec, 1, 3) \o P) \o R
  <2>1. IdLen = 2
    BY Sizes
  <2> QED BY <2>1 DEF extract_ulp_from_so_to_mem
<1>a. sec = SubSeq(w, 1, n) /\ n \in 0..Len(w)
  OBVIOUS
<1> HIDE DEF h, T, P, w
<1>7. /\ w \in Seq(Nat) /\ Len(w) = 3 + Len(T) /\ Len(T) \in Nat
      /\ \A i \in 1..(3 + Len(T)) : w[i] = IF i <= 3 THEN h[i] ELSE T[i - 3]
  <2>1. /\ h \o T \in Seq(Nat) /\ Len(h \o T) = Len(h) + Len(T)
        /\ \A i \in 1..(Len(h) + Len(T)) :
             (h \o T)[i] = IF i <= Len(h) THEN h[i] ELSE T[i - Len(h)]
    BY <1>2, <1>3, ConcatProperties
  <2>2. Len(T) \in Nat
    BY <1>3
  <2> QED BY <1>2, <1>4, <2>1, <2>2
<1>8. /\ sec \in Seq(Nat) /\ Len(sec) = n
      /\ \A i \in 1..n : sec[i] = w[i]
  BY <1>a, <1>7
<1>9. n \in Nat /\ n > 2 /\ n <= 3 + Len(T)
  BY <1>7, <1>8, <1>a, Sizes
<1>10. SubSeq(sec, 1, 3) = h
  <2> DEFINE q == SubSeq(sec, 1, 3)
  <2>1. q \in Seq(Nat) /\ Len(q) = 3 /\ \A i \in 1..3 : q[i] = sec[i]
    BY <1>8, <1>9
  <2> HIDE DEF q
  <2>2. \A i \in 1..3 : q[i] = h[i]
    <3>1. ASSUME NEW i \in 1..3 PROVE q[i] = h[i]
      <4>1. i \in 1..n
        BY <1>9
      <4>2. q[i] = w[i]
        BY <1>8, <2>1, <4>1
      <4> QED BY <1>7, <4>2
    <3> QED BY <3>1
  <2>3. q = h
    BY <1>2, <2>1, <2>2, SeqEqual
  <2> QED BY <2>3 DEF q
<1>11. R \in Seq(Nat) /\ Len(R) = n - 3 /\ \A i \in 1..(n - 3) : R[i] = T[i]
  <2>1. R \in Seq(Nat) /\ Len(R) = n - 3 /\ \A i \in 1..(n - 3) : R[i] = sec[i + 3]
    BY <1>8, <1>9
  <2> HIDE DEF R
  <2>2. ASSUME NEW i \in 1..(n - 3) PROVE sec[i + 3] = T[i]
    <3>1. i + 3 \in 1..n /\ i + 3 \in 1..(3 + Len(T)) /\ ~(i + 3 <= 3) /\ (i + 3) - 3 = i
      BY <1>9
    <3> QED BY <1>7, <1>8, <3>1
  <2> QED BY <2>1, <2>2
<1> HIDE DEF R
<1> DEFINE G == h \o P
           mem == G \o R
<1>12. G \in Seq(Nat) /\ Len(G) \in Nat
  BY <1>2, <1>3, Concat
<1> HIDE DEF G
<1>13. /\ mem \in Seq(Nat) /\ Len(mem) = Len(G) + Len(R)
       /\ \A i \in 1..(Len(G) + Len(R)) : mem[i] = IF i <= Len(G) THEN G[i] ELSE R[i - Len(G)]
  BY <1>11, <1>12, ConcatProperties
<1> HIDE DEF mem
<1>14. Agree(mem, 0, G)
  <2> SUFFICES ASSUME NEW i \in 1..Len(G), 0 + i <= Len(mem)
               PROVE  mem[0 + i] = G[i]
    BY DEF Agree
  <2>1. Len(R) \in Nat
    BY <1>11
  <2>2. i \in 1..(Len(G) + Len(R)) /\ i <= Len(G) /\ 0 + i = i
    BY <1>12, <2>1
  <2> QED BY <1>13, <2>2
<1>15. Agree(mem, 0 + Len(G), T)
  <2> SUFFICES ASSUME NEW i \in 1..Len(T), (0 + Len(G)) + i <= Len(mem)
               PROVE  mem[(0 + Len(G)) + i] = T[i]
    BY DEF Agree
  <2> DEFINE g == Len(G)
  <2>a. g \in Nat /\ Len(R) = n - 3 /\ Len(T) \in Nat /\ n \in Nat /\ Len(mem) = g + (n - 3)
    BY <1>7, <1>9, <1>11, <1>12, <1>13
  <2>b. (0 + g) + i <= Len(mem)
    OBVIOUS
  <2> HIDE DEF g
  <2>1. i \in 1..(n - 3) /\ (0 + g) + i = g + i /\ g + i \in 1..(g + Len(R))
        /\ ~(g + i <= g) /\ (g + i) - g = i
    BY <2>a, <2>b
  <2>2. mem[g + i] = R[(g + i) - g]
    BY <1>13, <2>1 DEF g
  <2>3. mem[(0 + g) + i] = T[i]
    BY <1>11, <2>1, <2>2
  <2> QED BY <2>3 DEF g
<1>16. Agree(mem, 0, G \o T)
  BY <1>3, <1>12, <1>13, <1>14, <1>15, AgreeConcat
<1> QED BY <1>5, <1>6, <1>10, <1>13, <1>16 DEF G, mem

-----------------------------------------------------------------------------
(***************************************************************************)
(* The parser. On memory that agrees with the metadata m of type t it is   *)
(* at the boundary between two parts, with the parts before in ulp, or the *)
(* memory is too short: it then gives up, or stands at the end of the      *)
(* memory and the next read fails.                                         *)
(***************************************************************************)

Full(t, m, us, ds, n, rs) ==
  [type |-> t, patch_id |-> m.patch_id, so_filename |-> Path, build_id |-> m.build_id,
   name |-> m.name, units |-> us, deps |-> ds, nrefs |-> n, refs |-> rs]

\* All that is in the memory.
Whole(t, m) ==
  IF t = 1 THEN Full(1, m, m.units, m.deps, Len(m.refs), m.refs)
           ELSE Full(2, m, <<>>, <<>>, 0, <<>>)

Stands(t, m, rest) == Agree(buf, cursor, rest) /\ cursor + Len(rest) = Len(Memory(t, m))

AtHeader(t, m) ==
  /\ phase = "header" /\ cursor = 0 /\ ulp = NoMetadata /\ Agree(buf, 0, Memory(t, m))

AtUnits(t, m) ==
  /\ phase = "nunits" /\ t = 1
  /\ Stands(t, m, UnitPart(m)) /\ ulp = Full(1, m, <<>>, <<>>, 0, <<>>)

AtUnit(t, m) ==
  /\ phase = "unit" /\ t = 1 /\ left \in 1..Len(m.units)
  /\ Stands(t, m, UnitsBytes(Todo(m.units, left)) \o DepPart(m))
  /\ ulp = Full(1, m, Done(m.units, left), <<>>, 0, <<>>)

AtDeps(t, m) ==
  /\ phase = "ndeps" /\ t = 1
  /\ Stands(t, m, DepPart(m)) /\ ulp = Full(1, m, m.units, <<>>, 0, <<>>)

AtDep(t, m) ==
  /\ phase = "dep" /\ t = 1 /\ left \in 1..Len(m.deps) /\ count = Len(m.deps)
  /\ Stands(t, m, FlattenSeq(Todo(m.deps, left)) \o RefPart(m))
  /\ ulp = Full(1, m, m.units, Done(m.deps, left), 0, <<>>)

AtRefs(t, m) ==
  /\ phase = "nrefs" /\ t = 1
  /\ Stands(t, m, RefPart(m)) /\ ulp = Full(1, m, m.units, m.deps, 0, <<>>)

AtRef(t, m) ==
  /\ phase = "ref" /\ t = 1 /\ left \in 1..Len(m.refs)
  /\ Stands(t, m, RefsBytes(Todo(m.refs, left)))
  /\ ulp = Full(1, m, m.units, m.deps, Len(m.refs), Done(m.refs, left))

AtDone(t, m) == phase = "done" /\ cursor = Len(Memory(t, m)) /\ ulp = Whole(t, m)

OnTrack(t, m) ==
  \/ AtHeader(t, m)
  \/ AtUnits(t, m)
  \/ AtUnit(t, m)
  \/ AtDeps(t, m)
  \/ AtDep(t, m)
  \/ AtRefs(t, m)
  \/ AtRef(t, m)
  \/ AtDone(t, m)

InMiddle == {"nunits", "unit", "ndeps", "dep", "nrefs", "ref"}

ReaderOk == buf \in Seq(Nat) /\ cursor \in 0..Len(buf) /\ count \in Nat

TooShort(t, m) ==
  /\ Len(buf) < Len(Memory(t, m))
  /\ phase = "invalid" \/ (ReaderOk /\ phase \in InMiddle /\ cursor = Len(buf))

ParserInv(t, m) == (ReaderOk /\ OnTrack(t, m)) \/ TooShort(t, m)

\* The whole memory.
LEMMA MemoryType ==
  ASSUME NEW m, Writable(m), NEW t \in {1, 2}
  PROVE  Memory(t, m) \in Seq(Nat) /\ Len(Memory(t, m)) \in Nat
<1> DEFINE x == <<t>>
           y == m.patch_id
           z == Terminated(Path)
           w == TailPart(t, m)
<1>1. x \in Seq(Nat) /\ y \in Seq(Nat) /\ z \in Seq(Nat) /\ w \in Seq(Nat)
  <2>1. y \in Seq(Nat) /\ w \in Seq(Nat)
    BY PartTypes
  <2>2. Path \in Name
    BY FixedParts
  <2>3. z \in Seq(Nat)
    BY <2>2, TerminatedType
  <2>4. x \in Seq(Nat)
    OBVIOUS
  <2> QED BY <2>1, <2>3, <2>4
<1>2. Memory(t, m) = x \o (y \o (z \o w))
  BY DEF Memory
<1> HIDE DEF x, y, z, w
<1>3. z \o w \in Seq(Nat)
  BY <1>1, Concat
<1>4. y \o (z \o w) \in Seq(Nat)
  BY <1>1, <1>3, Concat
<1>5. Memory(t, m) \in Seq(Nat)
  BY <1>1, <1>2, <1>4, Concat
<1> QED BY <1>5

\* The first of two parts is in front of the parser, the second behind it.
LEMMA StandsSplit ==
  ASSUME ReaderOk, NEW t, NEW m, NEW a \in Seq(Nat), NEW b \in Seq(Nat),
         Stands(t, m, a \o b)
  PROVE  /\ Agree(buf, cursor, a) /\ Agree(buf, cursor + Len(a), b)
         /\ (cursor + Len(a)) + Len(b) = Len(Memory(t, m))
         /\ cursor + Len(a) \in Nat /\ Len(a) \in Nat /\ Len(b) \in Nat
<1>1. buf \in Seq(Nat) /\ cursor \in Nat /\ Len(buf) \in Nat
  BY DEF ReaderOk
<1>2. Len(a) \in Nat /\ Len(b) \in Nat /\ Len(a \o b) = Len(a) + Len(b)
  BY Concat
<1>3. Agree(buf, cursor, a \o b) /\ cursor + Len(a \o b) = Len(Memory(t, m))
  BY DEF Stands
<1>4. Agree(buf, cursor, a) /\ Agree(buf, cursor + Len(a), b)
  BY <1>1, <1>3, AgreeConcat
<1> QED BY <1>1, <1>2, <1>3, <1>4

\* Where the parser is after reading up to q.
LEMMA Outcome ==
  ASSUME NEW t \in {1, 2}, NEW m, Writable(m), ReaderOk,
         NEW s, ReaderType(s), NEW q \in Nat, Reached(s, q), q <= Len(Memory(t, m)),
         NEW next, NEW n, NEW u, Advance(s, next, n, u),
         q <= Len(buf) => s.ok
  PROVE  /\ ReaderOk' /\ buf' = buf /\ count' = s.c /\ left' = n
         /\ q <= Len(buf) => cursor' = q /\ phase' = next /\ ulp' = u
         /\ q > Len(buf) /\ next \in InMiddle => TooShort(t, m)'
         /\ ~s.ok => TooShort(t, m)'
<1>1. Len(Memory(t, m)) \in Nat /\ buf \in Seq(Nat) /\ Len(buf) \in Nat
  BY MemoryType DEF ReaderOk
<1>2. s.cur \in 0..Len(buf) /\ s.c \in Nat /\ s.ok \in BOOLEAN
  BY DEF ReaderType
<1>3. cursor' = s.cur /\ count' = s.c /\ left' = n /\ buf' = buf
  BY DEF Advance
<1>4. /\ s.ok => phase' = next /\ ulp' = u
      /\ ~s.ok => phase' = "invalid"
  BY DEF Advance
<1>5. ReaderOk'
  BY <1>1, <1>2, <1>3 DEF ReaderOk
<1>6. q <= Len(buf) => s.cur = q
  BY DEF Reached
<1>7. q > Len(buf) /\ s.ok => s.cur = Len(buf)
  BY <1>1 DEF Reached
<1>8. q > Len(buf) => Len(buf) < Len(Memory(t, m))
  BY <1>1
<1>9. ~s.ok => q > Len(buf)
  BY <1>1
<1>10. ASSUME q > Len(buf), next \in InMiddle PROVE TooShort(t, m)'
  <2>1. CASE s.ok
    BY <1>3, <1>4, <1>5, <1>7, <1>8, <1>10, <2>1 DEF TooShort
  <2>2. CASE ~s.ok
    BY <1>3, <1>4, <1>8, <1>10, <2>2 DEF TooShort
  <2> QED BY <2>1, <2>2
<1>11. ~s.ok => TooShort(t, m)'
  BY <1>3, <1>4, <1>8, <1>9 DEF TooShort
<1> QED BY <1>3, <1>4, <1>5, <1>6, <1>10, <1>11

\* The reader when an action begins, and the states with another length.
LEMMA ReadingIs ==
  ASSUME ReaderOk
  PROVE  /\ Reading.cur = cursor /\ Reading.c = count /\ Reading.ok
         /\ ReaderType(Reading) /\ Reached(Reading, cursor)
         /\ LET z == [Reading EXCEPT !.c = 0]
            IN  z.cur = cursor /\ z.c = 0 /\ z.ok /\ ReaderType(z) /\ Reached(z, cursor)
BY DEF ReaderOk, Reading, ReaderType, Reached

\* A length that is read into a variable other than c.
LEMMA OtherLength ==
  ASSUME NEW s, NEW need, NEW x
  PROVE  LET l == ReadLength(s, need)
             r == [l EXCEPT !.c = x]
         IN  r.cur = l.cur /\ r.ok = l.ok /\ r.c = x
BY DEF ReadLength, read_from_mem

\* The three numbers of elements.
LEMMA UnitCountStep ==
  ASSUME NEW t \in {1, 2}, NEW m, Writable(m), ReaderOk, AtUnits(t, m), ParseUnitCount
  PROVE  ParserInv(t, m)'
<1> DEFINE z == [Reading EXCEPT !.c = 0]
           s == ReadLength(z, 1)
           r == [s EXCEPT !.c = count]
           x == Len(m.units)
           a == Bytes(x, NumLen)
           b == UnitsBytes(m.units) \o DepPart(m)
           q == cursor + NumLen
           next == IF s.c = 0 THEN "ndeps" ELSE "unit"
<1>1. /\ x \in Nat /\ Fits(x, NumLen) /\ a \in Seq(Nat) /\ Len(a) = NumLen
      /\ NumLen \in Nat /\ 1 \in 1..NumLen
      /\ m.units \in Seq(UnitRecord)
  <2>1. x \in Nat /\ Fits(x, NumLen) /\ NumLen \in Nat /\ 1 \in 1..NumLen
    BY PartTypes, Sizes DEF Writable
  <2>2. a \in Seq(Nat) /\ Len(a) = NumLen
    BY <2>1, NumberType
  <2> QED BY <2>1, <2>2 DEF Writable
<1>2. UnitsBytes(m.units) \in Seq(Nat) /\ DepPart(m) \in Seq(Nat)
  BY <1>1, ListBytesType, PartTypes
<1>3. b \in Seq(Nat)
  BY <1>2, Concat
<1>4. Advance(r, next, s.c, ulp)
  BY DEF ParseUnitCount
<1>5. /\ Agree(buf, cursor, a) /\ Agree(buf, q, b)
      /\ q + Len(b) = Len(Memory(t, m)) /\ q \in Nat /\ Len(b) \in Nat
  <2>1. Stands(t, m, a \o b)
    BY DEF AtUnits, UnitPart
  <2> HIDE DEF a, b
  <2> QED BY <1>1, <1>3, <2>1, StandsSplit
<1>6. /\ ReaderType(s) /\ Reached(s, q)
      /\ q <= Len(buf) => s.ok /\ s.c = x
  <2>1. ReaderType(z) /\ Reached(z, cursor) /\ z.ok /\ cursor \in Nat /\ buf \in Seq(Nat)
    BY ReadingIs DEF ReaderOk
  <2> HIDE DEF z, x
  <2>2. LengthRead(s, z, cursor, x, 1)
    BY <1>1, <1>5, <2>1, LengthStep
  <2> HIDE DEF s
  <2> QED BY <2>1, <2>2 DEF LengthRead
<1>7. r.cur = s.cur /\ r.ok = s.ok /\ r.c = count
  BY OtherLength
<1> HIDE DEF r, s, z
<1>8. /\ ReaderType(r) /\ Reached(r, q)
      /\ q <= Len(buf) => r.ok
  BY <1>6, <1>7 DEF ReaderType, Reached, ReaderOk
<1>9. Len(Memory(t, m)) \in Nat /\ Len(buf) \in Nat
  BY MemoryType DEF ReaderOk
<1>10. q <= Len(Memory(t, m))
  BY <1>5, <1>9
<1>11. /\ ReaderOk' /\ buf' = buf /\ left' = s.c
       /\ q <= Len(buf) => cursor' = q /\ phase' = next /\ ulp' = ulp
       /\ q > Len(buf) /\ next \in InMiddle => TooShort(t, m)'
  <2> HIDE DEF q, next
  <2> QED BY <1>4, <1>5, <1>8, <1>10, Outcome
<1>12. CASE q > Len(buf)
  BY <1>11, <1>12 DEF InMiddle, ParserInv
<1>13. CASE q <= Len(buf)
  <2>1. s.c = x /\ cursor' = q /\ phase' = next /\ ulp' = ulp /\ left' = x /\ buf' = buf
    BY <1>6, <1>11, <1>13
  <2>2. /\ Done(m.units, Len(m.units)) = <<>> /\ Todo(m.units, Len(m.units)) = m.units
    BY <1>1, AllAndNone
  <2>3. Stands(t, m, b)'
    BY <1>5, <2>1 DEF Stands
  <2>4. t = 1 /\ ulp = Full(1, m, <<>>, <<>>, 0, <<>>)
    BY DEF AtUnits
  <2>5. CASE x = 0
    <3>1. m.units = <<>>
      BY <1>1, <2>5
    <3>2. b = DepPart(m)
      BY <1>2, <3>1, NoBytes, ConcatEmptySeq
    <3>3. AtDeps(t, m)'
      BY <2>1, <2>3, <2>4, <2>5, <3>1, <3>2 DEF AtDeps
    <3> QED BY <1>11, <3>3 DEF ParserInv, OnTrack
  <2>6. CASE x # 0
    <3>1. x \in 1..x
      BY <1>1, <2>6
    <3>2. AtUnit(t, m)'
      BY <2>1, <2>2, <2>3, <2>4, <2>6, <3>1 DEF AtUnit
    <3> QED BY <1>11, <3>2 DEF ParserInv, OnTrack
  <2> QED BY <2>5, <2>6
<1> QED BY <1>5, <1>9, <1>12, <1>13

\* The parser reads the number of dependencies.
LEMMA DepCountStep ==
  ASSUME NEW t \in {1, 2}, NEW m, Writable(m), ReaderOk, AtDeps(t, m), ParseDepCount
  PROVE  ParserInv(t, m)'
<1> DEFINE z == Reading
           s == ReadLength(z, 1)
           x == Len(m.deps)
           a == Bytes(x, NumLen)
           b == FlattenSeq(m.deps) \o RefPart(m)
           q == cursor + NumLen
           next == IF s.c = 0 THEN "nrefs" ELSE "dep"
<1>1. /\ x \in Nat /\ Fits(x, NumLen) /\ a \in Seq(Nat) /\ Len(a) = NumLen
      /\ NumLen \in Nat /\ 1 \in 1..NumLen
      /\ m.deps \in Seq(Id)
  <2>1. x \in Nat /\ Fits(x, NumLen) /\ NumLen \in Nat /\ 1 \in 1..NumLen
    BY PartTypes, Sizes DEF Writable
  <2>2. a \in Seq(Nat) /\ Len(a) = NumLen
    BY <2>1, NumberType
  <2> QED BY <2>1, <2>2 DEF Writable
<1>2. FlattenSeq(m.deps) \in Seq(Nat) /\ RefPart(m) \in Seq(Nat)
  BY <1>1, ListBytesType, PartTypes
<1>3. b \in Seq(Nat)
  BY <1>2, Concat
<1>4. Advance(s, next, s.c, ulp)
  BY DEF ParseDepCount
<1>5. /\ Agree(buf, cursor, a) /\ Agree(buf, q, b)
      /\ q + Len(b) = Len(Memory(t, m)) /\ q \in Nat /\ Len(b) \in Nat
  <2>1. Stands(t, m, a \o b)
    BY DEF AtDeps, DepPart
  <2> HIDE DEF a, b
  <2> QED BY <1>1, <1>3, <2>1, StandsSplit
<1>6. /\ ReaderType(s) /\ Reached(s, q)
      /\ q <= Len(buf) => s.ok /\ s.c = x
  <2>1. ReaderType(z) /\ Reached(z, cursor) /\ z.ok /\ cursor \in Nat /\ buf \in Seq(Nat)
    BY ReadingIs DEF ReaderOk
  <2> HIDE DEF z, x
  <2>2. LengthRead(s, z, cursor, x, 1)
    BY <1>1, <1>5, <2>1, LengthStep
  <2> HIDE DEF s
  <2> QED BY <2>1, <2>2 DEF LengthRead
<1> HIDE DEF s, z
<1>9. Len(Memory(t, m)) \in Nat /\ Len(buf) \in Nat
  BY MemoryType DEF ReaderOk
<1>10. q <= Len(Memory(t, m))
  BY <1>5, <1>9
<1>11. /\ ReaderOk' /\ buf' = buf /\ left' = s.c /\ count' = s.c
       /\ q <= Len(buf) => cursor' = q /\ phase' = next /\ ulp' = ulp
       /\ q > Len(buf) /\ next \in InMiddle => TooShort(t, m)'
  <2> HIDE DEF q, next
  <2> QED BY <1>4, <1>5, <1>6, <1>10, Outcome
<1>12. CASE q > Len(buf)
  BY <1>11, <1>12 DEF InMiddle, ParserInv
<1>13. CASE q <= Len(buf)
  <2>1. s.c = x /\ cursor' = q /\ phase' = next /\ ulp' = ulp /\ left' = x /\ count' = x /\ buf' = buf
    BY <1>6, <1>11, <1>13
  <2>2. /\ Done(m.deps, Len(m.deps)) = <<>> /\ Todo(m.deps, Len(m.deps)) = m.deps
    BY <1>1, AllAndNone
  <2>3. Stands(t, m, b)'
    BY <1>5, <2>1 DEF Stands
  <2>4. t = 1 /\ ulp = Full(1, m, m.units, <<>>, 0, <<>>)
    BY DEF AtDeps
  <2>5. CASE x = 0
    <3>1. m.deps = <<>>
      BY <1>1, <2>5
    <3>2. b = RefPart(m)
      BY <1>2, <3>1, NoBytes, ConcatEmptySeq
    <3>3. AtRefs(t, m)'
      BY <2>1, <2>3, <2>4, <2>5, <3>1, <3>2 DEF AtRefs
    <3> QED BY <1>11, <3>3 DEF ParserInv, OnTrack
  <2>6. CASE x # 0
    <3>1. x \in 1..x
      BY <1>1, <2>6
    <3>2. AtDep(t, m)'
      BY <2>1, <2>2, <2>3, <2>4, <2>6, <3>1 DEF AtDep
    <3> QED BY <1>11, <3>2 DEF ParserInv, OnTrack
  <2> QED BY <2>5, <2>6
<1> QED BY <1>5, <1>9, <1>12, <1>13



\* The parser reads the number of references.
LEMMA RefCountStep ==
  ASSUME NEW t \in {1, 2}, NEW m, Writable(m), ReaderOk, AtRefs(t, m), ParseRefCount
  PROVE  ParserInv(t, m)'
<1> DEFINE z == Reading
           s == ReadLength(z, NumLen)
           r == [s EXCEPT !.c = count]
           x == Len(m.refs)
           a == Bytes(x, NumLen)
           b == RefsBytes(m.refs)
           q == cursor + NumLen
           u == [ulp EXCEPT !.nrefs = s.c]
           next == IF s.c = 0 THEN "done" ELSE "ref"
<1>1. /\ x \in Nat /\ Fits(x, NumLen) /\ a \in Seq(Nat) /\ Len(a) = NumLen
      /\ NumLen \in Nat /\ NumLen \in 1..NumLen
      /\ m.refs \in Seq(RefRecord)
  <2>1. x \in Nat /\ Fits(x, NumLen) /\ NumLen \in Nat /\ NumLen \in 1..NumLen
    BY PartTypes, Sizes DEF Writable
  <2>2. a \in Seq(Nat) /\ Len(a) = NumLen
    BY <2>1, NumberType
  <2> QED BY <2>1, <2>2 DEF Writable
<1>3. b \in Seq(Nat)
  BY <1>1, ListBytesType
<1>4. Advance(r, next, s.c, u)
  BY DEF ParseRefCount
<1>5. /\ Agree(buf, cursor, a) /\ Agree(buf, q, b)
      /\ q + Len(b) = Len(Memory(t, m)) /\ q \in Nat /\ Len(b) \in Nat
  <2>1. Stands(t, m, a \o b)
    BY DEF AtRefs, RefPart
  <2> HIDE DEF a, b
  <2> QED BY <1>1, <1>3, <2>1, StandsSplit
<1>6. /\ ReaderType(s) /\ Reached(s, q)
      /\ q <= Len(buf) => s.ok /\ s.c = x
      /\ s.ok => q <= Len(buf)
  <2>1. ReaderType(z) /\ Reached(z, cursor) /\ z.ok /\ cursor \in Nat /\ buf \in Seq(Nat)
    BY ReadingIs DEF ReaderOk
  <2> HIDE DEF z, x
  <2>2. LengthRead(s, z, cursor, x, NumLen)
    BY <1>1, <1>5, <2>1, LengthStep
  <2> HIDE DEF s
  <2> QED BY <2>1, <2>2 DEF LengthRead
<1>7. r.cur = s.cur /\ r.ok = s.ok /\ r.c = count
  BY OtherLength
<1> HIDE DEF r, s, z
<1>8. /\ ReaderType(r) /\ Reached(r, q)
      /\ q <= Len(buf) => r.ok
  BY <1>6, <1>7 DEF ReaderType, Reached, ReaderOk
<1>9. Len(Memory(t, m)) \in Nat /\ Len(buf) \in Nat
  BY MemoryType DEF ReaderOk
<1>10. q <= Len(Memory(t, m))
  BY <1>5, <1>9
<1>11. /\ ReaderOk' /\ buf' = buf /\ left' = s.c
       /\ q <= Len(buf) => cursor' = q /\ phase' = next /\ ulp' = u
       /\ ~r.ok => TooShort(t, m)'
  <2> HIDE DEF q, next, u
  <2> QED BY <1>4, <1>5, <1>8, <1>10, Outcome
<1>12. CASE q > Len(buf)
  <2>1. ~s.ok
    BY <1>5, <1>6, <1>9, <1>12
  <2> QED BY <1>7, <1>11, <2>1 DEF ParserInv
<1>13. CASE q <= Len(buf)
  <2>1. s.c = x /\ cursor' = q /\ phase' = next /\ ulp' = u /\ left' = x /\ buf' = buf
    BY <1>6, <1>11, <1>13
  <2>2. /\ Done(m.refs, Len(m.refs)) = <<>> /\ Todo(m.refs, Len(m.refs)) = m.refs
    BY <1>1, AllAndNone
  <2>3. Stands(t, m, b)'
    BY <1>5, <2>1 DEF Stands
  <2>4. t = 1 /\ ulp = Full(1, m, m.units, m.deps, 0, <<>>)
    BY DEF AtRefs
  <2>5. CASE x = 0
    <3>1. m.refs = <<>>
      BY <1>1, <2>5
    <3>2. b = <<>> /\ Len(b) = 0
      BY <3>1, NoBytes
    <3>3. cursor' = Len(Memory(t, m))
      BY <1>5, <1>9, <2>1, <3>2
    <3>4. u = Whole(t, m)
      BY <2>1, <2>4, <2>5, <3>1 DEF Whole, Full
    <3>5. AtDone(t, m)'
      BY <2>1, <2>5, <3>3, <3>4 DEF AtDone
    <3> QED BY <1>11, <3>5 DEF ParserInv, OnTrack
  <2>6. CASE x # 0
    <3>1. x \in 1..x
      BY <1>1, <2>6
    <3>2. u = Full(1, m, m.units, m.deps, x, <<>>)
      BY <2>1, <2>4 DEF Full
    <3>3. AtRef(t, m)'
      BY <2>1, <2>2, <2>3, <2>4, <2>6, <3>1, <3>2 DEF AtRef
    <3> QED BY <1>11, <3>3 DEF ParserInv, OnTrack
  <2> QED BY <2>5, <2>6
<1> QED BY <1>5, <1>9, <1>12, <1>13

\* A dependency.
LEMMA DepStep ==
  ASSUME NEW t \in {1, 2}, NEW m, Writable(m), ReaderOk, AtDep(t, m), ParseDep
  PROVE  ParserInv(t, m)'
<1> DEFINE k == Len(m.deps)
<1>0. PICK n \in 1..k : n = left
  BY DEF AtDep
<1> DEFINE w == m.deps[k - n + 1]
           s == read_from_mem(Reading, IdLen, IdLen)
           b == FlattenSeq(Todo(m.deps, n - 1)) \o RefPart(m)
           q == cursor + IdLen
           u == [ulp EXCEPT !.deps = Append(ulp.deps, s.val)]
           next == IF left = count /\ ulp.deps # <<>> THEN "segv"
                   ELSE IF left = 1 THEN "nrefs" ELSE "dep"
<1>1. /\ k \in Nat /\ m.deps \in Seq(Id) /\ n \in 1..k /\ t = 1 /\ count = k
      /\ ulp = Full(1, m, m.units, Done(m.deps, n), 0, <<>>)
  BY <1>0 DEF Writable, AtDep
<1>2. /\ k - n + 1 \in 1..k /\ Todo(m.deps, n - 1) \in Seq(Id)
      /\ Append(Done(m.deps, n), w) = Done(m.deps, n - 1)
      /\ FlattenSeq(Todo(m.deps, n)) = w \o FlattenSeq(Todo(m.deps, n - 1))
  <2> DEFINE ds == m.deps
  <2>1. ds \in Seq(Id) /\ n \in 1..Len(ds)
    BY <1>1
  <2> HIDE DEF ds
  <2>2. /\ Len(ds) - n + 1 \in 1..Len(ds) /\ Todo(ds, n - 1) \in Seq(Id)
        /\ Append(Done(ds, n), ds[Len(ds) - n + 1]) = Done(ds, n - 1)
    BY <2>1, OneMore
  <2>3. FlattenSeq(Todo(ds, n)) = ds[Len(ds) - n + 1] \o FlattenSeq(Todo(ds, n - 1))
    BY <2>1, DepsBytesHead
  <2> QED BY <2>2, <2>3 DEF ds
<1>3. w \in Seq(Nat) /\ Len(w) = IdLen /\ IdLen \in Nat /\ IdLen > 0
  <2>1. w \in Id
    BY <1>1, <1>2
  <2> QED BY <2>1, Sizes DEF Id
<1>4. Advance(s, next, n - 1, u)
  BY <1>0 DEF ParseDep
<1>5. b \in Seq(Nat) /\ Stands(t, m, w \o b)
  <2> DEFINE x == FlattenSeq(Todo(m.deps, n - 1))
             y == RefPart(m)
  <2>1. x \in Seq(Nat) /\ y \in Seq(Nat) /\ w \in Seq(Nat)
    BY <1>2, <1>3, ListBytesType, PartTypes
  <2>2. Stands(t, m, (w \o x) \o y)
    BY <1>0, <1>2 DEF AtDep
  <2> HIDE DEF x, y, w
  <2>3. (w \o x) \o y = w \o (x \o y) /\ x \o y \in Seq(Nat)
    <3>1. Regroups(w, x, y)
      BY <2>1, Regroup
    <3>2. x \o y \in Seq(Nat)
      BY <2>1, Concat
    <3> QED BY <3>1, <3>2 DEF Regroups
  <2>4. Stands(t, m, w \o (x \o y))
    BY <2>2, <2>3
  <2> QED BY <2>3, <2>4 DEF x, y
<1> HIDE DEF w, b
<1>6. /\ Agree(buf, cursor, w) /\ Agree(buf, q, b)
      /\ q + Len(b) = Len(Memory(t, m)) /\ q \in Nat /\ Len(b) \in Nat
  BY <1>3, <1>5, StandsSplit
<1>7. /\ ReaderType(s) /\ Reached(s, q) /\ s.c = count
      /\ q <= Len(buf) => s.ok /\ s.val = w
      /\ s.ok => q <= Len(buf)
  <2> DEFINE z == Reading
  <2>1. /\ ReaderType(z) /\ Reached(z, cursor) /\ z.ok /\ z.c = count
        /\ cursor \in Nat /\ buf \in Seq(Nat)
    BY ReadingIs DEF ReaderOk
  <2>2. IdLen \in 0..Len(w)
    BY <1>3
  <2> HIDE DEF z
  <2>3. DataRead(read_from_mem(z, IdLen, IdLen), z, cursor, w, IdLen)
    BY <1>3, <1>6, <2>1, <2>2, DataStep
  <2>4. DataRead(s, z, cursor, w, IdLen)
    BY <2>3 DEF z
  <2> HIDE DEF s
  <2> QED BY <1>3, <2>1, <2>4 DEF DataRead
<1> HIDE DEF s
<1>8. Len(Memory(t, m)) \in Nat /\ Len(buf) \in Nat
  BY MemoryType DEF ReaderOk
<1>9. q <= Len(Memory(t, m))
  BY <1>6, <1>8
<1>10. /\ ReaderOk' /\ buf' = buf /\ left' = n - 1 /\ count' = count
       /\ q <= Len(buf) => cursor' = q /\ phase' = next /\ ulp' = u
       /\ ~s.ok => TooShort(t, m)'
  <2> DEFINE j == n - 1
  <2> HIDE DEF q, next, u, j
  <2> QED BY <1>4, <1>6, <1>7, <1>9, Outcome DEF j
<1>11. CASE ~s.ok
  BY <1>10, <1>11 DEF ParserInv
<1>12. CASE s.ok
  <2>1. s.val = w /\ cursor' = q /\ phase' = next /\ ulp' = u /\ left' = n - 1
    BY <1>7, <1>10, <1>12
  <2>2. ulp' = Full(1, m, m.units, Done(m.deps, n - 1), 0, <<>>)
    BY <1>1, <1>2, <2>1 DEF Full
  <2>3. Stands(t, m, b)'
    BY <1>6, <1>10, <2>1 DEF Stands
  <2>4. phase' = IF n = 1 THEN "nrefs" ELSE "dep"
    <3>1. n = k => Done(m.deps, n) = <<>>
      BY <1>1, AllAndNone
    <3>2. ulp.deps = Done(m.deps, n)
      BY <1>1 DEF Full
    <3> QED BY <1>0, <1>1, <2>1, <3>1, <3>2
  <2>5. CASE n = 1
    <3>1. n - 1 = 0
      BY <2>5
    <3>2. Done(m.deps, n - 1) = m.deps /\ Todo(m.deps, n - 1) = <<>>
      BY <1>1, <3>1, AllAndNone
    <3>3. b = RefPart(m)
      BY <3>2, NoBytes, PartTypes, ConcatEmptySeq DEF b
    <3>4. AtRefs(t, m)'
      BY <1>1, <2>2, <2>3, <2>4, <2>5, <3>2, <3>3 DEF AtRefs
    <3> QED BY <1>10, <3>4 DEF ParserInv, OnTrack
  <2>6. CASE n # 1
    <3>1. n - 1 \in 1..k
      BY <1>1, <2>6
    <3>2. AtDep(t, m)'
      BY <1>1, <1>10, <2>1, <2>2, <2>3, <2>4, <2>6, <3>1 DEF AtDep, b
    <3> QED BY <1>10, <3>2 DEF ParserInv, OnTrack
  <2> QED BY <2>5, <2>6
<1>13. s.ok \in BOOLEAN
  BY <1>7 DEF ReaderType
<1> QED BY <1>11, <1>12, <1>13

\* An address is read back.
LEMMA AddrBytes ==
  ASSUME NEW n \in Addr
  PROVE  /\ Bytes(n, AddrLen) \in Seq(Nat) /\ Len(Bytes(n, AddrLen)) = AddrLen
         /\ Value(Bytes(n, AddrLen)) = n
<1>1. n \in Nat /\ Fits(n, AddrLen) /\ AddrLen \in Nat
  BY Sizes DEF Addr
<1>2. Value(Bytes(n, AddrLen)) = n
  BY <1>1, ValueOfBytes
<1> QED BY <1>1, <1>2, NumberType

\* The bytes of a unit, read one after the other.
UnitRead(z, u, p) ==
  LET old == ReadField(z, 1)
      new == ReadField(old, 1)
      s == read_from_mem(new, AddrLen, 1)
  IN  /\ ReaderType(s) /\ Reached(s, p + Len(UnitBytes(u)))
      /\ p + Len(UnitBytes(u)) <= Len(buf) =>
           /\ s.ok
           /\ [old_fname |-> CString(old.val), new_fname |-> CString(new.val),
               old_faddr |-> Value(s.val)] = u

\* Where the bytes of a function are, the parser reads that function or fails.
LEMMA UnitReads ==
  ASSUME ReaderOk, NEW z, ReaderType(z), z.ok, NEW p \in Nat, Reached(z, p),
         NEW u \in UnitRecord, Agree(buf, p, UnitBytes(u))
  PROVE  UnitRead(z, u, p)
<1> DEFINE old == ReadField(z, 1)
           new == ReadField(old, 1)
           s == read_from_mem(new, AddrLen, 1)
           v == Append(u.old_fname, 0)
           w == Append(u.new_fname, 0)
           x == Bytes(u.old_faddr, AddrLen)
           a == Unterminated(v)
           b == Unterminated(w)
           q1 == p + (NumLen + Len(v))
           q2 == q1 + (NumLen + Len(w))
           q3 == q2 + Len(x)
<1>1. /\ u.old_fname \in Name /\ u.new_fname \in Name
      /\ u.old_faddr \in Addr
  BY DEF UnitRecord
<1>2. /\ v \in Seq(Nat) /\ Fits(Len(v), NumLen) /\ CString(v) = u.old_fname
      /\ w \in Seq(Nat) /\ Fits(Len(w), NumLen) /\ CString(w) = u.new_fname
  BY <1>1, CStringOfName
<1>3. /\ x \in Seq(Nat) /\ Len(x) = AddrLen /\ Value(x) = u.old_faddr
      /\ AddrLen \in Nat /\ AddrLen > 0 /\ NumLen \in Nat /\ 1 \in 1..NumLen
  BY <1>1, AddrBytes, Sizes
<1>4. UnitBytes(u) = (a \o b) \o x
  BY DEF UnitBytes, Terminated
<1>5. buf \in Seq(Nat) /\ Len(buf) \in Nat
  BY DEF ReaderOk
<1> HIDE DEF v, w, x
<1>6. /\ a \in Seq(Nat) /\ Len(a) = NumLen + Len(v) /\ b \in Seq(Nat) /\ Len(b) = NumLen + Len(w)
      /\ Len(v) \in Nat /\ Len(w) \in Nat
  BY <1>2, UnterminatedType
<1> HIDE DEF a, b
<1>7. a \o b \in Seq(Nat) /\ Len(a \o b) = Len(a) + Len(b)
  BY <1>6, Concat
<1>8. Len((a \o b) \o x) = Len(a \o b) + Len(x)
  BY <1>3, <1>7, Concat
<1>9. /\ q1 \in Nat /\ q2 \in Nat /\ q3 \in Nat /\ p + Len(UnitBytes(u)) = q3
      /\ q1 <= q2 /\ q2 <= q3 /\ p + Len(a) = q1 /\ q1 + Len(b) = q2
      /\ p + Len(a \o b) = q2
  <2> DEFINE la == Len(a)
             lb == Len(b)
             lx == Len(x)
  <2>1. la \in Nat /\ lb \in Nat /\ lx \in Nat
    BY <1>3, <1>6
  <2>2. Len(UnitBytes(u)) = (la + lb) + lx /\ Len(a \o b) = la + lb
    BY <1>4, <1>7, <1>8
  <2>3. q1 = p + la /\ q2 = p + la + lb /\ q3 = p + la + lb + lx
    BY <1>3, <1>6, <2>1
  <2> HIDE DEF la, lb, lx, q1, q2, q3
  <2>4. /\ q1 \in Nat /\ q2 \in Nat /\ q3 \in Nat /\ q1 <= q2 /\ q2 <= q3
        /\ p + la = q1 /\ q1 + lb = q2 /\ p + (la + lb) = q2 /\ p + ((la + lb) + lx) = q3
    BY <2>1, <2>3
  <2> QED BY <2>2, <2>4 DEF la, lb
<1>10. Agree(buf, p, a \o b) /\ Agree(buf, p + Len(a \o b), x)
  BY <1>3, <1>4, <1>5, <1>7, AgreeConcat
<1>11. Agree(buf, p, a) /\ Agree(buf, p + Len(a), b)
  BY <1>5, <1>6, <1>10, AgreeConcat
<1>12. Agree(buf, p, Unterminated(v)) /\ Agree(buf, q1, Unterminated(w)) /\ Agree(buf, q2, x)
  BY <1>9, <1>10, <1>11 DEF a, b
<1>13. FieldRead(old, z, p, v, 1)
  BY <1>2, <1>3, <1>5, <1>12, FieldStep
<1> HIDE DEF old
<1>14. ReaderType(old) /\ Reached(old, q1) /\ (q1 <= Len(buf) => old.ok /\ old.val = v)
  BY <1>13 DEF FieldRead
<1> HIDE DEF q1
<1>15. FieldRead(new, old, q1, w, 1)
  BY <1>2, <1>3, <1>5, <1>9, <1>12, <1>14, FieldStep
<1> HIDE DEF new
<1>16. /\ ReaderType(new) /\ Reached(new, q2)
       /\ q2 <= Len(buf) /\ old.ok => new.ok /\ new.val = w
  BY <1>15 DEF FieldRead
<1> HIDE DEF q2
<1>17. DataRead(s, new, q2, x, 1)
  <2>1. 1 \in 0..Len(x) /\ AddrLen = Len(x)
    BY <1>3
  <2> QED BY <1>3, <1>5, <1>9, <1>12, <1>16, <2>1, DataStep
<1> HIDE DEF s
<1>18. /\ ReaderType(s) /\ Reached(s, q3)
       /\ q3 <= Len(buf) /\ new.ok => s.ok /\ s.val = x
  BY <1>17 DEF DataRead
<1> HIDE DEF q3
<1>19. ASSUME q3 <= Len(buf)
       PROVE  /\ s.ok
              /\ [old_fname |-> CString(old.val), new_fname |-> CString(new.val),
                  old_faddr |-> Value(s.val)] = u
  <2>1. q1 <= Len(buf) /\ q2 <= Len(buf)
    BY <1>5, <1>9, <1>19
  <2>2. old.val = v /\ new.val = w /\ s.val = x /\ s.ok
    BY <1>14, <1>16, <1>18, <1>19, <2>1
  <2>3. u = [old_fname |-> u.old_fname, new_fname |-> u.new_fname, old_faddr |-> u.old_faddr]
    BY DEF UnitRecord
  <2> QED BY <1>2, <1>3, <2>2, <2>3
<1>20. UnitRead(z, u, p)
  BY <1>9, <1>18, <1>19 DEF UnitRead, old, new, s
<1> QED BY <1>20

\* A unit.
LEMMA UnitStep ==
  ASSUME NEW t \in {1, 2}, NEW m, Writable(m), ReaderOk, AtUnit(t, m), ParseUnit
  PROVE  ParserInv(t, m)'
<1> DEFINE k == Len(m.units)
<1>0. PICK n \in 1..k : n = left
  BY DEF AtUnit
<1> DEFINE w == m.units[k - n + 1]
           e == UnitBytes(w)
           old == ReadField(Reading, 1)
           new == ReadField(old, 1)
           s == read_from_mem(new, AddrLen, 1)
           v == [old_fname |-> CString(old.val), new_fname |-> CString(new.val),
                 old_faddr |-> Value(s.val)]
           b == UnitsBytes(Todo(m.units, n - 1)) \o DepPart(m)
           q == cursor + Len(e)
           u == [ulp EXCEPT !.units = Append(ulp.units, v)]
           next == IF left = 1 THEN "ndeps" ELSE "unit"
<1>1. /\ k \in Nat /\ m.units \in Seq(UnitRecord) /\ n \in 1..k /\ t = 1
      /\ ulp = Full(1, m, Done(m.units, n), <<>>, 0, <<>>)
  BY <1>0 DEF Writable, AtUnit
<1>2. /\ k - n + 1 \in 1..k /\ Todo(m.units, n - 1) \in Seq(UnitRecord)
      /\ Append(Done(m.units, n), w) = Done(m.units, n - 1)
      /\ UnitsBytes(Todo(m.units, n)) = e \o UnitsBytes(Todo(m.units, n - 1))
  <2> DEFINE us == m.units
  <2>1. us \in Seq(UnitRecord) /\ n \in 1..Len(us)
    BY <1>1
  <2> HIDE DEF us
  <2>2. /\ Len(us) - n + 1 \in 1..Len(us) /\ Todo(us, n - 1) \in Seq(UnitRecord)
        /\ Append(Done(us, n), us[Len(us) - n + 1]) = Done(us, n - 1)
    BY <2>1, OneMore
  <2>3. UnitsBytes(Todo(us, n)) = UnitBytes(us[Len(us) - n + 1]) \o UnitsBytes(Todo(us, n - 1))
    BY <2>1, UnitsBytesHead
  <2> QED BY <2>2, <2>3 DEF us
<1>3. w \in UnitRecord /\ e \in Seq(Nat)
  <2>1. w \in UnitRecord
    BY <1>1, <1>2
  <2> QED BY <2>1, UnitBytesType
<1>4. Advance(s, next, n - 1, u)
  BY <1>0 DEF ParseUnit
<1>5. b \in Seq(Nat) /\ Stands(t, m, e \o b)
  <2> DEFINE x == UnitsBytes(Todo(m.units, n - 1))
             y == DepPart(m)
  <2>1. x \in Seq(Nat) /\ y \in Seq(Nat) /\ e \in Seq(Nat)
    BY <1>2, <1>3, ListBytesType, PartTypes
  <2>2. Stands(t, m, (e \o x) \o y)
    BY <1>0, <1>2 DEF AtUnit
  <2> HIDE DEF x, y, e
  <2>3. (e \o x) \o y = e \o (x \o y) /\ x \o y \in Seq(Nat)
    <3>1. Regroups(e, x, y)
      BY <2>1, Regroup
    <3>2. x \o y \in Seq(Nat)
      BY <2>1, Concat
    <3> QED BY <3>1, <3>2 DEF Regroups
  <2>4. Stands(t, m, e \o (x \o y))
    BY <2>2, <2>3
  <2> QED BY <2>3, <2>4 DEF x, y
<1> HIDE DEF w, e, b
<1>6. /\ Agree(buf, cursor, e) /\ Agree(buf, q, b)
      /\ q + Len(b) = Len(Memory(t, m)) /\ q \in Nat /\ Len(b) \in Nat
  BY <1>3, <1>5, StandsSplit
<1>7. /\ ReaderType(s) /\ Reached(s, q)
      /\ q <= Len(buf) => s.ok /\ v = w
  <2> DEFINE z == Reading
  <2>1. ReaderType(z) /\ Reached(z, cursor) /\ z.ok /\ cursor \in Nat
    BY ReadingIs DEF ReaderOk
  <2> HIDE DEF z
  <2>2. UnitRead(z, w, cursor)
    BY <1>3, <1>6, <2>1, UnitReads DEF e
  <2> QED BY <2>2 DEF UnitRead, z, e
<1> HIDE DEF s, v
<1>8. Len(Memory(t, m)) \in Nat /\ Len(buf) \in Nat
  BY MemoryType DEF ReaderOk
<1>9. q <= Len(Memory(t, m))
  BY <1>6, <1>8
<1>10. /\ ReaderOk' /\ buf' = buf /\ left' = n - 1
       /\ q <= Len(buf) => cursor' = q /\ phase' = next /\ ulp' = u
       /\ q > Len(buf) /\ next \in InMiddle => TooShort(t, m)'
  <2> DEFINE j == n - 1
  <2> HIDE DEF q, next, u, j
  <2> QED BY <1>4, <1>6, <1>7, <1>9, Outcome DEF j
<1>11. CASE q > Len(buf)
  BY <1>10, <1>11 DEF ParserInv, InMiddle
<1>12. CASE q <= Len(buf)
  <2>1. v = w /\ cursor' = q /\ phase' = next /\ ulp' = u /\ left' = n - 1
    BY <1>7, <1>10, <1>12
  <2>2. ulp' = Full(1, m, Done(m.units, n - 1), <<>>, 0, <<>>)
    BY <1>1, <1>2, <2>1 DEF Full
  <2>3. Stands(t, m, b)'
    BY <1>6, <1>10, <2>1 DEF Stands
  <2>4. phase' = IF n = 1 THEN "ndeps" ELSE "unit"
    BY <1>0, <2>1
  <2>5. CASE n = 1
    <3>1. n - 1 = 0
      BY <2>5
    <3>2. Done(m.units, n - 1) = m.units /\ Todo(m.units, n - 1) = <<>>
      BY <1>1, <3>1, AllAndNone
    <3>3. b = DepPart(m)
      BY <3>2, NoBytes, PartTypes, ConcatEmptySeq DEF b
    <3>4. AtDeps(t, m)'
      BY <1>1, <2>2, <2>3, <2>4, <2>5, <3>2, <3>3 DEF AtDeps
    <3> QED BY <1>10, <3>4 DEF ParserInv, OnTrack
  <2>6. CASE n # 1
    <3>1. n - 1 \in 1..k
      BY <1>1, <2>6
    <3>2. AtUnit(t, m)'
      BY <1>1, <1>10, <2>1, <2>2, <2>3, <2>4, <2>6, <3>1 DEF AtUnit, b
    <3> QED BY <1>10, <3>2 DEF ParserInv, OnTrack
  <2> QED BY <2>5, <2>6
<1> QED BY <1>6, <1>8, <1>11, <1>12

\* The bytes of a reference, read one after the other.
RefRead(z, r, p) ==
  LET target == ReadField(z, NumLen)
      ref == ReadField(target, NumLen)
      toff == read_from_mem(ref, AddrLen, AddrLen)
      poff == read_from_mem(toff, AddrLen, AddrLen)
      s == read_from_mem(poff, 1, 1)
  IN  /\ ReaderType(s) /\ Reached(s, p + Len(RefBytes(r)))
      /\ s.ok => p + Len(RefBytes(r)) <= Len(buf)
      /\ p + Len(RefBytes(r)) <= Len(buf) =>
           /\ s.ok
           /\ [target_name |-> CString(target.val), reference_name |-> CString(ref.val),
               target_offset |-> Value(toff.val), patch_offset |-> Value(poff.val),
               tls |-> s.val[1]] = r

\* Where the bytes of a reference are, it reads that reference or fails.
LEMMA RefReads ==
  ASSUME ReaderOk, NEW z, ReaderType(z), z.ok, NEW p \in Nat, Reached(z, p),
         NEW r \in RefRecord, Agree(buf, p, RefBytes(r))
  PROVE  RefRead(z, r, p)
<1> DEFINE target == ReadField(z, NumLen)
           ref == ReadField(target, NumLen)
           toff == read_from_mem(ref, AddrLen, AddrLen)
           poff == read_from_mem(toff, AddrLen, AddrLen)
           s == read_from_mem(poff, 1, 1)
           v == Append(r.target_name, 0)
           w == Append(r.reference_name, 0)
           x == Bytes(r.target_offset, AddrLen)
           y == Bytes(r.patch_offset, AddrLen)
           l == <<r.tls>>
           a == Unterminated(v)
           b == Unterminated(w)
           q1 == p + (NumLen + Len(v))
           q2 == q1 + (NumLen + Len(w))
           q3 == q2 + Len(x)
           q4 == q3 + Len(y)
           q5 == q4 + Len(l)
<1>1. /\ r.target_name \in Name /\ r.reference_name \in Name
      /\ r.target_offset \in Addr /\ r.patch_offset \in Addr /\ r.tls \in Nat
  BY DEF RefRecord
<1>2. /\ v \in Seq(Nat) /\ Fits(Len(v), NumLen) /\ CString(v) = r.target_name
      /\ w \in Seq(Nat) /\ Fits(Len(w), NumLen) /\ CString(w) = r.reference_name
  BY <1>1, CStringOfName
<1>3. /\ x \in Seq(Nat) /\ Len(x) = AddrLen /\ Value(x) = r.target_offset
      /\ y \in Seq(Nat) /\ Len(y) = AddrLen /\ Value(y) = r.patch_offset
  BY <1>1, AddrBytes
<1>4. /\ l \in Seq(Nat) /\ Len(l) = 1 /\ l[1] = r.tls
      /\ AddrLen \in Nat /\ AddrLen > 0 /\ NumLen \in Nat /\ NumLen \in 1..NumLen
  BY <1>1, Sizes
<1>5. RefBytes(r) = (((a \o b) \o x) \o y) \o l
  BY DEF RefBytes, Terminated
<1>6. buf \in Seq(Nat) /\ Len(buf) \in Nat
  BY DEF ReaderOk
<1> HIDE DEF v, w, x, y, l
<1>7. /\ a \in Seq(Nat) /\ Len(a) = NumLen + Len(v) /\ b \in Seq(Nat) /\ Len(b) = NumLen + Len(w)
      /\ Len(v) \in Nat /\ Len(w) \in Nat
  BY <1>2, UnterminatedType
<1> HIDE DEF a, b
<1> DEFINE c == a \o b
           d == c \o x
           e == d \o y
<1>8. c \in Seq(Nat) /\ Len(c) = Len(a) + Len(b)
  BY <1>7, Concat
<1> HIDE DEF c
<1>9. d \in Seq(Nat) /\ Len(d) = Len(c) + Len(x)
  BY <1>3, <1>8, Concat
<1> HIDE DEF d
<1>10. e \in Seq(Nat) /\ Len(e) = Len(d) + Len(y)
  BY <1>3, <1>9, Concat
<1> HIDE DEF e
<1>11. Len(e \o l) = Len(e) + Len(l) /\ RefBytes(r) = e \o l
  BY <1>4, <1>5, <1>10, Concat DEF c, d, e
<1>12. /\ q1 \in Nat /\ q2 \in Nat /\ q3 \in Nat /\ q4 \in Nat /\ q5 \in Nat
       /\ p + Len(RefBytes(r)) = q5 /\ q1 <= q2 /\ q2 <= q3 /\ q3 <= q4 /\ q4 <= q5
       /\ p + Len(a) = q1 /\ p + Len(c) = q2 /\ p + Len(d) = q3 /\ p + Len(e) = q4
       /\ q5 = q4 + 1
  <2> DEFINE nv == Len(v)
             nw == Len(w)
             nx == Len(x)
             ny == Len(y)
             nl == Len(l)
             na == Len(a)
             nb == Len(b)
             nc == Len(c)
             nd == Len(d)
             ne == Len(e)
             nr == Len(RefBytes(r))
  <2>1. /\ nv \in Nat /\ nw \in Nat /\ nx \in Nat /\ ny \in Nat /\ nl = 1 /\ NumLen \in Nat
        /\ na = NumLen + nv /\ nb = NumLen + nw /\ nc = na + nb /\ nd = nc + nx
        /\ ne = nd + ny /\ nr = ne + nl
    BY <1>3, <1>4, <1>7, <1>8, <1>9, <1>10, <1>11
  <2> HIDE DEF nv, nw, nx, ny, nl, na, nb, nc, nd, ne, nr
  <2>2. LET i == p + (NumLen + nv)
            j == i + (NumLen + nw)
            k == j + nx
            g == k + ny
            h == g + nl
        IN  /\ i \in Nat /\ j \in Nat /\ k \in Nat /\ g \in Nat /\ h \in Nat
            /\ p + nr = h /\ i <= j /\ j <= k /\ k <= g /\ g <= h
            /\ p + na = i /\ p + nc = j /\ p + nd = k /\ p + ne = g
            /\ h = g + 1
    BY <2>1
  <2> QED BY <2>2 DEF nv, nw, nx, ny, nl, na, nb, nc, nd, ne, nr
<1>13. Agree(buf, p, e) /\ Agree(buf, q4, l)
  <2>1. Agree(buf, p, e \o l)
    BY <1>11
  <2>2. Agree(buf, p, e) /\ Agree(buf, p + Len(e), l)
    BY <1>4, <1>6, <1>10, <2>1, AgreeConcat
  <2> QED BY <1>12, <2>2
<1>14. Agree(buf, p, d) /\ Agree(buf, q3, y)
  BY <1>3, <1>6, <1>9, <1>12, <1>13, AgreeConcat DEF e
<1>15. Agree(buf, p, c) /\ Agree(buf, q2, x)
  BY <1>3, <1>6, <1>8, <1>12, <1>14, AgreeConcat DEF d
<1>16. Agree(buf, p, a) /\ Agree(buf, q1, b)
  BY <1>6, <1>7, <1>12, <1>15, AgreeConcat DEF c
<1>17. FieldRead(target, z, p, v, NumLen)
  BY <1>2, <1>4, <1>6, <1>16, FieldStep DEF a
<1> HIDE DEF target
<1>18. ReaderType(target) /\ Reached(target, q1) /\ (q1 <= Len(buf) => target.ok /\ target.val = v)
  BY <1>17 DEF FieldRead
<1> HIDE DEF q1
<1>19. FieldRead(ref, target, q1, w, NumLen)
  BY <1>2, <1>4, <1>6, <1>12, <1>16, <1>18, FieldStep DEF b
<1> HIDE DEF ref
<1>20. /\ ReaderType(ref) /\ Reached(ref, q2)
       /\ q2 <= Len(buf) /\ target.ok => ref.ok /\ ref.val = w
  BY <1>19 DEF FieldRead
<1> HIDE DEF q2
<1>21. AddrLen \in 0..Len(x) /\ AddrLen = Len(x) /\ AddrLen \in 0..Len(y) /\ AddrLen = Len(y)
       /\ 1 \in 0..Len(l) /\ 1 = Len(l)
  BY <1>3, <1>4
<1>22. DataRead(toff, ref, q2, x, AddrLen)
  BY <1>3, <1>6, <1>12, <1>15, <1>20, <1>21, DataStep
<1> HIDE DEF toff
<1>23. /\ ReaderType(toff) /\ Reached(toff, q3)
       /\ q3 <= Len(buf) /\ ref.ok => toff.ok /\ toff.val = x
  BY <1>22 DEF DataRead
<1> HIDE DEF q3
<1>24. DataRead(poff, toff, q3, y, AddrLen)
  BY <1>3, <1>6, <1>12, <1>14, <1>21, <1>23, DataStep
<1> HIDE DEF poff
<1>25. /\ ReaderType(poff) /\ Reached(poff, q4)
       /\ q4 <= Len(buf) /\ toff.ok => poff.ok /\ poff.val = y
  BY <1>24 DEF DataRead
<1> HIDE DEF q4
<1>26. DataRead(s, poff, q4, l, 1)
  BY <1>4, <1>6, <1>12, <1>13, <1>21, <1>25, DataStep
<1> HIDE DEF s
<1>27. /\ ReaderType(s) /\ Reached(s, q5)
       /\ q5 <= Len(buf) /\ poff.ok => s.ok /\ s.val = l
       /\ s.ok => q5 <= Len(buf)
  BY <1>12, <1>26 DEF DataRead
<1> HIDE DEF q5
<1>28. ASSUME q5 <= Len(buf)
       PROVE  /\ s.ok
              /\ [target_name |-> CString(target.val), reference_name |-> CString(ref.val),
                  target_offset |-> Value(toff.val), patch_offset |-> Value(poff.val),
                  tls |-> s.val[1]] = r
  <2>1. q1 <= Len(buf) /\ q2 <= Len(buf) /\ q3 <= Len(buf) /\ q4 <= Len(buf)
    BY <1>6, <1>12, <1>28
  <2>2. target.val = v /\ ref.val = w /\ toff.val = x /\ poff.val = y /\ s.val = l /\ s.ok
    BY <1>18, <1>20, <1>23, <1>25, <1>27, <1>28, <2>1
  <2>3. r = [target_name |-> r.target_name, reference_name |-> r.reference_name,
             target_offset |-> r.target_offset, patch_offset |-> r.patch_offset,
             tls |-> r.tls]
    BY DEF RefRecord
  <2> QED BY <1>2, <1>3, <1>4, <2>2, <2>3
<1>29. RefRead(z, r, p)
  BY <1>12, <1>27, <1>28 DEF RefRead, target, ref, toff, poff, s
<1> QED BY <1>29

\* A reference.
LEMMA RefStep ==
  ASSUME NEW t \in {1, 2}, NEW m, Writable(m), ReaderOk, AtRef(t, m), ParseRef
  PROVE  ParserInv(t, m)'
<1> DEFINE k == Len(m.refs)
<1>0. PICK n \in 1..k : n = left
  BY DEF AtRef
<1> DEFINE w == m.refs[k - n + 1]
           e == RefBytes(w)
           target == ReadField(Reading, NumLen)
           ref == ReadField(target, NumLen)
           toff == read_from_mem(ref, AddrLen, AddrLen)
           poff == read_from_mem(toff, AddrLen, AddrLen)
           s == read_from_mem(poff, 1, 1)
           v == [target_name |-> CString(target.val), reference_name |-> CString(ref.val),
                 target_offset |-> Value(toff.val), patch_offset |-> Value(poff.val),
                 tls |-> s.val[1]]
           b == RefsBytes(Todo(m.refs, n - 1))
           q == cursor + Len(e)
           u == [ulp EXCEPT !.refs = Append(ulp.refs, v)]
           next == IF left = ulp.nrefs /\ ulp.refs # <<>> THEN "segv"
                   ELSE IF left = 1 THEN "done" ELSE "ref"
<1>1. /\ k \in Nat /\ m.refs \in Seq(RefRecord) /\ n \in 1..k /\ t = 1
      /\ ulp = Full(1, m, m.units, m.deps, k, Done(m.refs, n))
  BY <1>0 DEF Writable, AtRef
<1>2. /\ k - n + 1 \in 1..k /\ Todo(m.refs, n - 1) \in Seq(RefRecord)
      /\ Append(Done(m.refs, n), w) = Done(m.refs, n - 1)
      /\ RefsBytes(Todo(m.refs, n)) = e \o RefsBytes(Todo(m.refs, n - 1))
  <2> DEFINE rs == m.refs
  <2>1. rs \in Seq(RefRecord) /\ n \in 1..Len(rs)
    BY <1>1
  <2> HIDE DEF rs
  <2>2. /\ Len(rs) - n + 1 \in 1..Len(rs) /\ Todo(rs, n - 1) \in Seq(RefRecord)
        /\ Append(Done(rs, n), rs[Len(rs) - n + 1]) = Done(rs, n - 1)
    BY <2>1, OneMore
  <2>3. RefsBytes(Todo(rs, n)) = RefBytes(rs[Len(rs) - n + 1]) \o RefsBytes(Todo(rs, n - 1))
    BY <2>1, RefsBytesHead
  <2> QED BY <2>2, <2>3 DEF rs
<1>3. w \in RefRecord /\ e \in Seq(Nat)
  <2>1. w \in RefRecord
    BY <1>1, <1>2
  <2> QED BY <2>1, RefBytesType
<1>4. Advance(s, next, n - 1, u)
  BY <1>0 DEF ParseRef
<1>5. b \in Seq(Nat) /\ Stands(t, m, e \o b)
  BY <1>0, <1>2, ListBytesType DEF AtRef
<1> HIDE DEF w, e, b
<1>6. /\ Agree(buf, cursor, e) /\ Agree(buf, q, b)
      /\ q + Len(b) = Len(Memory(t, m)) /\ q \in Nat /\ Len(b) \in Nat
  BY <1>3, <1>5, StandsSplit
<1>7. /\ ReaderType(s) /\ Reached(s, q)
      /\ s.ok => q <= Len(buf)
      /\ q <= Len(buf) => s.ok /\ v = w
  <2> DEFINE z == Reading
  <2>1. ReaderType(z) /\ Reached(z, cursor) /\ z.ok /\ cursor \in Nat
    BY ReadingIs DEF ReaderOk
  <2> HIDE DEF z
  <2>2. RefRead(z, w, cursor)
    BY <1>3, <1>6, <2>1, RefReads DEF e
  <2> QED BY <2>2 DEF RefRead, z, e
<1> HIDE DEF s, v
<1>8. Len(Memory(t, m)) \in Nat /\ Len(buf) \in Nat
  BY MemoryType DEF ReaderOk
<1>9. q <= Len(Memory(t, m))
  BY <1>6, <1>8
<1>10. /\ ReaderOk' /\ buf' = buf /\ left' = n - 1
       /\ q <= Len(buf) => cursor' = q /\ phase' = next /\ ulp' = u
       /\ ~s.ok => TooShort(t, m)'
  <2> DEFINE j == n - 1
  <2> HIDE DEF q, next, u, j
  <2> QED BY <1>4, <1>6, <1>7, <1>9, Outcome DEF j
<1>11. CASE q > Len(buf)
  <2>1. ~s.ok
    BY <1>6, <1>7, <1>8, <1>11
  <2> QED BY <1>10, <2>1 DEF ParserInv
<1>12. CASE q <= Len(buf)
  <2>1. v = w /\ cursor' = q /\ phase' = next /\ ulp' = u /\ left' = n - 1
    BY <1>7, <1>10, <1>12
  <2>2. ulp' = Full(1, m, m.units, m.deps, k, Done(m.refs, n - 1))
    BY <1>1, <1>2, <2>1 DEF Full
  <2>3. Stands(t, m, b)'
    BY <1>6, <1>10, <2>1 DEF Stands
  <2>4. phase' = IF n = 1 THEN "done" ELSE "ref"
    <3>1. n = k => Done(m.refs, n) = <<>>
      BY <1>1, AllAndNone
    <3>2. ulp.refs = Done(m.refs, n) /\ ulp.nrefs = k
      BY <1>1 DEF Full
    <3> QED BY <1>0, <1>1, <2>1, <3>1, <3>2
  <2>5. CASE n = 1
    <3>1. n - 1 = 0
      BY <2>5
    <3>2. Done(m.refs, n - 1) = m.refs /\ Todo(m.refs, n - 1) = <<>>
      BY <1>1, <3>1, AllAndNone
    <3>3. Len(b) = 0
      BY <3>2, NoBytes DEF b
    <3>4. cursor' = Len(Memory(t, m))
      BY <1>6, <1>8, <2>1, <3>3
    <3>5. ulp' = Whole(t, m)
      BY <1>1, <2>2, <3>2 DEF Whole
    <3>6. AtDone(t, m)'
      BY <2>4, <2>5, <3>4, <3>5 DEF AtDone
    <3> QED BY <1>10, <3>6 DEF ParserInv, OnTrack
  <2>6. CASE n # 1
    <3>1. n - 1 \in 1..k
      BY <1>1, <2>6
    <3>2. AtRef(t, m)'
      BY <1>1, <1>10, <2>1, <2>2, <2>3, <2>4, <2>6, <3>1 DEF AtRef, b
    <3> QED BY <1>10, <3>2 DEF ParserInv, OnTrack
  <2> QED BY <2>5, <2>6
<1> QED BY <1>6, <1>8, <1>11, <1>12

\* The name of the library, and what follows it.
NameBytes(t, m) == IF t = 1 THEN Append(m.name, 0) ELSE m.name

Behind(t, m) == IF t = 1 THEN UnitPart(m) ELSE <<>>

\* The name of the library is read back from either kind of patch.
LEMMA NamePartIs ==
  ASSUME NEW t \in {1, 2}, NEW m, Writable(m)
  PROVE  /\ NameBytes(t, m) \in Seq(Nat) /\ Fits(Len(NameBytes(t, m)), NumLen)
         /\ CString(NameBytes(t, m)) = m.name
         /\ Behind(t, m) \in Seq(Nat)
         /\ NamePart(t, m) = Unterminated(NameBytes(t, m)) \o Behind(t, m)
         /\ t = 2 => Len(NameBytes(t, m)) % Base # 0
<1>1. /\ m.name = LibName /\ m.name \in Name /\ Base \in Nat
      /\ Len(m.name) \in Nat /\ Len(m.name) > 0 /\ Len(m.name) < Base
  BY FixedParts, Sizes DEF Writable
<1>2. /\ m.name \in Seq(Nat) /\ Fits(Len(m.name), NumLen) /\ CString(m.name) = m.name
      /\ Append(m.name, 0) \in Seq(Nat) /\ Fits(Len(Append(m.name, 0)), NumLen)
      /\ CString(Append(m.name, 0)) = m.name
  BY <1>1, CStringOfName
<1>3. UnitPart(m) \in Seq(Nat)
  BY PartTypes
<1>4. CASE t = 1
  BY <1>2, <1>3, <1>4 DEF NameBytes, Behind, NamePart, Terminated
<1>5. CASE t = 2
  <2>1. Len(m.name) % Base # 0
    <3> DEFINE x == Len(m.name)
    <3>1. x \in Nat /\ x > 0 /\ x < Base /\ Base \in Nat
      BY <1>1
    <3> HIDE DEF x
    <3>2. x % Base = x
      BY <3>1
    <3>3. x % Base # 0
      BY <3>1, <3>2
    <3> QED BY <3>3 DEF x
  <2>2. NameBytes(t, m) = m.name /\ Behind(t, m) = <<>> /\ NamePart(t, m) = Unterminated(m.name)
    BY <1>5 DEF NameBytes, Behind, NamePart
  <2>3. Unterminated(m.name) \in Seq(Nat)
    BY <1>2, UnterminatedType
  <2>4. Unterminated(m.name) \o <<>> = Unterminated(m.name)
    BY <2>3, ConcatEmptySeq
  <2>5. <<>> \in Seq(Nat)
    OBVIOUS
  <2> QED BY <1>2, <2>1, <2>2, <2>4, <2>5
<1> QED BY <1>4, <1>5

\* Type, id, path, build id and name, read one after the other.
HeaderRead(z, t, m, q) ==
  LET type == read_from_mem(z, 1, 1)
      id == read_from_mem(type, IdLen, IdLen)
      so == ReadField(id, 1)
      build == ReadField(so, 1)
      s == ReadField(build, 1)
  IN  /\ ReaderType(s) /\ Reached(s, q)
      /\ s.ok => type.val = <<t>> /\ (t = 2 => q <= Len(buf))
      /\ q <= Len(buf) =>
           /\ s.ok /\ so.ok /\ type.val = <<t>> /\ id.val = m.patch_id
           /\ CString(so.val) = Path /\ build.val = m.build_id /\ CString(s.val) = m.name

\* At the beginning of the memory the parser reads the header or fails.
LEMMA HeaderReads ==
  ASSUME ReaderOk, NEW z, ReaderType(z), z.ok, Reached(z, 0),
         NEW t \in {1, 2}, NEW m, Writable(m), Agree(buf, 0, Memory(t, m))
  PROVE  \E q \in Nat : /\ HeaderRead(z, t, m, q) /\ Agree(buf, q, Behind(t, m))
                        /\ q + Len(Behind(t, m)) = Len(Memory(t, m))
<1> DEFINE type == read_from_mem(z, 1, 1)
           id == read_from_mem(type, IdLen, IdLen)
           so == ReadField(id, 1)
           build == ReadField(so, 1)
           s == ReadField(build, 1)
           h == <<t>>
           i == m.patch_id
           v == Append(Path, 0)
           w == m.build_id
           x == NameBytes(t, m)
           y == Behind(t, m)
           a == Unterminated(v)
           b == Unterminated(w)
           c == Unterminated(x)
           d1 == c \o y
           d2 == b \o d1
           d3 == a \o d2
           d4 == i \o d3
           q1 == 0 + Len(h)
           q2 == q1 + Len(i)
           q3 == q2 + (NumLen + Len(v))
           q4 == q3 + (NumLen + Len(w))
           q5 == q4 + (NumLen + Len(x))
<1>1. /\ h \in Seq(Nat) /\ Len(h) = 1 /\ i \in Seq(Nat) /\ Len(i) = IdLen /\ IdLen = 2
      /\ v \in Seq(Nat) /\ Fits(Len(v), NumLen) /\ CString(v) = Path
      /\ NumLen \in Nat /\ 1 \in 1..NumLen
  <2>1. h \in Seq(Nat) /\ Len(h) = 1
    OBVIOUS
  <2>2. i \in Seq(Nat) /\ Len(i) = IdLen /\ IdLen = 2 /\ NumLen \in Nat /\ 1 \in 1..NumLen
    BY PartTypes, Sizes
  <2>3. v \in Seq(Nat) /\ Fits(Len(v), NumLen) /\ CString(v) = Path
    BY FixedParts, CStringOfName
  <2> QED BY <2>1, <2>2, <2>3
<1>2. w \in Seq(Nat) /\ Fits(Len(w), NumLen)
  BY FixedParts DEF Writable
<1>3. /\ x \in Seq(Nat) /\ Fits(Len(x), NumLen) /\ CString(x) = m.name /\ y \in Seq(Nat)
      /\ NamePart(t, m) = c \o y /\ (t = 2 => Len(x) % Base # 0)
  BY NamePartIs
<1>4. Memory(t, m) = h \o d4
  BY <1>3 DEF Memory, TailPart, Terminated
<1>5. buf \in Seq(Nat) /\ Len(buf) \in Nat
  BY DEF ReaderOk
<1> HIDE DEF h, i, v, w, x, y
<1>6. /\ a \in Seq(Nat) /\ Len(a) = NumLen + Len(v) /\ b \in Seq(Nat) /\ Len(b) = NumLen + Len(w)
      /\ c \in Seq(Nat) /\ Len(c) = NumLen + Len(x)
      /\ Len(v) \in Nat /\ Len(w) \in Nat /\ Len(x) \in Nat /\ Len(y) \in Nat
  <2>1. a \in Seq(Nat) /\ Len(a) = NumLen + Len(v)
    BY <1>1, UnterminatedType
  <2>2. b \in Seq(Nat) /\ Len(b) = NumLen + Len(w)
    BY <1>2, UnterminatedType
  <2>3. c \in Seq(Nat) /\ Len(c) = NumLen + Len(x)
    BY <1>3, UnterminatedType
  <2> HIDE DEF a, b, c
  <2>4. Len(v) \in Nat /\ Len(w) \in Nat /\ Len(x) \in Nat /\ Len(y) \in Nat
    BY <1>1, <1>2, <1>3
  <2> QED BY <2>1, <2>2, <2>3, <2>4
<1> HIDE DEF a, b, c
<1>7. d1 \in Seq(Nat) /\ Len(d1) = Len(c) + Len(y)
  BY <1>3, <1>6, Concat
<1>8. d2 \in Seq(Nat) /\ Len(d2) = Len(b) + Len(d1)
  <2> HIDE DEF d1
  <2> QED BY <1>6, <1>7, Concat
<1>9. d3 \in Seq(Nat) /\ Len(d3) = Len(a) + Len(d2)
  <2> HIDE DEF d2
  <2> QED BY <1>6, <1>8, Concat
<1>10. d4 \in Seq(Nat) /\ Len(d4) = Len(i) + Len(d3)
  <2> HIDE DEF d3
  <2> QED BY <1>1, <1>9, Concat
<1>11. Len(h \o d4) = Len(h) + Len(d4)
  <2> HIDE DEF d4
  <2> QED BY <1>1, <1>10, Concat
<1>12. /\ q1 \in Nat /\ q2 \in Nat /\ q3 \in Nat /\ q4 \in Nat /\ q5 \in Nat
       /\ q1 = 1 /\ q1 <= q2 /\ q2 <= q3 /\ q3 <= q4 /\ q4 <= q5
       /\ q5 + Len(y) = Len(Memory(t, m))
       /\ q3 = q2 + Len(a) /\ q4 = q3 + Len(b) /\ q5 = q4 + Len(c)
  <2> DEFINE nh == Len(h)
             ni == Len(i)
             nv == Len(v)
             nw == Len(w)
             nx == Len(x)
             ny == Len(y)
             na == Len(a)
             nb == Len(b)
             nc == Len(c)
             e1 == Len(d1)
             e2 == Len(d2)
             e3 == Len(d3)
             e4 == Len(d4)
             nm == Len(Memory(t, m))
  <2>1. /\ nv \in Nat /\ nw \in Nat /\ nx \in Nat /\ ny \in Nat /\ NumLen \in Nat
        /\ nh = 1 /\ ni = 2 /\ na = NumLen + nv /\ nb = NumLen + nw /\ nc = NumLen + nx
        /\ e1 = nc + ny /\ e2 = nb + e1 /\ e3 = na + e2 /\ e4 = ni + e3 /\ nm = nh + e4
    BY <1>1, <1>4, <1>6, <1>7, <1>8, <1>9, <1>10, <1>11
  <2> HIDE DEF nh, ni, nv, nw, nx, ny, na, nb, nc, e1, e2, e3, e4, nm
  <2>2. LET j1 == 0 + nh
            j2 == j1 + ni
            j3 == j2 + (NumLen + nv)
            j4 == j3 + (NumLen + nw)
            j5 == j4 + (NumLen + nx)
        IN  /\ j1 \in Nat /\ j2 \in Nat /\ j3 \in Nat /\ j4 \in Nat /\ j5 \in Nat
            /\ j1 = 1 /\ j1 <= j2 /\ j2 <= j3 /\ j3 <= j4 /\ j4 <= j5
            /\ j5 + ny = nm
            /\ j3 = j2 + na /\ j4 = j3 + nb /\ j5 = j4 + nc
    BY <2>1
  <2> QED BY <2>2 DEF nh, ni, nv, nw, nx, ny, na, nb, nc, nm
<1>13. Agree(buf, 0, h) /\ Agree(buf, q1, d4)
  <2>1. /\ buf \in Seq(Nat) /\ 0 \in Nat /\ h \in Seq(Nat) /\ d4 \in Seq(Nat)
        /\ Agree(buf, 0, h \o d4)
    BY <1>1, <1>4, <1>5, <1>10
  <2>2. 0 + Len(h) = q1
    BY <1>12
  <2> HIDE DEF d4, q1
  <2>3. Agree(buf, 0, h) /\ Agree(buf, 0 + Len(h), d4)
    BY <2>1, AgreeConcat
  <2> QED BY <2>2, <2>3
<1>14. Agree(buf, q1, i) /\ Agree(buf, q2, d3)
  <2>1. /\ buf \in Seq(Nat) /\ q1 \in Nat /\ i \in Seq(Nat) /\ d3 \in Seq(Nat)
        /\ Agree(buf, q1, i \o d3)
    BY <1>1, <1>5, <1>9, <1>12, <1>13
  <2>2. q1 + Len(i) = q2
    BY <1>12
  <2> HIDE DEF d3, q1, q2
  <2>3. Agree(buf, q1, i) /\ Agree(buf, q1 + Len(i), d3)
    BY <2>1, AgreeConcat
  <2> QED BY <2>2, <2>3
<1>15. Agree(buf, q2, a) /\ Agree(buf, q3, d2)
  <2>1. /\ buf \in Seq(Nat) /\ q2 \in Nat /\ a \in Seq(Nat) /\ d2 \in Seq(Nat)
        /\ Agree(buf, q2, a \o d2)
    BY <1>5, <1>6, <1>8, <1>12, <1>14
  <2>2. q2 + Len(a) = q3
    BY <1>12
  <2> HIDE DEF d2, q2, q3
  <2>3. Agree(buf, q2, a) /\ Agree(buf, q2 + Len(a), d2)
    BY <2>1, AgreeConcat
  <2> QED BY <2>2, <2>3
<1>16. Agree(buf, q3, b) /\ Agree(buf, q4, d1)
  <2>1. /\ buf \in Seq(Nat) /\ q3 \in Nat /\ b \in Seq(Nat) /\ d1 \in Seq(Nat)
        /\ Agree(buf, q3, b \o d1)
    BY <1>5, <1>6, <1>7, <1>12, <1>15
  <2>2. q3 + Len(b) = q4
    BY <1>12
  <2> HIDE DEF d1, q3, q4
  <2>3. Agree(buf, q3, b) /\ Agree(buf, q3 + Len(b), d1)
    BY <2>1, AgreeConcat
  <2> QED BY <2>2, <2>3
<1>17. Agree(buf, q4, c) /\ Agree(buf, q5, y)
  <2>1. /\ buf \in Seq(Nat) /\ q4 \in Nat /\ c \in Seq(Nat) /\ y \in Seq(Nat)
        /\ Agree(buf, q4, c \o y)
    BY <1>3, <1>5, <1>6, <1>12, <1>16
  <2>2. q4 + Len(c) = q5
    BY <1>12
  <2> HIDE DEF q4, q5
  <2>3. Agree(buf, q4, c) /\ Agree(buf, q4 + Len(c), y)
    BY <2>1, AgreeConcat
  <2> QED BY <2>2, <2>3
<1> HIDE DEF d1, d2, d3, d4
<1>18. DataRead(type, z, 0, h, 1)
  <2>1. 1 \in 0..Len(h) /\ 1 = Len(h) /\ 0 \in Nat
    BY <1>1
  <2> QED BY <1>1, <1>5, <1>13, <2>1, DataStep
<1> HIDE DEF type
<1>19. /\ ReaderType(type) /\ Reached(type, q1)
       /\ type.ok => 1 <= Len(buf)
       /\ q1 <= Len(buf) => type.ok /\ type.val = h
  BY <1>18 DEF DataRead
<1> HIDE DEF q1
<1>20. DataRead(id, type, q1, i, IdLen)
  <2>1. IdLen \in 0..Len(i) /\ IdLen = Len(i)
    BY <1>1
  <2> QED BY <1>1, <1>5, <1>12, <1>14, <1>19, <2>1, DataStep
<1> HIDE DEF id
<1>21. /\ ReaderType(id) /\ Reached(id, q2) /\ (id.ok => type.ok)
       /\ q2 <= Len(buf) /\ type.ok => id.ok /\ id.val = i
  BY <1>20 DEF DataRead
<1> HIDE DEF q2
<1>22. FieldRead(so, id, q2, v, 1)
  BY <1>1, <1>5, <1>12, <1>15, <1>21, FieldStep DEF a
<1> HIDE DEF so
<1>23. /\ ReaderType(so) /\ Reached(so, q3) /\ (so.ok => id.ok)
       /\ q3 <= Len(buf) /\ id.ok => so.ok /\ so.val = v
  BY <1>22 DEF FieldRead
<1> HIDE DEF q3
<1>24. FieldRead(build, so, q3, w, 1)
  BY <1>1, <1>2, <1>5, <1>12, <1>16, <1>23, FieldStep DEF b
<1> HIDE DEF build
<1>25. /\ ReaderType(build) /\ Reached(build, q4) /\ (build.ok => so.ok)
       /\ q4 <= Len(buf) /\ so.ok => build.ok /\ build.val = w
  BY <1>24 DEF FieldRead
<1> HIDE DEF q4
<1>26. FieldRead(s, build, q4, x, 1)
  BY <1>1, <1>3, <1>5, <1>12, <1>17, <1>25, FieldStep DEF c
<1> HIDE DEF s
<1>27. /\ ReaderType(s) /\ Reached(s, q5) /\ (s.ok => build.ok)
       /\ q5 <= Len(buf) /\ build.ok => s.ok /\ s.val = x
       /\ s.ok /\ q5 > Len(buf) => Len(x) % Base = 0
  BY <1>26 DEF FieldRead
<1> HIDE DEF q5
<1>28. s.ok => type.val = h /\ (t = 2 => q5 <= Len(buf))
  <2>1. s.ok => type.ok
    BY <1>21, <1>23, <1>25, <1>27
  <2>2. s.ok => type.val = h
    BY <1>12, <1>19, <2>1
  <2>3. t = 2 /\ s.ok => ~(q5 > Len(buf))
    BY <1>3, <1>27
  <2> QED BY <1>5, <1>12, <2>2, <2>3
<1>29. ASSUME q5 <= Len(buf)
       PROVE  /\ s.ok /\ so.ok /\ type.val = h /\ id.val = i
              /\ CString(so.val) = Path /\ build.val = w /\ CString(s.val) = m.name
  <2>1. q1 <= Len(buf) /\ q2 <= Len(buf) /\ q3 <= Len(buf) /\ q4 <= Len(buf)
    BY <1>5, <1>12, <1>29
  <2>2. type.ok /\ type.val = h /\ id.ok /\ id.val = i
    BY <1>19, <1>21, <2>1
  <2>3. so.ok /\ so.val = v /\ build.ok /\ build.val = w
    BY <1>23, <1>25, <2>1, <2>2
  <2>4. s.ok /\ s.val = x
    BY <1>27, <1>29, <2>3
  <2> QED BY <1>1, <1>3, <2>2, <2>3, <2>4
<1>30. HeaderRead(z, t, m, q5)
  BY <1>27, <1>28, <1>29 DEF HeaderRead, type, id, so, build, s, h, i, w
<1>31. Agree(buf, q5, Behind(t, m)) /\ q5 + Len(Behind(t, m)) = Len(Memory(t, m))
  BY <1>12, <1>17 DEF y
<1> QED BY <1>12, <1>30, <1>31

\* The result of a read with another outcome.
LEMMA OtherResult ==
  ASSUME NEW z, NEW need, NEW x
  PROVE  LET s == ReadField(z, need)
             r == [s EXCEPT !.ok = x]
         IN  r.cur = s.cur /\ r.c = s.c /\ r.ok = x
<1>1. ASSUME NEW a, NEW b, NEW o, NEW v
      PROVE  LET s == [cur |-> a, c |-> b, ok |-> o, val |-> v]
                 r == [s EXCEPT !.ok = x]
             IN  r.cur = s.cur /\ r.c = s.c /\ r.ok = x
  OBVIOUS
<1> DEFINE l == ReadLength(z, need)
<1>2. ReadField(z, need) = read_from_mem(l, l.c, l.c)
  BY DEF ReadField
<1> HIDE DEF l
<1> DEFINE a == l.cur + Avail(l, l.c)
           o == l.ok /\ Avail(l, l.c) >= l.c
           v == Got(l, l.c)
           b == l.c
<1>3. ReadField(z, need) = [cur |-> a, c |-> b, ok |-> o, val |-> v]
  BY <1>2, Zenon DEF read_from_mem
<1> HIDE DEF a, b, o, v
<1> QED BY <1>1, <1>3

\* The header, put into empty metadata.
LEMMA HeaderOnly ==
  ASSUME NEW t, NEW m
  PROVE  [NoMetadata EXCEPT !.type = t, !.patch_id = m.patch_id, !.so_filename = Path,
                            !.build_id = m.build_id, !.name = m.name, !.units = <<>>]
         = Full(t, m, <<>>, <<>>, 0, <<>>)
<1> DEFINE a == t
           b == m.patch_id
           c == Path
           d == m.build_id
           e == m.name
<1> HIDE DEF a, b, c, d, e
<1> DEFINE r0 == NoMetadata
           r1 == [r0 EXCEPT !.type = a]
           r2 == [r1 EXCEPT !.patch_id = b]
           r3 == [r2 EXCEPT !.so_filename = c]
           r4 == [r3 EXCEPT !.build_id = d]
           r5 == [r4 EXCEPT !.name = e]
           r6 == [r5 EXCEPT !.units = <<>>]
<1>1. r0 = [type |-> 0, patch_id |-> <<>>, so_filename |-> <<>>, build_id |-> <<>>, name |-> <<>>,
            units |-> <<>>, deps |-> <<>>, nrefs |-> 0, refs |-> <<>>]
  BY DEF NoMetadata
<1> HIDE DEF r0
<1>2. r1 = [type |-> a, patch_id |-> <<>>, so_filename |-> <<>>, build_id |-> <<>>, name |-> <<>>,
            units |-> <<>>, deps |-> <<>>, nrefs |-> 0, refs |-> <<>>]
  BY <1>1
<1> HIDE DEF r1
<1>3. r2 = [type |-> a, patch_id |-> b, so_filename |-> <<>>, build_id |-> <<>>, name |-> <<>>,
            units |-> <<>>, deps |-> <<>>, nrefs |-> 0, refs |-> <<>>]
  BY <1>2
<1> HIDE DEF r2
<1>4. r3 = [type |-> a, patch_id |-> b, so_filename |-> c, build_id |-> <<>>, name |-> <<>>,
            units |-> <<>>, deps |-> <<>>, nrefs |-> 0, refs |-> <<>>]
  BY <1>3
<1> HIDE DEF r3
<1>5. r4 = [type |-> a, patch_id |-> b, so_filename |-> c, build_id |-> d, name |-> <<>>,
            units |-> <<>>, deps |-> <<>>, nrefs |-> 0, refs |-> <<>>]
  BY <1>4
<1> HIDE DEF r4
<1>6. r5 = [type |-> a, patch_id |-> b, so_filename |-> c, build_id |-> d, name |-> e,
            units |-> <<>>, deps |-> <<>>, nrefs |-> 0, refs |-> <<>>]
  BY <1>5
<1> HIDE DEF r5
<1>7. r6 = [type |-> a, patch_id |-> b, so_filename |-> c, build_id |-> d, name |-> e,
            units |-> <<>>, deps |-> <<>>, nrefs |-> 0, refs |-> <<>>]
  BY <1>6
<1>8. r6 = [NoMetadata EXCEPT !.type = a, !.patch_id = b, !.so_filename = c,
                              !.build_id = d, !.name = e, !.units = <<>>]
  BY DEF r0, r1, r2, r3, r4, r5
<1> HIDE DEF r6
<1> QED BY <1>7, <1>8, Zenon DEF Full, a, b, c, d, e

\* The header.
LEMMA HeaderStep ==
  ASSUME NEW t \in {1, 2}, NEW m, Writable(m), ReaderOk, AtHeader(t, m), ParseHeader
  PROVE  ParserInv(t, m)'
<1> DEFINE type == read_from_mem(Reading, 1, 1)
           id == read_from_mem(type, IdLen, IdLen)
           so == ReadField(id, 1)
           path == IF so.ok THEN CString(so.val) ELSE <<>>
           build == ReadField(so, 1)
           s == ReadField(build, 1)
           r == [s EXCEPT !.ok = s.ok /\ path # <<>>]
           next == IF type.val = <<2>> THEN "done" ELSE "nunits"
           u == [ulp EXCEPT !.type = type.val[1], !.patch_id = id.val,
                            !.so_filename = path, !.build_id = build.val,
                            !.name = CString(s.val), !.units = <<>>]
<1>1. Advance(r, next, 0, u)
  BY DEF ParseHeader
<1>2. cursor = 0 /\ ulp = NoMetadata /\ Agree(buf, 0, Memory(t, m))
  BY DEF AtHeader
<1>3. PICK q \in Nat : /\ HeaderRead(Reading, t, m, q) /\ Agree(buf, q, Behind(t, m))
                       /\ q + Len(Behind(t, m)) = Len(Memory(t, m))
  <2> DEFINE z == Reading
  <2>1. ReaderType(z) /\ Reached(z, 0) /\ z.ok
    BY <1>2, ReadingIs
  <2> HIDE DEF z
  <2>2. \E q \in Nat : /\ HeaderRead(z, t, m, q) /\ Agree(buf, q, Behind(t, m))
                       /\ q + Len(Behind(t, m)) = Len(Memory(t, m))
    BY <1>2, <2>1, HeaderReads
  <2> QED BY <2>2 DEF z
<1>4. /\ ReaderType(s) /\ Reached(s, q)
      /\ s.ok => type.val = <<t>> /\ (t = 2 => q <= Len(buf))
      /\ q <= Len(buf) =>
           /\ s.ok /\ so.ok /\ type.val = <<t>> /\ id.val = m.patch_id
           /\ CString(so.val) = Path /\ build.val = m.build_id /\ CString(s.val) = m.name
  BY <1>3 DEF HeaderRead
<1>5. r.cur = s.cur /\ r.c = s.c /\ r.ok \in BOOLEAN /\ (r.ok <=> s.ok /\ path # <<>>)
  <2> DEFINE x == s.ok /\ path # <<>>
  <2>1. s.ok \in BOOLEAN
    BY <1>4 DEF ReaderType
  <2>2. x \in BOOLEAN
    BY <2>1
  <2> HIDE DEF x
  <2>3. LET k == [s EXCEPT !.ok = x] IN k.cur = s.cur /\ k.c = s.c /\ k.ok = x
    BY OtherResult
  <2>4. LET k == [s EXCEPT !.ok = x]
        IN  k.cur = s.cur /\ k.c = s.c /\ k.ok \in BOOLEAN /\ (k.ok <=> x)
    BY <2>2, <2>3
  <2> QED BY <2>4 DEF x
<1>6. path = IF so.ok THEN CString(so.val) ELSE <<>>
  OBVIOUS
<1> HIDE DEF r, s, so, build, id, type, path
<1>7. ReaderType(r) /\ Reached(r, q)
  BY <1>4, <1>5 DEF ReaderType, Reached
<1>8. q <= Len(buf) => r.ok /\ path = Path
  BY <1>4, <1>5, <1>6, FixedParts
<1>9. Len(Memory(t, m)) \in Nat /\ Len(buf) \in Nat /\ Behind(t, m) \in Seq(Nat)
  BY MemoryType, NamePartIs DEF ReaderOk
<1>10. q <= Len(Memory(t, m))
  <2> DEFINE y == Len(Behind(t, m))
  <2>1. y \in Nat /\ q + y = Len(Memory(t, m))
    BY <1>3, <1>9
  <2> HIDE DEF y
  <2> QED BY <1>9, <2>1
<1>11. /\ ReaderOk' /\ buf' = buf
       /\ q <= Len(buf) => cursor' = q /\ phase' = next /\ ulp' = u
       /\ q > Len(buf) /\ next \in InMiddle => TooShort(t, m)'
       /\ ~r.ok => TooShort(t, m)'
  <2> HIDE DEF next, u
  <2> QED BY <1>1, <1>7, <1>8, <1>10, Outcome
<1>12. CASE ~r.ok
  BY <1>11, <1>12 DEF ParserInv
<1>13. CASE r.ok
  <2>1. type.val = <<t>> /\ s.ok /\ (t = 2 => q <= Len(buf))
    BY <1>4, <1>5, <1>13
  <2>2. next = IF t = 2 THEN "done" ELSE "nunits"
    BY <2>1
  <2>3. CASE q > Len(buf)
    <3>1. t = 1
      BY <1>9, <2>1, <2>3
    <3>2. next \in InMiddle
      BY <2>2, <3>1 DEF InMiddle
    <3> QED BY <1>11, <2>3, <3>2 DEF ParserInv
  <2>4. CASE q <= Len(buf)
    <3>1. cursor' = q /\ phase' = next /\ ulp' = u /\ path = Path
      BY <1>8, <1>11, <2>4
    <3>2. u = Full(t, m, <<>>, <<>>, 0, <<>>)
      <4>1. type.val[1] = t
        BY <2>1
      <4>2. /\ id.val = m.patch_id /\ path = Path /\ build.val = m.build_id
            /\ CString(s.val) = m.name
        BY <1>4, <2>4, <3>1
      <4>3. u = [NoMetadata EXCEPT !.type = t, !.patch_id = m.patch_id,
                                   !.so_filename = Path, !.build_id = m.build_id,
                                   !.name = m.name, !.units = <<>>]
        BY <1>2, <4>1, <4>2
      <4> QED BY <4>3, HeaderOnly
    <3>3. CASE t = 1
      <4>1. Behind(t, m) = UnitPart(m)
        BY <3>3 DEF Behind
      <4>2. Stands(t, m, UnitPart(m))'
        BY <1>3, <1>11, <3>1, <4>1 DEF Stands
      <4>3. AtUnits(t, m)'
        BY <2>2, <3>1, <3>2, <3>3, <4>2 DEF AtUnits
      <4> QED BY <1>11, <4>3 DEF ParserInv, OnTrack
    <3>4. CASE t = 2
      <4>1. Behind(t, m) = <<>> /\ Len(<<>>) = 0
        BY <3>4 DEF Behind
      <4>2. cursor' = Len(Memory(t, m))
        BY <1>3, <1>9, <3>1, <4>1
      <4>3. ulp' = Whole(t, m)
        BY <3>1, <3>2, <3>4 DEF Whole
      <4>4. AtDone(t, m)'
        BY <2>2, <3>1, <3>4, <4>2, <4>3 DEF AtDone
      <4> QED BY <1>11, <4>4 DEF ParserInv, OnTrack
    <3> QED BY <3>3, <3>4
  <2> QED BY <1>9, <2>3, <2>4
<1> QED BY <1>5, <1>12, <1>13

\* At the end of the memory every action of the parser fails.
LEMMA ReadsFail ==
  ASSUME ReaderOk, cursor = Len(buf), NEW z, z.cur = cursor, ReaderType(z), NEW size \in Nat,
         NEW need \in Nat, need > 0
  PROVE  ~read_from_mem(z, size, need).ok /\ ~ReadLength(z, need).ok /\ ~ReadField(z, need).ok
<1>0. buf \in Seq(Nat) /\ Len(buf) \in Nat /\ NumLen \in Nat
  BY Sizes DEF ReaderOk
<1>1. ASSUME NEW k \in Nat PROVE Avail(z, k) = 0
  <2>1. Avail(z, k) \in 0..k /\ z.cur + Avail(z, k) \in 0..Len(buf)
    BY <1>0, AvailIs
  <2> QED BY <1>0, <2>1
<1>2. Avail(z, size) = 0 /\ Avail(z, NumLen) = 0
  BY <1>0, <1>1
<1>3. ~read_from_mem(z, size, need).ok /\ ~ReadLength(z, need).ok
  <2>1. ~(Avail(z, size) >= need) /\ ~(Avail(z, NumLen) >= need)
    BY <1>2
  <2> QED BY <2>1, ReadFields
<1>4. ~ReadField(z, need).ok
  <2> DEFINE l == ReadLength(z, need)
  <2>1. ~l.ok
    BY <1>3
  <2> HIDE DEF l
  <2>2. ~read_from_mem(l, l.c, l.c).ok
    BY <2>1, Failed
  <2> QED BY <2>2 DEF ReadField, l
<1> QED BY <1>3, <1>4

\* A read that fails leaves the parser where it gives up.
LEMMA FailsShort ==
  ASSUME NEW t, NEW m, TooShort(t, m), NEW s, ~s.ok, NEW next, NEW n, NEW u,
         Advance(s, next, n, u)
  PROVE  TooShort(t, m)'
<1>1. phase' = "invalid" /\ buf' = buf
  BY DEF Advance
<1> QED BY <1>1 DEF TooShort

\* At the end of a memory that is too short every further read fails.
LEMMA ShortStep ==
  ASSUME NEW t \in {1, 2}, NEW m, TooShort(t, m), Parse
  PROVE  TooShort(t, m)'
<1>1. phase # "invalid" /\ phase # "header"
  <2>1. phase # "invalid"
    BY DEF Parse, ParseHeader, ParseUnitCount, ParseUnit, ParseDepCount, ParseDep,
           ParseRefCount, ParseRef
  <2> QED BY <2>1 DEF TooShort, InMiddle
<1>2. ReaderOk /\ cursor = Len(buf)
  BY <1>1 DEF TooShort
<1> DEFINE z == Reading
           z0 == [Reading EXCEPT !.c = 0]
<1>3. z.cur = cursor /\ ReaderType(z) /\ z0.cur = cursor /\ ReaderType(z0)
  BY <1>2, ReadingIs
<1>4. /\ NumLen \in Nat /\ NumLen > 0 /\ AddrLen \in Nat /\ IdLen \in Nat /\ IdLen > 0
      /\ 1 \in Nat /\ 1 > 0
  BY Sizes
<1>5. ASSUME ParseUnitCount PROVE TooShort(t, m)'
  <2> DEFINE s == ReadLength(z0, 1)
             r == [s EXCEPT !.c = count]
  <2>1. \E next, n, u : Advance(r, next, n, u)
    BY <1>5 DEF ParseUnitCount
  <2>2. ~s.ok
    <3> HIDE DEF z0
    <3> QED BY <1>2, <1>3, <1>4, ReadsFail
  <2>3. ~r.ok
    BY <2>2, OtherLength
  <2> HIDE DEF r
  <2> QED BY <2>1, <2>3, FailsShort
<1>6. ASSUME ParseUnit PROVE TooShort(t, m)'
  <2> DEFINE old == ReadField(z, 1)
             new == ReadField(old, 1)
             s == read_from_mem(new, AddrLen, 1)
  <2>1. \E next, n, u : Advance(s, next, n, u)
    BY <1>6 DEF ParseUnit
  <2>2. ~old.ok
    <3> HIDE DEF z
    <3> QED BY <1>2, <1>3, <1>4, ReadsFail
  <2> HIDE DEF old
  <2>3. ~new.ok
    BY <2>2, Failed
  <2> HIDE DEF new
  <2>4. ~s.ok
    BY <2>3, Failed
  <2> HIDE DEF s
  <2> QED BY <2>1, <2>4, FailsShort
<1>7. ASSUME ParseDepCount PROVE TooShort(t, m)'
  <2> DEFINE s == ReadLength(z, 1)
  <2>1. \E next, n, u : Advance(s, next, n, u)
    BY <1>7 DEF ParseDepCount
  <2>2. ~s.ok
    <3> HIDE DEF z
    <3> QED BY <1>2, <1>3, <1>4, ReadsFail
  <2> HIDE DEF s
  <2> QED BY <2>1, <2>2, FailsShort
<1>8. ASSUME ParseDep PROVE TooShort(t, m)'
  <2> DEFINE s == read_from_mem(z, IdLen, IdLen)
  <2>1. \E next, n, u : Advance(s, next, n, u)
    BY <1>8 DEF ParseDep
  <2>2. ~s.ok
    <3> HIDE DEF z
    <3> QED BY <1>2, <1>3, <1>4, ReadsFail
  <2> HIDE DEF s
  <2> QED BY <2>1, <2>2, FailsShort
<1>9. ASSUME ParseRefCount PROVE TooShort(t, m)'
  <2> DEFINE s == ReadLength(z, NumLen)
             r == [s EXCEPT !.c = count]
  <2>1. \E next, n, u : Advance(r, next, n, u)
    BY <1>9 DEF ParseRefCount
  <2>2. ~s.ok
    <3> HIDE DEF z
    <3> QED BY <1>2, <1>3, <1>4, ReadsFail
  <2>3. ~r.ok
    BY <2>2, OtherLength
  <2> HIDE DEF r
  <2> QED BY <2>1, <2>3, FailsShort
<1>10. ASSUME ParseRef PROVE TooShort(t, m)'
  <2> DEFINE target == ReadField(z, NumLen)
             ref == ReadField(target, NumLen)
             toff == read_from_mem(ref, AddrLen, AddrLen)
             poff == read_from_mem(toff, AddrLen, AddrLen)
             s == read_from_mem(poff, 1, 1)
  <2>1. \E next, n, u : Advance(s, next, n, u)
    BY <1>10 DEF ParseRef
  <2>2. ~target.ok
    <3> HIDE DEF z
    <3> QED BY <1>2, <1>3, <1>4, ReadsFail
  <2> HIDE DEF target
  <2>3. ~ref.ok
    BY <2>2, Failed
  <2> HIDE DEF ref
  <2>4. ~toff.ok
    BY <2>3, Failed
  <2> HIDE DEF toff
  <2>5. ~poff.ok
    BY <2>4, Failed
  <2> HIDE DEF poff
  <2>6. ~s.ok
    BY <2>5, Failed
  <2> HIDE DEF s
  <2> QED BY <2>1, <2>6, FailsShort
<1>11. ~ParseHeader
  BY <1>1 DEF ParseHeader
<1> QED BY <1>5, <1>6, <1>7, <1>8, <1>9, <1>10, <1>11 DEF Parse

\* Every step of the parser keeps it on its way through the metadata.
LEMMA ParserStep ==
  ASSUME NEW t \in {1, 2}, NEW m, Writable(m), ParserInv(t, m), Parse
  PROVE  ParserInv(t, m)'
<1>1. CASE TooShort(t, m)
  BY <1>1, ShortStep DEF ParserInv
<1>2. CASE ReaderOk /\ OnTrack(t, m)
  <2>1. ASSUME ParseHeader PROVE ParserInv(t, m)'
    <3>1. AtHeader(t, m)
      BY <1>2, <2>1 DEF ParseHeader, OnTrack, AtHeader, AtUnits, AtUnit, AtDeps, AtDep,
                        AtRefs, AtRef, AtDone
    <3> QED BY <1>2, <2>1, <3>1, HeaderStep
  <2>2. ASSUME ParseUnitCount PROVE ParserInv(t, m)'
    <3>1. AtUnits(t, m)
      BY <1>2, <2>2 DEF ParseUnitCount, OnTrack, AtHeader, AtUnits, AtUnit, AtDeps, AtDep,
                        AtRefs, AtRef, AtDone
    <3> QED BY <1>2, <2>2, <3>1, UnitCountStep
  <2>3. ASSUME ParseUnit PROVE ParserInv(t, m)'
    <3>1. AtUnit(t, m)
      BY <1>2, <2>3 DEF ParseUnit, OnTrack, AtHeader, AtUnits, AtUnit, AtDeps, AtDep,
                        AtRefs, AtRef, AtDone
    <3> QED BY <1>2, <2>3, <3>1, UnitStep
  <2>4. ASSUME ParseDepCount PROVE ParserInv(t, m)'
    <3>1. AtDeps(t, m)
      BY <1>2, <2>4 DEF ParseDepCount, OnTrack, AtHeader, AtUnits, AtUnit, AtDeps, AtDep,
                        AtRefs, AtRef, AtDone
    <3> QED BY <1>2, <2>4, <3>1, DepCountStep
  <2>5. ASSUME ParseDep PROVE ParserInv(t, m)'
    <3>1. AtDep(t, m)
      BY <1>2, <2>5 DEF ParseDep, OnTrack, AtHeader, AtUnits, AtUnit, AtDeps, AtDep,
                        AtRefs, AtRef, AtDone
    <3> QED BY <1>2, <2>5, <3>1, DepStep
  <2>6. ASSUME ParseRefCount PROVE ParserInv(t, m)'
    <3>1. AtRefs(t, m)
      BY <1>2, <2>6 DEF ParseRefCount, OnTrack, AtHeader, AtUnits, AtUnit, AtDeps, AtDep,
                        AtRefs, AtRef, AtDone
    <3> QED BY <1>2, <2>6, <3>1, RefCountStep
  <2>7. ASSUME ParseRef PROVE ParserInv(t, m)'
    <3>1. AtRef(t, m)
      BY <1>2, <2>7 DEF ParseRef, OnTrack, AtHeader, AtUnits, AtUnit, AtDeps, AtDep,
                        AtRefs, AtRef, AtDone
    <3> QED BY <1>2, <2>7, <3>1, RefStep
  <2> QED BY <2>1, <2>2, <2>3, <2>4, <2>5, <2>6, <2>7 DEF Parse
<1> QED BY <1>1, <1>2 DEF ParserInv

-----------------------------------------------------------------------------
(***************************************************************************)
(* What a description says.                                                *)
(***************************************************************************)

\* One line, if it is of this kind.
Only(l, kind) == IF l.kind = kind THEN <<l>> ELSE <<>>

\* One more line is picked or left out.
LEMMA OfKindAppend ==
  ASSUME NEW S, NEW d \in Seq(S), NEW l \in S, NEW kind
  PROVE  /\ OfKind(d, kind) \in Seq(S)
         /\ OfKind(Append(d, l), kind) = OfKind(d, kind) \o Only(l, kind)
<1> DEFINE e == Append(d, l)
           s == [i \in DOMAIN e |-> IF e[i].kind = kind THEN <<e[i]>> ELSE <<>>]
           t == [i \in DOMAIN d |-> IF d[i].kind = kind THEN <<d[i]>> ELSE <<>>]
           n == Len(d)
<1>1. OfKind(e, kind) = FlattenSeq(s) /\ OfKind(d, kind) = FlattenSeq(t)
  BY DEF OfKind
<1>2. /\ n \in Nat /\ e \in Seq(S) /\ Len(e) = n + 1 /\ e[n + 1] = l
      /\ DOMAIN e = 1..(n + 1) /\ DOMAIN d = 1..n
      /\ \A i \in 1..n : e[i] = d[i] /\ d[i] \in S
      /\ \A i \in 1..(n + 1) : e[i] \in S
  <2>1. n \in Nat /\ \A i \in 1..n : d[i] \in S
    OBVIOUS
  <2>2. e \in Seq(S) /\ Len(e) = n + 1 /\ e[n + 1] = l /\ \A i \in 1..n : e[i] = d[i]
    BY AppendProperties
  <2> HIDE DEF e
  <2>3. DOMAIN e = 1..(n + 1) /\ \A i \in 1..(n + 1) : e[i] \in S
    BY <2>1, <2>2
  <2> QED BY <2>1, <2>2, <2>3
<1> HIDE DEF e, n
<1>3. \A x \in S : (IF x.kind = kind THEN <<x>> ELSE <<>>) \in Seq(S)
  OBVIOUS
<1>4. s \in [1..(n + 1) -> Seq(S)] /\ t \in [1..n -> Seq(S)]
  BY <1>2, <1>3
<1>5. s[n + 1] = Only(l, kind) /\ \A i \in 1..n : s[i] = t[i]
  BY <1>2 DEF Only
<1> HIDE DEF s, t
<1>6. s \in Seq(Seq(S)) /\ t \in Seq(Seq(S)) /\ Len(s) = n + 1 /\ Len(t) = n
  <2>1. n \in Nat /\ n + 1 \in Nat
    BY <1>2
  <2>2. s \in Seq(Seq(S)) /\ Len(s) = n + 1
    BY <1>4, <2>1
  <2>3. t \in Seq(Seq(S)) /\ Len(t) = n
    BY <1>4, <2>1
  <2> QED BY <2>2, <2>3
<1>7. FlattenSeq(s) = FlattenSeq(t) \o s[Len(s)]
  BY <1>5, <1>6, FlattenLast
<1>8. FlattenSeq(t) \in Seq(S)
  BY <1>6, FlattenType
<1> QED BY <1>1, <1>5, <1>6, <1>7, <1>8 DEF e

\* No line is of any kind.
LEMMA OfKindEmpty ==
  ASSUME NEW kind
  PROVE  OfKind(<<>>, kind) = <<>>
<1>1. [i \in DOMAIN <<>> |-> IF <<>>[i].kind = kind THEN <<(<<>>[i])>> ELSE <<>>] = <<>>
  OBVIOUS
<1>2. FlattenSeq(<<>>) = <<>>
  BY NoBytes
<1> QED BY <1>1, <1>2 DEF OfKind

\* The lines of one kind are lines of the description.
Picks(s, d, kind) ==
  /\ s \in Seq(Line) /\ Len(s) <= Len(d)
  /\ \A i \in 1..Len(s) : s[i].kind = kind /\ \E j \in 1..Len(d) : s[i] = d[j]

\* The same for what is picked.
LEMMA PicksMore ==
  ASSUME NEW s, NEW d \in Seq(Line), NEW kind, Picks(s, d, kind), NEW l \in Line
  PROVE  Picks(s \o Only(l, kind), Append(d, l), kind)
<1> DEFINE e == Append(d, l)
           n == Len(d)
           k == Len(s)
<1>1. /\ n \in Nat /\ Len(e) = n + 1 /\ e[n + 1] = l /\ \A i \in 1..n : e[i] = d[i]
  BY AppendProperties
<1>2. /\ s \in Seq(Line) /\ k \in Nat /\ k <= n
      /\ \A i \in 1..k : s[i].kind = kind /\ \E j \in 1..n : s[i] = d[j]
  BY DEF Picks
<1> HIDE DEF e, n, k
<1>3. CASE l.kind = kind
  <2> DEFINE o == <<l>>
             r == s \o o
  <2>1. o \in Seq(Line) /\ Len(o) = 1 /\ o[1] = l
    OBVIOUS
  <2> HIDE DEF o
  <2>2. /\ r \in Seq(Line) /\ Len(r) = k + 1
        /\ \A i \in 1..(k + 1) : r[i] = IF i <= k THEN s[i] ELSE o[i - k]
    <3>1. /\ s \o o \in Seq(Line) /\ Len(s \o o) = Len(s) + Len(o)
          /\ \A i \in 1..(Len(s) + Len(o)) :
               (s \o o)[i] = IF i <= Len(s) THEN s[i] ELSE o[i - Len(s)]
      BY <1>2, <2>1, ConcatProperties
    <3> QED BY <2>1, <3>1 DEF k
  <2> HIDE DEF r
  <2>3. Len(r) <= Len(e)
    BY <1>1, <1>2, <2>2
  <2>4. ASSUME NEW i \in 1..Len(r)
        PROVE  r[i].kind = kind /\ \E j \in 1..Len(e) : r[i] = e[j]
    <3>1. CASE i <= k
      <4>1. i \in 1..k /\ r[i] = s[i]
        BY <1>2, <2>2, <3>1
      <4>2. PICK j \in 1..n : s[i] = d[j]
        BY <1>2, <4>1
      <4>3. j \in 1..Len(e) /\ e[j] = d[j]
        BY <1>1
      <4> QED BY <1>2, <4>1, <4>2, <4>3
    <3>2. CASE ~(i <= k)
      <4>1. i = k + 1 /\ i - k = 1
        BY <1>2, <2>2, <3>2
      <4>2. r[i] = l
        BY <2>1, <2>2, <3>2, <4>1
      <4>3. n + 1 \in 1..Len(e)
        BY <1>1
      <4> QED BY <1>1, <1>3, <4>2, <4>3
    <3> QED BY <3>1, <3>2
  <2>5. Picks(r, e, kind)
    BY <2>2, <2>3, <2>4 DEF Picks
  <2>6. s \o Only(l, kind) = r
    BY <1>3 DEF Only, r, o
  <2> QED BY <2>5, <2>6 DEF e
<1>4. CASE l.kind # kind
  <2>1. s \o Only(l, kind) = s
    BY <1>2, <1>4, ConcatEmptySeq DEF Only
  <2>2. k <= Len(e)
    BY <1>1, <1>2
  <2>3. ASSUME NEW i \in 1..k PROVE s[i].kind = kind /\ \E j \in 1..Len(e) : s[i] = e[j]
    <3>1. PICK j \in 1..n : s[i] = d[j]
      BY <1>2
    <3>2. j \in 1..Len(e) /\ e[j] = d[j]
      BY <1>1
    <3> QED BY <1>2, <3>1, <3>2
  <2>4. Picks(s, e, kind)
    BY <1>2, <2>2, <2>3 DEF Picks, k
  <2> QED BY <2>1, <2>4 DEF e
<1> QED BY <1>3, <1>4

\* The lines of a kind, for descriptions of any length.
LEMMA OfKindPicks ==
  ASSUME NEW d \in Seq(Line), NEW kind
  PROVE  Picks(OfKind(d, kind), d, kind)
<1> DEFINE N == {n \in Nat : \A e \in Seq(Line) : Len(e) = n => Picks(OfKind(e, kind), e, kind)}
<1>1. 0 \in N
  <2> SUFFICES ASSUME NEW e \in Seq(Line), Len(e) = 0 PROVE Picks(OfKind(e, kind), e, kind)
    OBVIOUS
  <2>1. e = <<>>
    BY EmptySeq
  <2>2. OfKind(e, kind) = <<>>
    BY <2>1, OfKindEmpty
  <2>3. <<>> \in Seq(Line) /\ Len(<<>>) = 0 /\ 1..0 = {}
    OBVIOUS
  <2>4. \A i \in 1..Len(<<>>) : FALSE
    BY <2>3
  <2>5. Len(<<>>) <= Len(<<>>)
    BY <2>3
  <2>6. Picks(<<>>, <<>>, kind)
    <3> DEFINE x == <<>>
    <3>1. x \in Seq(Line) /\ Len(x) <= Len(x) /\ \A i \in 1..Len(x) : FALSE
      BY <2>3, <2>4, <2>5
    <3> HIDE DEF x
    <3>2. Picks(x, x, kind)
      BY <3>1 DEF Picks
    <3> QED BY <3>2 DEF x
  <2> QED BY <2>1, <2>2, <2>6
<1>2. ASSUME NEW n \in Nat, n \in N PROVE n + 1 \in N
  <2> SUFFICES ASSUME NEW e \in Seq(Line), Len(e) = n + 1
               PROVE  Picks(OfKind(e, kind), e, kind)
    OBVIOUS
  <2> DEFINE f == SubSeq(e, 1, n)
             l == e[n + 1]
  <2>1. f \in Seq(Line) /\ Len(f) = n /\ l \in Line /\ \A i \in 1..n : f[i] = e[i]
    OBVIOUS
  <2> HIDE DEF f, l
  <2>2. Append(f, l) = e
    <3>1. /\ Append(f, l) \in Seq(Line) /\ Len(Append(f, l)) = n + 1
          /\ Append(f, l)[n + 1] = l /\ \A i \in 1..n : Append(f, l)[i] = f[i]
      BY <2>1, AppendProperties
    <3>2. \A i \in 1..(n + 1) : Append(f, l)[i] = e[i]
      BY <2>1, <3>1 DEF l
    <3> QED BY <3>1, <3>2, SeqEqual
  <2>3. Picks(OfKind(f, kind), f, kind)
    BY <1>2, <2>1
  <2>4. OfKind(Append(f, l), kind) = OfKind(f, kind) \o Only(l, kind)
    BY <2>1, OfKindAppend
  <2>5. Picks(OfKind(f, kind) \o Only(l, kind), Append(f, l), kind)
    BY <2>1, <2>3, PicksMore
  <2> QED BY <2>2, <2>4, <2>5
<1>3. Nat \subseteq N
  <2> HIDE DEF N
  <2> QED BY <1>1, <1>2, Induction
<1>4. Len(d) \in N
  BY <1>3
<1> QED BY <1>4

\* The elements of a sequence.
LEMMA ElementsOf ==
  ASSUME NEW S, NEW s \in Seq(S)
  PROVE  /\ \A x \in ToSet(s) : x \in S
         /\ \A x : x \in ToSet(s) <=> \E i \in 1..Len(s) : x = s[i]
<1>1. DOMAIN s = 1..Len(s) /\ Len(s) \in Nat /\ \A i \in 1..Len(s) : s[i] \in S
  OBVIOUS
<1> QED BY <1>1 DEF ToSet

Units(d) ==
  LET us == OfKind(d, "unit") IN [i \in DOMAIN us |-> Unit(us[i])]

DepIds(d) == {l.id : l \in ToSet(OfKind(d, "dep"))}

References(d) == {Reference(l) : l \in ToSet(OfKind(d, "ref"))}

UnitsKnown(d) == \A l \in ToSet(OfKind(d, "unit")) : l.old \in DOMAIN TargetSymbols

\* All that the metadata m says is from the description d, but for the id.
Says(d, m) ==
  /\ m.build_id = BuildId /\ m.name = LibName
  /\ m.units = Units(d) /\ UnitsKnown(d)
  /\ m.deps \in Seq(Id) /\ Len(m.deps) <= Len(d) /\ ToSet(m.deps) = DepIds(d)
  /\ m.refs \in Seq(RefRecord) /\ Len(m.refs) <= Len(d) /\ ToSet(m.refs) = References(d)

\* The metadata m, in a file or read from it, is that of the description d.
Packed(d, m) == Writable(m) /\ \A t \in {1, 2} : Describes(d, Whole(t, m))

\* An id has the length that the format wants.
LEMMA PatchIdType ==
  ASSUME NEW d \in Seq(Line)
  PROVE  PatchId(d) \in Id
<1> DEFINE x == [i \in DOMAIN d |-> d[i].text]
           y == Append(x, 1)
<1>1. DOMAIN d = 1..Len(d) /\ Len(d) \in Nat /\ \A i \in 1..Len(d) : d[i].text \in Nat
  BY LineAssumption
<1>2. x \in [1..Len(d) -> Nat]
  BY <1>1
<1>3. Digest(d) = Value(y)
  BY DEF Digest
<1> HIDE DEF x
<1>4. x \in Seq(Nat)
  BY <1>1, <1>2
<1>5. y \in Seq(Nat)
  BY <1>4
<1> HIDE DEF y
<1>6. Digest(d) \in Nat
  BY <1>3, <1>5, ValueType
<1> DEFINE n == Digest(d)
<1>7. PatchId(d) = <<1, n>>
  BY DEF PatchId
<1> HIDE DEF n
<1>8. n \in Nat
  BY <1>6 DEF n
<1>9. <<1, n>> \in Seq(Nat) /\ Len(<<1, n>>) = 2
  BY <1>8
<1> QED BY <1>7, <1>9, Sizes DEF Id

\* The functions of a description can be written.
LEMMA UnitsType ==
  ASSUME NEW d \in Seq(Line), UnitsKnown(d)
  PROVE  Units(d) \in Seq(UnitRecord) /\ Len(Units(d)) <= Len(d) /\ Len(Units(d)) \in Nat
<1> DEFINE us == OfKind(d, "unit")
           k == Len(us)
           r == [i \in DOMAIN us |-> Unit(us[i])]
<1>1. /\ us \in Seq(Line) /\ k <= Len(d) /\ \A i \in 1..k : us[i].kind = "unit"
  BY OfKindPicks DEF Picks
<1>2. \A i \in 1..k : us[i].old \in DOMAIN TargetSymbols
  BY <1>1, ElementsOf DEF UnitsKnown
<1>3. Units(d) = r
  BY DEF Units
<1> HIDE DEF us
<1>4. DOMAIN us = 1..k /\ k \in Nat /\ \A i \in 1..k : us[i] \in Line
  BY <1>1
<1>5. ASSUME NEW i \in 1..k PROVE Unit(us[i]) \in UnitRecord
  <2> DEFINE l == us[i]
  <2>1. l \in Line /\ l.kind = "unit" /\ l.old \in DOMAIN TargetSymbols
    BY <1>1, <1>2, <1>4
  <2> HIDE DEF l
  <2>2. l.old \in Name /\ l.new \in Name
    BY <2>1, LineAssumption
  <2>3. TargetSymbols[l.old] \in Addr
    BY <2>1, PackerAssumption
  <2>4. Unit(l) \in UnitRecord
    BY <2>2, <2>3 DEF Unit, UnitRecord
  <2> QED BY <2>4 DEF l
<1>6. r \in [1..k -> UnitRecord]
  BY <1>4, <1>5
<1> HIDE DEF r, k
<1>7. r \in Seq(UnitRecord) /\ Len(r) = k
  BY <1>4, <1>6
<1> QED BY <1>1, <1>3, <1>4, <1>7

\* Metadata that says what a description says can be written and describes it.
LEMMA PackedIs ==
  ASSUME NEW d \in Seq(Line), Fits(Len(d), NumLen), NEW m, Says(d, m), m.patch_id = PatchId(d)
  PROVE  Packed(d, m)
<1>1. /\ m.build_id = BuildId /\ m.name = LibName /\ m.units = Units(d) /\ UnitsKnown(d)
      /\ m.deps \in Seq(Id) /\ Len(m.deps) <= Len(d) /\ ToSet(m.deps) = DepIds(d)
      /\ m.refs \in Seq(RefRecord) /\ Len(m.refs) <= Len(d) /\ ToSet(m.refs) = References(d)
  BY DEF Says
<1>2. m.units \in Seq(UnitRecord) /\ Len(m.units) <= Len(d) /\ Len(m.units) \in Nat
  BY <1>1, UnitsType
<1>3. m.patch_id \in Id
  BY PatchIdType
<1>4. Len(m.deps) \in Nat /\ Len(m.refs) \in Nat /\ Len(d) \in Nat /\ NumLen \in Nat
  BY <1>1, Sizes
<1>5. Fits(Len(m.units), NumLen) /\ Fits(Len(m.deps), NumLen) /\ Fits(Len(m.refs), NumLen)
  BY <1>1, <1>2, <1>4, FitsSmaller
<1>6. Writable(m)
  BY <1>1, <1>2, <1>3, <1>5 DEF Writable
<1>7. ASSUME NEW t \in {1, 2} PROVE Describes(d, Whole(t, m))
  <2> DEFINE w == Whole(t, m)
  <2>1. /\ w.type = t /\ w.patch_id = m.patch_id /\ w.build_id = m.build_id
        /\ w.name = m.name /\ w.so_filename = Path
        /\ t = 1 => w.units = m.units /\ w.deps = m.deps /\ w.refs = m.refs
        /\ t = 2 => w.units = <<>> /\ w.deps = <<>> /\ w.refs = <<>>
    BY DEF Whole, Full
  <2> HIDE DEF w
  <2>2. Describes(d, w)
    BY <1>1, <2>1 DEF Describes, Units, DepIds, References
  <2> QED BY <2>2 DEF w
<1> QED BY <1>6, <1>7 DEF Packed

\* A reference with known symbols can be written.
LEMMA ReferenceType ==
  ASSUME NEW l \in Line, l.kind = "ref", Known(l)
  PROVE  Reference(l) \in RefRecord
<1>1. /\ l.target \in Name /\ l.ref \in Name /\ l.manual \in BOOLEAN
      /\ l.toff \in Addr /\ l.poff \in Addr /\ l.tls \in Nat
  BY LineAssumption
<1>2. (l.manual /\ l.toff # 0) \/ l.target \in DOMAIN TargetSymbols
  BY DEF Known
<1>3. l.manual \/ l.ref \in DOMAIN PatchSymbols
  BY DEF Known
<1> DEFINE a == IF l.manual /\ l.toff # 0 THEN l.toff ELSE TargetSymbols[l.target]
           b == IF l.manual THEN l.poff ELSE PatchSymbols[l.ref]
<1>4. a \in Addr
  BY <1>1, <1>2, PackerAssumption
<1>5. b \in Addr
  BY <1>1, <1>3, PackerAssumption
<1>6. Reference(l) = [target_name |-> l.target, reference_name |-> l.ref,
                      target_offset |-> a, patch_offset |-> b, tls |-> l.tls]
  BY DEF Reference
<1> HIDE DEF a, b
<1> QED BY <1>1, <1>4, <1>5, <1>6 DEF RefRecord

\* The container that was packed before.
LEMMA OlderPacked ==
  Packed(Older, Built(Older))
<1> DEFINE d == Older
           m == Built(d)
           ds == OfKind(d, "dep")
           rs == OfKind(d, "ref")
           us == OfKind(d, "unit")
           x == [i \in DOMAIN ds |-> ds[i].id]
           y == [i \in DOMAIN rs |-> Reference(rs[i])]
<1>1. d \in Seq(Line) /\ Fits(Len(d), NumLen) /\ \A j \in 1..Len(d) : Known(d[j])
  <2>1. d \in Seq(Line) /\ Fits(Len(d), NumLen) /\ \A j \in DOMAIN d : Known(d[j])
    BY OlderAssumption
  <2>2. DOMAIN d = 1..Len(d)
    BY <2>1
  <2> QED BY <2>1, <2>2
<1>2. /\ m.patch_id = PatchId(d) /\ m.build_id = BuildId /\ m.name = LibName
      /\ m.units = Units(d) /\ m.deps = x /\ m.refs = y
  BY DEF Built, Units
<1> HIDE DEF d, m
<1>3. ASSUME NEW kind
      PROVE  LET s == OfKind(d, kind)
             IN  /\ s \in Seq(Line) /\ Len(s) <= Len(d) /\ Len(s) \in Nat
                 /\ DOMAIN s = 1..Len(s)
                 /\ \A i \in 1..Len(s) : s[i] \in Line /\ s[i].kind = kind /\ Known(s[i])
  <2> DEFINE s == OfKind(d, kind)
  <2>1. /\ s \in Seq(Line) /\ Len(s) <= Len(d)
        /\ \A i \in 1..Len(s) : s[i].kind = kind /\ \E j \in 1..Len(d) : s[i] = d[j]
    BY <1>1, OfKindPicks DEF Picks
  <2> HIDE DEF s
  <2>2. \A i \in 1..Len(s) : Known(s[i])
    BY <1>1, <2>1
  <2>3. Len(s) \in Nat /\ DOMAIN s = 1..Len(s) /\ \A i \in 1..Len(s) : s[i] \in Line
    BY <2>1
  <2> QED BY <2>1, <2>2, <2>3 DEF s
<1>4. /\ ds \in Seq(Line) /\ Len(ds) <= Len(d) /\ Len(ds) \in Nat /\ DOMAIN ds = 1..Len(ds)
      /\ \A i \in 1..Len(ds) : ds[i] \in Line /\ ds[i].kind = "dep"
  BY <1>3
<1>5. /\ rs \in Seq(Line) /\ Len(rs) <= Len(d) /\ Len(rs) \in Nat /\ DOMAIN rs = 1..Len(rs)
      /\ \A i \in 1..Len(rs) : rs[i] \in Line /\ rs[i].kind = "ref" /\ Known(rs[i])
  BY <1>3
<1>6. /\ us \in Seq(Line) /\ DOMAIN us = 1..Len(us)
      /\ \A i \in 1..Len(us) : us[i].kind = "unit" /\ Known(us[i])
  BY <1>3
<1>7. UnitsKnown(d)
  <2>1. \A i \in 1..Len(us) : us[i].old \in DOMAIN TargetSymbols
    BY <1>6 DEF Known
  <2> QED BY <1>6, <2>1, ElementsOf DEF UnitsKnown
<1>8. ToSet(x) = DepIds(d) /\ ToSet(y) = References(d)
  BY <1>4, <1>5, ElementsOf DEF ToSet, DepIds, References
<1>9. x \in Seq(Id) /\ Len(x) <= Len(d)
  <2>1. \A i \in 1..Len(ds) : ds[i].id \in Id
    BY <1>4, LineAssumption DEF Id
  <2>2. x \in [1..Len(ds) -> Id]
    BY <1>4, <2>1
  <2> HIDE DEF x, ds
  <2>3. x \in Seq(Id) /\ Len(x) = Len(ds)
    BY <1>4, <2>2
  <2> QED BY <1>4, <2>3
<1>10. y \in Seq(RefRecord) /\ Len(y) <= Len(d)
  <2>1. \A i \in 1..Len(rs) : Reference(rs[i]) \in RefRecord
    BY <1>5, ReferenceType
  <2>2. y \in [1..Len(rs) -> RefRecord]
    BY <1>5, <2>1
  <2> HIDE DEF y, rs
  <2>3. y \in Seq(RefRecord) /\ Len(y) = Len(rs)
    BY <1>5, <2>2
  <2> QED BY <1>5, <2>3
<1>11. Says(d, m)
  <2> HIDE DEF x, y
  <2> QED BY <1>2, <1>7, <1>8, <1>9, <1>10 DEF Says
<1>12. Packed(d, m)
  BY <1>1, <1>2, <1>11, PackedIs
<1> QED BY <1>12 DEF d, m

-----------------------------------------------------------------------------
(***************************************************************************)
(* The packer. While the description is read, the metadata collects what   *)
(* the lines say, with the offsets that are known then.                    *)
(***************************************************************************)

RawUnit(l) == [old_fname |-> l.old, new_fname |-> l.new, old_faddr |-> 0]

RawUnits(d) ==
  LET us == OfKind(d, "unit") IN [i \in DOMAIN us |-> RawUnit(us[i])]

RawRef(l) ==
  [target_name |-> l.target, reference_name |-> l.ref,
   target_offset |-> IF l.manual THEN l.toff ELSE TargetSymbols[l.target],
   patch_offset |-> IF l.manual THEN l.poff ELSE PatchSymbols[l.ref],
   tls |-> l.tls]

RawRefs(d) == {RawRef(l) : l \in ToSet(OfKind(d, "ref"))}

MetaRecord ==
  [objs : BOOLEAN, comments : BOOLEAN, patch_id : Seq(Nat), build_id : Seq(Nat),
   name : Seq(Nat), units : Seq([old_fname : Name, new_fname : Name, old_faddr : Nat]),
   deps : Seq(Id), refs : Seq(RefRecord)]

Collected(d, m) ==
  /\ d \in Seq(Line) /\ Len(d) <= MaxLines
  /\ m \in MetaRecord /\ (m.objs => m.name = LibName)
  /\ m.units = RawUnits(d) /\ UnitsKnown(d)
  /\ Len(m.deps) <= Len(d) /\ ToSet(m.deps) = DepIds(d)
  /\ Len(m.refs) <= Len(d) /\ ToSet(m.refs) = RawRefs(d)

\* Before the first line.
LEMMA NothingCollected ==
  Collected(<<>>, NewMeta)
<1>1. \A kind : OfKind(<<>>, kind) = <<>>
  BY OfKindEmpty
<1>2. ToSet(<<>>) = {}
  BY DEF ToSet
<1>3. RawUnits(<<>>) = <<>> /\ UnitsKnown(<<>>) /\ DepIds(<<>>) = {} /\ RawRefs(<<>>) = {}
  BY <1>1, <1>2 DEF RawUnits, UnitsKnown, DepIds, RawRefs
<1>4. /\ NewMeta.objs = FALSE /\ NewMeta.units = <<>> /\ NewMeta.deps = <<>>
      /\ NewMeta.refs = <<>>
  BY DEF NewMeta
<1>5. NewMeta \in MetaRecord
  <2>1. \A S : <<>> \in Seq(S)
    OBVIOUS
  <2>2. FALSE \in BOOLEAN
    OBVIOUS
  <2> QED BY <2>1, <2>2 DEF NewMeta, MetaRecord
<1>6. <<>> \in Seq(Line) /\ Len(<<>>) = 0 /\ 0 <= MaxLines
  BY PackerAssumption
<1> DEFINE d == <<>>
           m == NewMeta
<1>7. /\ d \in Seq(Line) /\ Len(d) <= MaxLines /\ m \in MetaRecord /\ ~m.objs
      /\ m.units = RawUnits(d) /\ UnitsKnown(d)
      /\ m.deps = d /\ m.refs = d /\ Len(d) <= Len(d)
      /\ ToSet(d) = DepIds(d) /\ ToSet(d) = RawRefs(d)
  <2>1. 0 <= 0
    OBVIOUS
  <2> QED BY <1>2, <1>3, <1>4, <1>5, <1>6, <2>1
<1> HIDE DEF d, m
<1>8. Collected(d, m)
  BY <1>7 DEF Collected
<1> QED BY <1>8 DEF d, m

\* What one more line adds.
LEMMA OneLine ==
  ASSUME NEW d \in Seq(Line), NEW l \in Line, NEW kind
  PROVE  LET s == OfKind(d, kind)
             e == OfKind(Append(d, l), kind)
         IN  /\ s \in Seq(Line)
             /\ l.kind = kind => e = Append(s, l) /\ ToSet(e) = ToSet(s) \cup {l}
             /\ l.kind # kind => e = s
<1> DEFINE s == OfKind(d, kind)
           e == OfKind(Append(d, l), kind)
<1>1. s \in Seq(Line) /\ e = s \o Only(l, kind)
  BY OfKindAppend
<1> HIDE DEF s, e
<1>2. l.kind # kind => e = s
  BY <1>1, ConcatEmptySeq DEF Only
<1>3. ASSUME l.kind = kind PROVE e = Append(s, l)
  <2>1. e = s \o <<l>>
    BY <1>1, <1>3 DEF Only
  <2>2. s \o <<l>> = Append(s, l)
    BY <1>1
  <2> QED BY <2>1, <2>2
<1>4. ToSet(Append(s, l)) = ToSet(s) \cup {l}
  <2> DEFINE a == Append(s, l)
  <2>1. /\ a \in Seq(Line) /\ Len(a) = Len(s) + 1 /\ a[Len(s) + 1] = l /\ Len(s) \in Nat
        /\ \A i \in 1..Len(s) : a[i] = s[i]
    BY <1>1, AppendProperties
  <2> HIDE DEF a
  <2>2. DOMAIN a = 1..(Len(s) + 1) /\ DOMAIN s = 1..Len(s)
    BY <1>1, <2>1
  <2>3. ASSUME NEW x \in ToSet(a) PROVE x \in ToSet(s) \cup {l}
    <3>1. PICK i \in 1..(Len(s) + 1) : x = a[i]
      BY <2>2 DEF ToSet
    <3>2. i \in 1..Len(s) \/ i = Len(s) + 1
      BY <2>1
    <3> QED BY <2>1, <2>2, <3>1, <3>2 DEF ToSet
  <2>4. ASSUME NEW x \in ToSet(s) \cup {l} PROVE x \in ToSet(a)
    <3>1. CASE x \in ToSet(s)
      <4>1. PICK i \in 1..Len(s) : x = s[i]
        BY <2>2, <3>1 DEF ToSet
      <4>2. i \in 1..(Len(s) + 1) /\ x = a[i]
        BY <2>1, <4>1
      <4> QED BY <2>2, <4>2 DEF ToSet
    <3>2. CASE x = l
      <4>1. Len(s) + 1 \in 1..(Len(s) + 1)
        BY <2>1
      <4> QED BY <2>1, <2>2, <3>2, <4>1 DEF ToSet
    <3> QED BY <3>1, <3>2
  <2>5. ToSet(a) = ToSet(s) \cup {l}
    BY <2>3, <2>4
  <2> QED BY <2>5 DEF a
<1> QED BY <1>1, <1>2, <1>3, <1>4 DEF s, e

\* The metadata collects an element before those it has.
LEMMA InFront ==
  ASSUME NEW S, NEW s \in Seq(S), NEW x \in S
  PROVE  /\ <<x>> \o s \in Seq(S) /\ Len(<<x>> \o s) = Len(s) + 1
         /\ ToSet(<<x>> \o s) = ToSet(s) \cup {x}
<1> DEFINE o == <<x>>
           r == o \o s
           n == Len(s)
<1>1. o \in Seq(S) /\ Len(o) = 1 /\ o[1] = x /\ n \in Nat
  OBVIOUS
<1> HIDE DEF o
<1>2. /\ r \in Seq(S) /\ Len(r) = 1 + n
      /\ \A i \in 1..(1 + n) : r[i] = IF i <= 1 THEN o[i] ELSE s[i - 1]
  <2>1. /\ o \o s \in Seq(S) /\ Len(o \o s) = Len(o) + Len(s)
        /\ \A i \in 1..(Len(o) + Len(s)) :
             (o \o s)[i] = IF i <= Len(o) THEN o[i] ELSE s[i - Len(o)]
    BY <1>1, ConcatProperties
  <2> QED BY <1>1, <2>1
<1> HIDE DEF r, n
<1>3. DOMAIN r = 1..(1 + n) /\ DOMAIN s = 1..n /\ Len(r) = n + 1
  BY <1>1, <1>2 DEF n
<1>4. ASSUME NEW y \in ToSet(r) PROVE y \in ToSet(s) \cup {x}
  <2>1. PICK i \in 1..(1 + n) : y = r[i]
    BY <1>3 DEF ToSet
  <2>2. CASE i = 1
    <3>1. i <= 1
      BY <2>2
    <3> QED BY <1>1, <1>2, <2>1, <2>2, <3>1
  <2>3. CASE i # 1
    <3>1. i - 1 \in 1..n /\ ~(i <= 1)
      BY <1>1, <2>3
    <3>2. y = s[i - 1]
      BY <1>2, <2>1, <3>1
    <3> QED BY <1>3, <3>1, <3>2 DEF ToSet
  <2> QED BY <2>2, <2>3
<1>5. ASSUME NEW y \in ToSet(s) \cup {x} PROVE y \in ToSet(r)
  <2>1. CASE y \in ToSet(s)
    <3>1. PICK i \in 1..n : y = s[i]
      BY <1>3, <2>1 DEF ToSet
    <3>2. i + 1 \in 1..(1 + n) /\ ~(i + 1 <= 1) /\ (i + 1) - 1 = i
      BY <1>1
    <3>3. y = r[i + 1]
      BY <1>2, <3>1, <3>2
    <3> QED BY <1>3, <3>2, <3>3 DEF ToSet
  <2>2. CASE y = x
    <3>1. 1 \in 1..(1 + n) /\ 1 <= 1
      BY <1>1
    <3>2. r[1] = x
      BY <1>1, <1>2, <3>1
    <3> QED BY <1>3, <2>2, <3>1, <3>2 DEF ToSet
  <2> QED BY <2>1, <2>2
<1>6. ToSet(r) = ToSet(s) \cup {x}
  BY <1>4, <1>5
<1> QED BY <1>2, <1>3, <1>6 DEF r, o, n

\* The kinds that a line does not have.
LEMMA OtherKinds ==
  ASSUME NEW d \in Seq(Line), NEW l \in Line
  PROVE  /\ l.kind # "unit" => RawUnits(Append(d, l)) = RawUnits(d)
         /\ l.kind # "unit" /\ UnitsKnown(d) => UnitsKnown(Append(d, l))
         /\ l.kind # "dep" => DepIds(Append(d, l)) = DepIds(d)
         /\ l.kind # "ref" => RawRefs(Append(d, l)) = RawRefs(d)
         /\ Append(d, l) \in Seq(Line) /\ Len(Append(d, l)) = Len(d) + 1 /\ Len(d) \in Nat
<1>1. l.kind # "unit" => OfKind(Append(d, l), "unit") = OfKind(d, "unit")
  BY OneLine
<1>2. l.kind # "dep" => OfKind(Append(d, l), "dep") = OfKind(d, "dep")
  BY OneLine
<1>3. l.kind # "ref" => OfKind(Append(d, l), "ref") = OfKind(d, "ref")
  BY OneLine
<1>4. Append(d, l) \in Seq(Line) /\ Len(Append(d, l)) = Len(d) + 1 /\ Len(d) \in Nat
  BY AppendProperties
<1> QED BY <1>1, <1>2, <1>3, <1>4 DEF RawUnits, UnitsKnown, DepIds, RawRefs

\* A line that is neither a function, a dependency nor a reference.
LEMMA PlainLine ==
  ASSUME NEW d, NEW m, Collected(d, m), Len(d) < MaxLines, NEW l \in Line,
         l.kind # "unit", l.kind # "dep", l.kind # "ref",
         NEW n \in MetaRecord, n.objs => n.name = LibName,
         n.units = m.units, n.deps = m.deps, n.refs = m.refs
  PROVE  Collected(Append(d, l), n)
<1> DEFINE e == Append(d, l)
<1>1. /\ d \in Seq(Line) /\ m.units = RawUnits(d) /\ UnitsKnown(d)
      /\ Len(m.deps) <= Len(d) /\ ToSet(m.deps) = DepIds(d)
      /\ Len(m.refs) <= Len(d) /\ ToSet(m.refs) = RawRefs(d)
      /\ m.deps \in Seq(Id) /\ m.refs \in Seq(RefRecord)
  BY DEF Collected, MetaRecord
<1>2. /\ RawUnits(e) = RawUnits(d) /\ UnitsKnown(e) /\ DepIds(e) = DepIds(d)
      /\ RawRefs(e) = RawRefs(d) /\ e \in Seq(Line) /\ Len(e) = Len(d) + 1 /\ Len(d) \in Nat
  BY <1>1, OtherKinds
<1> HIDE DEF e
<1>3. Len(e) <= MaxLines /\ Len(m.deps) <= Len(e) /\ Len(m.refs) <= Len(e)
  <2>1. MaxLines \in Nat /\ Len(m.deps) \in Nat /\ Len(m.refs) \in Nat
    BY <1>1, PackerAssumption
  <2> QED BY <1>1, <1>2, <2>1
<1>4. Collected(e, n)
  BY <1>1, <1>2, <1>3 DEF Collected
<1> QED BY <1>4 DEF e

\* A dependency comes before those that the metadata has.
LEMMA DepLine ==
  ASSUME NEW d, NEW m, Collected(d, m), Len(d) < MaxLines, NEW l \in Line, l.kind = "dep",
         NEW n \in MetaRecord, n.objs => n.name = LibName,
         n.units = m.units, n.deps = <<l.id>> \o m.deps, n.refs = m.refs
  PROVE  Collected(Append(d, l), n)
<1> DEFINE e == Append(d, l)
<1>1. /\ d \in Seq(Line) /\ m.units = RawUnits(d) /\ UnitsKnown(d)
      /\ Len(m.deps) <= Len(d) /\ ToSet(m.deps) = DepIds(d)
      /\ Len(m.refs) <= Len(d) /\ ToSet(m.refs) = RawRefs(d)
      /\ m.deps \in Seq(Id) /\ m.refs \in Seq(RefRecord)
  BY DEF Collected, MetaRecord
<1>2. /\ RawUnits(e) = RawUnits(d) /\ UnitsKnown(e)
      /\ RawRefs(e) = RawRefs(d) /\ e \in Seq(Line) /\ Len(e) = Len(d) + 1 /\ Len(d) \in Nat
  BY <1>1, OtherKinds
<1>3. DepIds(e) = DepIds(d) \cup {l.id}
  <2>1. ToSet(OfKind(e, "dep")) = ToSet(OfKind(d, "dep")) \cup {l}
    BY <1>1, OneLine
  <2> QED BY <2>1 DEF DepIds
<1>4. Len(n.deps) = Len(m.deps) + 1 /\ ToSet(n.deps) = ToSet(m.deps) \cup {l.id}
  <2>1. l.id \in Id
    BY LineAssumption DEF Id
  <2> QED BY <1>1, <2>1, InFront
<1> HIDE DEF e
<1>5. Len(e) <= MaxLines /\ Len(n.deps) <= Len(e) /\ Len(m.refs) <= Len(e)
  <2>1. MaxLines \in Nat /\ Len(m.deps) \in Nat /\ Len(m.refs) \in Nat
    BY <1>1, PackerAssumption
  <2> QED BY <1>1, <1>2, <1>4, <2>1
<1>6. Collected(e, n)
  BY <1>1, <1>2, <1>3, <1>4, <1>5 DEF Collected
<1> QED BY <1>6 DEF e

\* A reference comes before those that the metadata has.
LEMMA ReferenceLine ==
  ASSUME NEW d, NEW m, Collected(d, m), Len(d) < MaxLines, NEW l \in Line, l.kind = "ref",
         RawRef(l) \in RefRecord,
         NEW n \in MetaRecord, n.objs => n.name = LibName,
         n.units = m.units, n.deps = m.deps, n.refs = <<RawRef(l)>> \o m.refs
  PROVE  Collected(Append(d, l), n)
<1> DEFINE e == Append(d, l)
<1>1. /\ d \in Seq(Line) /\ m.units = RawUnits(d) /\ UnitsKnown(d)
      /\ Len(m.deps) <= Len(d) /\ ToSet(m.deps) = DepIds(d)
      /\ Len(m.refs) <= Len(d) /\ ToSet(m.refs) = RawRefs(d)
      /\ m.deps \in Seq(Id) /\ m.refs \in Seq(RefRecord)
  BY DEF Collected, MetaRecord
<1>2. /\ RawUnits(e) = RawUnits(d) /\ UnitsKnown(e)
      /\ DepIds(e) = DepIds(d) /\ e \in Seq(Line) /\ Len(e) = Len(d) + 1 /\ Len(d) \in Nat
  BY <1>1, OtherKinds
<1>3. RawRefs(e) = RawRefs(d) \cup {RawRef(l)}
  <2>1. ToSet(OfKind(e, "ref")) = ToSet(OfKind(d, "ref")) \cup {l}
    BY <1>1, OneLine
  <2> QED BY <2>1 DEF RawRefs
<1>4. Len(n.refs) = Len(m.refs) + 1 /\ ToSet(n.refs) = ToSet(m.refs) \cup {RawRef(l)}
  BY <1>1, InFront
<1> HIDE DEF e
<1>5. Len(e) <= MaxLines /\ Len(n.deps) <= Len(e) /\ Len(n.refs) <= Len(e)
  <2>1. MaxLines \in Nat /\ Len(m.deps) \in Nat /\ Len(m.refs) \in Nat
    BY <1>1, PackerAssumption
  <2> QED BY <1>1, <1>2, <1>4, <2>1
<1>6. Collected(e, n)
  BY <1>1, <1>2, <1>3, <1>4, <1>5 DEF Collected
<1> QED BY <1>6 DEF e

\* A function comes behind those that the metadata has.
LEMMA FunctionLine ==
  ASSUME NEW d, NEW m, Collected(d, m), Len(d) < MaxLines, NEW l \in Line, l.kind = "unit",
         l.old \in DOMAIN TargetSymbols,
         NEW n \in MetaRecord, n.objs => n.name = LibName,
         n.units = Append(m.units, RawUnit(l)), n.deps = m.deps, n.refs = m.refs
  PROVE  Collected(Append(d, l), n)
<1> DEFINE e == Append(d, l)
           s == OfKind(d, "unit")
           t == OfKind(e, "unit")
<1>1. /\ d \in Seq(Line) /\ m.units = RawUnits(d) /\ UnitsKnown(d)
      /\ Len(m.deps) <= Len(d) /\ ToSet(m.deps) = DepIds(d)
      /\ Len(m.refs) <= Len(d) /\ ToSet(m.refs) = RawRefs(d)
      /\ m.deps \in Seq(Id) /\ m.refs \in Seq(RefRecord)
  BY DEF Collected, MetaRecord
<1>2. /\ RawRefs(e) = RawRefs(d) /\ DepIds(e) = DepIds(d)
      /\ e \in Seq(Line) /\ Len(e) = Len(d) + 1 /\ Len(d) \in Nat
  BY <1>1, OtherKinds
<1>3. s \in Seq(Line) /\ t = Append(s, l) /\ ToSet(t) = ToSet(s) \cup {l}
  BY <1>1, OneLine
<1>4. UnitsKnown(e)
  BY <1>1, <1>3 DEF UnitsKnown
<1>5. RawUnits(e) = Append(m.units, RawUnit(l))
  <2> DEFINE a == [i \in DOMAIN s |-> RawUnit(s[i])]
             b == [i \in DOMAIN t |-> RawUnit(t[i])]
             x == RawUnit(l)
             k == Len(s)
             V == {RawUnit(y) : y \in Line}
  <2>1. RawUnits(d) = a /\ RawUnits(e) = b
    BY DEF RawUnits
  <2> HIDE DEF s, t
  <2>2. /\ k \in Nat /\ DOMAIN s = 1..k /\ DOMAIN t = 1..(k + 1) /\ t[k + 1] = l
        /\ \A i \in 1..k : t[i] = s[i] /\ s[i] \in Line
    <3>1. k \in Nat /\ DOMAIN s = 1..k /\ \A i \in 1..k : s[i] \in Line
      BY <1>3
    <3>2. /\ Append(s, l) \in Seq(Line) /\ Len(Append(s, l)) = k + 1
          /\ Append(s, l)[k + 1] = l /\ \A i \in 1..k : Append(s, l)[i] = s[i]
      BY <1>3, AppendProperties
    <3>3. DOMAIN t = 1..(k + 1)
      BY <1>3, <3>1, <3>2
    <3> QED BY <1>3, <3>1, <3>2, <3>3
  <2>3. a \in [1..k -> V] /\ x \in V
    BY <2>2
  <2>4. b \in [1..(k + 1) -> V] /\ b[k + 1] = x /\ \A i \in 1..k : b[i] = a[i]
    <3>1. \A i \in 1..(k + 1) : t[i] \in Line
      <4>1. ASSUME NEW i \in 1..(k + 1) PROVE t[i] \in Line
        <5>1. i \in 1..k \/ i = k + 1
          BY <2>2
        <5> QED BY <2>2, <5>1
      <4> QED BY <4>1
    <3>2. b \in [1..(k + 1) -> V]
      BY <2>2, <3>1
    <3>3. b[k + 1] = x
      BY <2>2
    <3>4. ASSUME NEW i \in 1..k PROVE b[i] = a[i]
      <4>1. i \in 1..(k + 1)
        BY <2>2
      <4> QED BY <2>2, <4>1
    <3> QED BY <3>2, <3>3, <3>4
  <2> HIDE DEF a, b, x, V, k
  <2>5. /\ a \in Seq(V) /\ Len(a) = k /\ b \in Seq(V) /\ Len(b) = k + 1
    <3>1. k \in Nat /\ k + 1 \in Nat
      BY <2>2
    <3>2. a \in Seq(V) /\ Len(a) = k
      BY <2>3, <3>1
    <3>3. b \in Seq(V) /\ Len(b) = k + 1
      BY <2>4, <3>1
    <3> QED BY <3>2, <3>3
  <2>6. /\ Append(a, x) \in Seq(V) /\ Len(Append(a, x)) = k + 1
        /\ Append(a, x)[k + 1] = x /\ \A i \in 1..k : Append(a, x)[i] = a[i]
    BY <2>3, <2>5, AppendProperties
  <2>7. \A i \in 1..(k + 1) : b[i] = Append(a, x)[i]
    <3>1. ASSUME NEW i \in 1..(k + 1) PROVE b[i] = Append(a, x)[i]
      <4>1. i \in 1..k \/ i = k + 1
        BY <2>2
      <4> QED BY <2>4, <2>6, <4>1
    <3> QED BY <3>1
  <2>8. b = Append(a, x)
    BY <2>5, <2>6, <2>7, SeqEqual
  <2> QED BY <1>1, <2>1, <2>8 DEF x
<1> HIDE DEF e
<1>6. Len(e) <= MaxLines /\ Len(n.deps) <= Len(e) /\ Len(n.refs) <= Len(e)
  <2>1. MaxLines \in Nat /\ Len(m.deps) \in Nat /\ Len(m.refs) \in Nat
    BY <1>1, PackerAssumption
  <2> QED BY <1>1, <1>2, <2>1
<1>7. Collected(e, n)
  BY <1>1, <1>2, <1>4, <1>5, <1>6 DEF Collected
<1> QED BY <1>7 DEF e

\* A reference is well formed when the packer takes its line.
LEMMA RawRefType ==
  ASSUME NEW l \in Line, l.kind = "ref",
         l.manual \/ (l.target \in DOMAIN TargetSymbols /\ l.ref \in DOMAIN PatchSymbols)
  PROVE  RawRef(l) \in RefRecord
<1>1. /\ l.target \in Name /\ l.ref \in Name /\ l.manual \in BOOLEAN
      /\ l.toff \in Addr /\ l.poff \in Addr /\ l.tls \in Nat
  BY LineAssumption
<1> DEFINE a == IF l.manual THEN l.toff ELSE TargetSymbols[l.target]
           b == IF l.manual THEN l.poff ELSE PatchSymbols[l.ref]
<1>2. a \in Addr
  BY <1>1, PackerAssumption
<1>3. b \in Addr
  BY <1>1, PackerAssumption
<1>4. RawRef(l) = [target_name |-> l.target, reference_name |-> l.ref,
                   target_offset |-> a, patch_offset |-> b, tls |-> l.tls]
  BY DEF RawRef
<1> HIDE DEF a, b
<1> QED BY <1>1, <1>2, <1>3, <1>4 DEF RefRecord

\* One field of the metadata is set.
LEMMA SetField ==
  ASSUME NEW m \in MetaRecord, NEW x
  PROVE  /\ x \in BOOLEAN =>
              LET n == [m EXCEPT !.comments = x]
              IN  /\ n \in MetaRecord /\ n.objs = m.objs /\ n.name = m.name
                  /\ n.units = m.units /\ n.deps = m.deps /\ n.refs = m.refs
         /\ x \in BOOLEAN =>
              LET n == [m EXCEPT !.objs = x]
              IN  /\ n \in MetaRecord /\ n.objs = x /\ n.name = m.name
                  /\ n.units = m.units /\ n.deps = m.deps /\ n.refs = m.refs
         /\ x \in Seq(Nat) =>
              LET n == [m EXCEPT !.name = x]
              IN  /\ n \in MetaRecord /\ n.objs = m.objs /\ n.name = x
                  /\ n.units = m.units /\ n.deps = m.deps /\ n.refs = m.refs
         /\ x \in Seq(Nat) =>
              LET n == [m EXCEPT !.build_id = x]
              IN  /\ n \in MetaRecord /\ n.build_id = x /\ n.name = m.name
                  /\ n.units = m.units /\ n.deps = m.deps /\ n.refs = m.refs
         /\ x \in Seq(Nat) =>
              LET n == [m EXCEPT !.patch_id = x]
              IN  /\ n \in MetaRecord /\ n.patch_id = x /\ n.build_id = m.build_id
                  /\ n.name = m.name
                  /\ n.units = m.units /\ n.deps = m.deps /\ n.refs = m.refs
         /\ x \in Seq([old_fname : Name, new_fname : Name, old_faddr : Nat]) =>
              LET n == [m EXCEPT !.units = x]
              IN  /\ n \in MetaRecord /\ n.objs = m.objs /\ n.name = m.name
                  /\ n.build_id = m.build_id
                  /\ n.units = x /\ n.deps = m.deps /\ n.refs = m.refs
         /\ x \in Seq(Id) =>
              LET n == [m EXCEPT !.deps = x]
              IN  /\ n \in MetaRecord /\ n.objs = m.objs /\ n.name = m.name
                  /\ n.units = m.units /\ n.deps = x /\ n.refs = m.refs
         /\ x \in Seq(RefRecord) =>
              LET n == [m EXCEPT !.refs = x]
              IN  /\ n \in MetaRecord /\ n.objs = m.objs /\ n.name = m.name
                  /\ n.build_id = m.build_id
                  /\ n.units = m.units /\ n.deps = m.deps /\ n.refs = x
BY DEF MetaRecord

\* A line that the packer takes: a comment.
LEMMA CommentTaken ==
  ASSUME NEW d, Collected(d, meta), Len(d) < MaxLines, NEW l \in Line, l.kind = "comment"
  PROVE  Collected(Append(d, l), [meta EXCEPT !.comments = TRUE])
<1> DEFINE n == [meta EXCEPT !.comments = TRUE]
<1>1. meta \in MetaRecord /\ (meta.objs => meta.name = LibName)
  BY DEF Collected
<1>2. /\ n \in MetaRecord /\ n.objs = meta.objs /\ n.name = meta.name
      /\ n.units = meta.units /\ n.deps = meta.deps /\ n.refs = meta.refs
  BY <1>1, SetField
<1> HIDE DEF n
<1>3. Collected(Append(d, l), n)
  BY <1>1, <1>2, PlainLine
<1> QED BY <1>3 DEF n

\* A line that says nothing.
LEMMA NothingTaken ==
  ASSUME NEW d, Collected(d, meta), Len(d) < MaxLines, NEW l \in Line,
         l.kind \in {"blank", "container"}
  PROVE  Collected(Append(d, l), meta)
<1>1. meta \in MetaRecord /\ (meta.objs => meta.name = LibName)
  BY DEF Collected
<1>2. l.kind # "unit" /\ l.kind # "dep" /\ l.kind # "ref"
  OBVIOUS
<1> QED BY <1>1, <1>2, PlainLine

\* The name of the library is set.
LEMMA SetName ==
  ASSUME NEW m \in MetaRecord, NEW x \in Seq(Nat)
  PROVE  /\ [m EXCEPT !.name = x] \in MetaRecord
         /\ [m EXCEPT !.name = x].name = x
         /\ [m EXCEPT !.name = x].units = m.units
         /\ [m EXCEPT !.name = x].deps = m.deps
         /\ [m EXCEPT !.name = x].refs = m.refs
BY DEF MetaRecord

\* The target library.
LEMMA ObjectTaken ==
  ASSUME NEW d, Collected(d, meta), Len(d) < MaxLines, NEW l \in Line, l.kind = "object"
  PROVE  Collected(Append(d, l), [meta EXCEPT !.objs = TRUE, !.name = LibName])
<1> DEFINE k == [meta EXCEPT !.objs = TRUE]
           n == [k EXCEPT !.name = LibName]
           e == [meta EXCEPT !.objs = TRUE, !.name = LibName]
<1>1. meta \in MetaRecord
  BY DEF Collected
<1>2. e = n
  BY <1>1 DEF MetaRecord
<1>3. k \in MetaRecord /\ k.units = meta.units /\ k.deps = meta.deps /\ k.refs = meta.refs
  BY <1>1, SetField
<1> HIDE DEF k
<1>4. LibName \in Seq(Nat)
  BY FixedParts, CStringOfName
<1>5. /\ n \in MetaRecord /\ n.name = LibName
      /\ n.units = k.units /\ n.deps = k.deps /\ n.refs = k.refs
  BY <1>3, <1>4, SetName
<1>6. n.units = meta.units /\ n.deps = meta.deps /\ n.refs = meta.refs
  BY <1>3, <1>5
<1> HIDE DEF n
<1>7. Collected(Append(d, l), n)
  BY <1>5, <1>6, PlainLine
<1> HIDE DEF e
<1>8. Collected(Append(d, l), e)
  BY <1>2, <1>7
<1> QED BY <1>8 DEF e

\* A dependency, a reference and a function.
LEMMA DepTaken ==
  ASSUME NEW d, Collected(d, meta), Len(d) < MaxLines, NEW l \in Line, l.kind = "dep"
  PROVE  Collected(Append(d, l), [meta EXCEPT !.deps = <<l.id>> \o meta.deps])
<1> DEFINE x == <<l.id>> \o meta.deps
           n == [meta EXCEPT !.deps = x]
<1>1. meta \in MetaRecord /\ (meta.objs => meta.name = LibName) /\ meta.deps \in Seq(Id)
  BY DEF Collected, MetaRecord
<1>2. x \in Seq(Id)
  <2>1. l.id \in Id
    BY LineAssumption DEF Id
  <2> QED BY <1>1, <2>1, InFront
<1>3. x = <<l.id>> \o meta.deps
  OBVIOUS
<1> HIDE DEF x
<1>4. /\ n \in MetaRecord /\ n.objs = meta.objs /\ n.name = meta.name
      /\ n.units = meta.units /\ n.deps = x /\ n.refs = meta.refs
  BY <1>1, <1>2, SetField
<1> HIDE DEF n
<1>5. Collected(Append(d, l), n)
  BY <1>1, <1>3, <1>4, DepLine
<1> QED BY <1>5 DEF n, x

\* A reference whose symbols are known or given by hand.
LEMMA RefTaken ==
  ASSUME NEW d, Collected(d, meta), Len(d) < MaxLines, NEW l \in Line, l.kind = "ref",
         l.manual \/ (l.target \in DOMAIN TargetSymbols /\ l.ref \in DOMAIN PatchSymbols)
  PROVE  Collected(Append(d, l), [meta EXCEPT !.refs = <<RawRef(l)>> \o meta.refs])
<1> DEFINE x == <<RawRef(l)>> \o meta.refs
           n == [meta EXCEPT !.refs = x]
<1>1. meta \in MetaRecord /\ (meta.objs => meta.name = LibName) /\ meta.refs \in Seq(RefRecord)
  BY DEF Collected, MetaRecord
<1>2. RawRef(l) \in RefRecord
  BY RawRefType
<1>3. x \in Seq(RefRecord)
  BY <1>1, <1>2, InFront
<1>4. x = <<RawRef(l)>> \o meta.refs
  OBVIOUS
<1> HIDE DEF x
<1>5. /\ n \in MetaRecord /\ n.objs = meta.objs /\ n.name = meta.name
      /\ n.units = meta.units /\ n.deps = meta.deps /\ n.refs = x
  BY <1>1, <1>3 DEF MetaRecord
<1> HIDE DEF n
<1>6. Collected(Append(d, l), n)
  BY <1>1, <1>2, <1>4, <1>5, ReferenceLine
<1> QED BY <1>6 DEF n, x

\* A function of the target library.
LEMMA UnitTaken ==
  ASSUME NEW d, Collected(d, meta), Len(d) < MaxLines, NEW l \in Line, l.kind = "unit",
         l.old \in DOMAIN TargetSymbols
  PROVE  Collected(Append(d, l), [meta EXCEPT !.units = Append(meta.units, RawUnit(l))])
<1> DEFINE U == [old_fname : Name, new_fname : Name, old_faddr : Nat]
           x == Append(meta.units, RawUnit(l))
           n == [meta EXCEPT !.units = x]
<1>1. meta \in MetaRecord /\ (meta.objs => meta.name = LibName) /\ meta.units \in Seq(U)
  BY DEF Collected, MetaRecord
<1>2. RawUnit(l) \in U
  BY LineAssumption DEF RawUnit
<1>3. x \in Seq(U)
  <2> HIDE DEF U
  <2> QED BY <1>1, <1>2
<1>4. x = Append(meta.units, RawUnit(l))
  OBVIOUS
<1> HIDE DEF x
<1>5. /\ n \in MetaRecord /\ n.objs = meta.objs /\ n.name = meta.name
      /\ n.units = x /\ n.deps = meta.deps /\ n.refs = meta.refs
  BY <1>1, <1>3 DEF MetaRecord, U
<1> HIDE DEF n
<1>6. Collected(Append(d, l), n)
  BY <1>1, <1>4, <1>5, FunctionLine
<1> QED BY <1>6 DEF n, x

\* Every line that the packer takes is in the metadata.
LEMMA LineStep ==
  ASSUME NEW d, Collected(d, meta), Len(d) < MaxLines, NEW l \in Line, Interpret(l).ok
  PROVE  Collected(Append(d, l), Interpret(l).m)
<1>1. CASE packer = "container"
  <2>1. Interpret(l) = ContainerLine(l)
    BY <1>1 DEF Interpret
  <2> DEFINE k == l.kind \in {"blank", "comment"} \/ (l.kind = "container" /\ l.opens)
             c == [meta EXCEPT !.comments = TRUE]
             n == IF l.kind = "comment" THEN c ELSE meta
  <2>2. ContainerLine(l) = [ok |-> k, m |-> n]
    BY Zenon DEF ContainerLine
  <2> HIDE DEF k, n
  <2>3. k /\ Interpret(l).m = n
    BY <2>1, <2>2
  <2>4. CASE l.kind = "comment"
    <3>1. n = c
      BY <2>4 DEF n
    <3>2. Collected(Append(d, l), c)
      BY <2>4, CommentTaken
    <3> HIDE DEF c
    <3> QED BY <2>3, <3>1, <3>2
  <2>5. CASE l.kind # "comment"
    <3>1. n = meta /\ l.kind \in {"blank", "container"}
      BY <2>3, <2>5 DEF n, k
    <3> QED BY <2>3, <3>1, NothingTaken
  <2> QED BY <2>4, <2>5
<1>2. CASE packer = "deps" /\ l.kind = "dep"
  <2>1. Interpret(l) = add_dependency(l)
    BY <1>2 DEF Interpret
  <2>2. Interpret(l).m = [meta EXCEPT !.deps = <<l.id>> \o meta.deps]
    BY <2>1 DEF add_dependency
  <2> QED BY <1>2, <2>2, DepTaken
<1>3. CASE packer # "container" /\ ~(packer = "deps" /\ l.kind = "dep")
  <2>1. Interpret(l) = BodyLine(l)
    BY <1>3 DEF Interpret
  <2>2. CASE l.kind = "blank"
    <3>1. Interpret(l).m = meta /\ l.kind \in {"blank", "container"}
      BY <2>1, <2>2 DEF BodyLine
    <3> QED BY <3>1, NothingTaken
  <2>3. CASE l.kind = "comment"
    <3> DEFINE n == [meta EXCEPT !.comments = TRUE]
               k == TRUE
    <3>1. BodyLine(l) = [ok |-> k, m |-> n]
      BY <2>3, Zenon DEF BodyLine
    <3>2. Collected(Append(d, l), n)
      BY <2>3, CommentTaken
    <3> HIDE DEF n, k
    <3> QED BY <2>1, <3>1, <3>2
  <2>4. CASE l.kind = "object"
    <3>1. Interpret(l).m = [meta EXCEPT !.objs = TRUE, !.name = LibName]
      BY <2>1, <2>4 DEF BodyLine
    <3> QED BY <2>4, <3>1, ObjectTaken
  <2>5. CASE l.kind = "ref" /\ meta.objs
    <3>1. Interpret(l) = RefLine(l)
      BY <2>1, <2>5 DEF BodyLine
    <3>2. /\ l.manual \/ (l.target \in DOMAIN TargetSymbols /\ l.ref \in DOMAIN PatchSymbols)
          /\ RefLine(l).m = [meta EXCEPT !.refs = <<RawRef(l)>> \o meta.refs]
      BY <3>1 DEF RefLine, RawRef
    <3> QED BY <2>5, <3>1, <3>2, RefTaken
  <2>6. CASE l.kind = "unit" /\ meta.objs
    <3>1. Interpret(l) = UnitLine(l)
      BY <2>1, <2>6 DEF BodyLine
    <3>2. /\ l.old \in DOMAIN TargetSymbols
          /\ UnitLine(l).m = [meta EXCEPT !.units = Append(meta.units, RawUnit(l))]
      BY <3>1 DEF UnitLine, RawUnit
    <3> QED BY <2>6, <3>1, <3>2, UnitTaken
  <2>7. CASE /\ l.kind \notin {"blank", "comment", "object"}
             /\ ~(l.kind = "ref" /\ meta.objs) /\ ~(l.kind = "unit" /\ meta.objs)
    <3>1. BodyLine(l) = [ok |-> FALSE, m |-> meta]
      BY <2>7 DEF BodyLine
    <3> QED BY <2>1, <3>1
  <2> QED BY <2>2, <2>3, <2>4, <2>5, <2>6, <2>7
<1> QED BY <1>1, <1>2, <1>3

\* The offsets that the packer looks up are those that the line says.
LEMMA LocatedIs ==
  ASSUME NEW l \in Line, l.kind = "unit"
  PROVE  Located(RawUnit(l)) = Unit(l)
<1> DEFINE r == RawUnit(l)
           U == [old_fname : Name, new_fname : Name, old_faddr : Nat]
<1>1. r \in U /\ r.old_fname = l.old /\ r.new_fname = l.new
  BY LineAssumption DEF RawUnit
<1> HIDE DEF r
<1>2. [r EXCEPT !.old_faddr = TargetSymbols[r.old_fname]]
        = [old_fname |-> l.old, new_fname |-> l.new, old_faddr |-> TargetSymbols[l.old]]
  BY <1>1
<1>3. Located(r) = Unit(l)
  BY <1>2 DEF Located, Unit
<1> QED BY <1>3 DEF r

\* The same for a reference, also for one with an offset of 0 by hand.
LEMMA ResolvedIs ==
  ASSUME NEW l \in Line, l.kind = "ref", RawRef(l) \in RefRecord
  PROVE  Resolved(RawRef(l)) = Reference(l)
<1> DEFINE r == RawRef(l)
           a == IF l.manual THEN l.toff ELSE TargetSymbols[l.target]
           b == IF l.manual THEN l.poff ELSE PatchSymbols[l.ref]
           c == IF l.manual /\ l.toff # 0 THEN l.toff ELSE TargetSymbols[l.target]
           o == TargetSymbols[l.target]
<1>1. /\ r \in RefRecord /\ r.target_name = l.target /\ r.reference_name = l.ref
      /\ r.target_offset = a /\ r.patch_offset = b /\ r.tls = l.tls
  BY DEF RawRef
<1>2. Reference(l) = [target_name |-> l.target, reference_name |-> l.ref,
                      target_offset |-> c, patch_offset |-> b, tls |-> l.tls]
  BY DEF Reference
<1>3. (a # 0 => c = a) /\ (a = 0 => c = o)
  BY LineAssumption
<1>4. Resolved(r) = IF r.target_offset # 0 THEN r ELSE [r EXCEPT !.target_offset = o]
  BY <1>1 DEF Resolved
<1> HIDE DEF a, b, c, r, o
<1>5. CASE a # 0
  BY <1>1, <1>2, <1>3, <1>4, <1>5 DEF RefRecord, r
<1>6. CASE a = 0
  <2>1. Resolved(r) = [r EXCEPT !.target_offset = o]
    BY <1>1, <1>4, <1>6
  <2>2. [r EXCEPT !.target_offset = o]
          = [target_name |-> l.target, reference_name |-> l.ref,
             target_offset |-> o, patch_offset |-> b, tls |-> l.tls]
    BY <1>1 DEF RefRecord
  <2> QED BY <1>2, <1>3, <1>6, <2>1, <2>2 DEF r
<1> QED BY <1>5, <1>6

\* A reference is well formed when its target was found.
LEMMA ResolvedType ==
  ASSUME NEW r \in RefRecord, r.target_offset # 0 \/ r.target_name \in DOMAIN TargetSymbols
  PROVE  Resolved(r) \in RefRecord
<1>1. CASE r.target_offset # 0
  BY <1>1 DEF Resolved
<1>2. CASE r.target_offset = 0
  <2> DEFINE o == TargetSymbols[r.target_name]
  <2>1. o \in Addr
    BY <1>2, PackerAssumption
  <2>2. Resolved(r) = [r EXCEPT !.target_offset = o]
    BY <1>2 DEF Resolved
  <2> HIDE DEF o
  <2> QED BY <2>1, <2>2 DEF RefRecord
<1> QED BY <1>1, <1>2

\* The functions and the references with all their offsets.
LEMMA UnitsLocated ==
  ASSUME NEW d, NEW m, Collected(d, m)
  PROVE  [i \in DOMAIN m.units |-> Located(m.units[i])] = Units(d)
<1> DEFINE us == OfKind(d, "unit")
           k == Len(us)
           x == [i \in DOMAIN us |-> RawUnit(us[i])]
<1>1. d \in Seq(Line) /\ m.units = RawUnits(d)
  BY DEF Collected
<1>2. us \in Seq(Line) /\ \A i \in 1..k : us[i].kind = "unit"
  BY <1>1, OfKindPicks DEF Picks
<1>3. m.units = x /\ Units(d) = [i \in DOMAIN us |-> Unit(us[i])]
  BY <1>1 DEF RawUnits, Units
<1> HIDE DEF us
<1>4. DOMAIN us = 1..k /\ k \in Nat /\ \A i \in 1..k : us[i] \in Line
  BY <1>2
<1>5. DOMAIN x = DOMAIN us /\ \A i \in DOMAIN us : x[i] = RawUnit(us[i])
  OBVIOUS
<1>6. \A i \in DOMAIN us : Located(x[i]) = Unit(us[i])
  <2>1. ASSUME NEW i \in DOMAIN us PROVE Located(x[i]) = Unit(us[i])
    <3>1. us[i] \in Line /\ us[i].kind = "unit"
      BY <1>2, <1>4
    <3>2. Located(RawUnit(us[i])) = Unit(us[i])
      BY <3>1, LocatedIs
    <3> QED BY <1>5, <3>2
  <2> QED BY <2>1
<1> HIDE DEF x
<1>7. [i \in DOMAIN x |-> Located(x[i])] = [i \in DOMAIN us |-> Unit(us[i])]
  BY <1>5, <1>6
<1> QED BY <1>3, <1>7

\* The references, in the order of the metadata.
LEMMA RefsResolved ==
  ASSUME NEW d, NEW m, Collected(d, m),
         \A i \in DOMAIN m.refs : \/ m.refs[i].target_offset # 0
                                  \/ m.refs[i].target_name \in DOMAIN TargetSymbols
  PROVE  LET y == [i \in DOMAIN m.refs |-> Resolved(m.refs[i])]
         IN  y \in Seq(RefRecord) /\ Len(y) <= Len(d) /\ ToSet(y) = References(d)
<1> DEFINE rs == OfKind(d, "ref")
           r == m.refs
           k == Len(r)
           y == [i \in DOMAIN r |-> Resolved(r[i])]
<1>1. /\ d \in Seq(Line) /\ r \in Seq(RefRecord) /\ Len(r) <= Len(d) /\ ToSet(r) = RawRefs(d)
  BY DEF Collected, MetaRecord
<1>2. \A i \in DOMAIN r : r[i].target_offset # 0 \/ r[i].target_name \in DOMAIN TargetSymbols
  OBVIOUS
<1>3. rs \in Seq(Line) /\ \A i \in 1..Len(rs) : rs[i].kind = "ref"
  BY <1>1, OfKindPicks DEF Picks
<1>4. \A l \in ToSet(rs) : l \in Line /\ l.kind = "ref"
  BY <1>3, ElementsOf
<1>5. RawRefs(d) = {RawRef(l) : l \in ToSet(rs)} /\ References(d) = {Reference(l) : l \in ToSet(rs)}
  BY DEF RawRefs, References
<1> HIDE DEF r, rs
<1>6. DOMAIN r = 1..k /\ k \in Nat /\ \A i \in 1..k : r[i] \in RefRecord
  BY <1>1
<1>7. \A i \in 1..k : Resolved(r[i]) \in RefRecord
  BY <1>2, <1>6, ResolvedType
<1>8. y \in [1..k -> RefRecord]
  BY <1>6, <1>7
<1>9. \A l \in ToSet(rs) : Resolved(RawRef(l)) = Reference(l)
  <2>1. ASSUME NEW l \in ToSet(rs) PROVE Resolved(RawRef(l)) = Reference(l)
    <3>1. RawRef(l) \in ToSet(r)
      BY <1>1, <1>5
    <3>2. RawRef(l) \in RefRecord
      BY <1>1, <3>1, ElementsOf
    <3> QED BY <1>4, <3>2, ResolvedIs
  <2> QED BY <2>1
<1>10. ToSet(y) = {Resolved(x) : x \in ToSet(r)}
  BY <1>6 DEF ToSet
<1>11. ToSet(y) = References(d)
  BY <1>1, <1>5, <1>9, <1>10
<1> HIDE DEF y
<1>12. y \in Seq(RefRecord) /\ Len(y) = k
  BY <1>6, <1>8
<1>13. Len(y) <= Len(d)
  BY <1>1, <1>12
<1> QED BY <1>11, <1>12, <1>13 DEF y, r

\* After get_ulp_elf_metadata.
LEMMA ElfStep ==
  ASSUME NEW d, Collected(d, meta), meta.objs,
         \A i \in DOMAIN meta.refs : \/ meta.refs[i].target_offset # 0
                                     \/ meta.refs[i].target_name \in DOMAIN TargetSymbols,
         NEW n, n = [meta EXCEPT
                       !.build_id = BuildId,
                       !.units = [i \in DOMAIN meta.units |-> Located(meta.units[i])],
                       !.refs = [i \in DOMAIN meta.refs |-> Resolved(meta.refs[i])]]
  PROVE  n \in MetaRecord /\ Says(d, n)
<1> DEFINE x == [i \in DOMAIN meta.units |-> Located(meta.units[i])]
           y == [i \in DOMAIN meta.refs |-> Resolved(meta.refs[i])]
           U == [old_fname : Name, new_fname : Name, old_faddr : Nat]
           a == [meta EXCEPT !.build_id = BuildId]
           b == [a EXCEPT !.units = x]
           c == [b EXCEPT !.refs = y]
<1>1. /\ d \in Seq(Line) /\ meta \in MetaRecord /\ meta.name = LibName /\ UnitsKnown(d)
      /\ Len(meta.deps) <= Len(d) /\ ToSet(meta.deps) = DepIds(d) /\ meta.deps \in Seq(Id)
  BY DEF Collected, MetaRecord
<1>2. x = Units(d)
  BY UnitsLocated
<1>3. y \in Seq(RefRecord) /\ Len(y) <= Len(d) /\ ToSet(y) = References(d)
  BY RefsResolved
<1>4. n = [meta EXCEPT !.build_id = BuildId, !.units = x, !.refs = y]
  OBVIOUS
<1> HIDE DEF x, y
<1>5. n = c
  BY <1>1, <1>4 DEF MetaRecord
<1>6. x \in Seq(UnitRecord) /\ Len(x) \in Nat
  BY <1>1, <1>2, UnitsType
<1>7. x \in Seq(U)
  <2>1. UnitRecord \subseteq U
    BY DEF UnitRecord, Addr
  <2> HIDE DEF U
  <2> QED BY <1>6, <2>1
<1>8. BuildId \in Seq(Nat)
  BY FixedParts
<1>9. /\ a \in MetaRecord /\ a.build_id = BuildId /\ a.name = meta.name /\ a.deps = meta.deps
  BY <1>1, <1>8 DEF MetaRecord
<1> HIDE DEF a
<1>10. /\ b \in MetaRecord /\ b.build_id = a.build_id /\ b.name = a.name /\ b.units = x
       /\ b.deps = a.deps
  BY <1>7, <1>9 DEF MetaRecord, U
<1> HIDE DEF b
<1>11. /\ c \in MetaRecord /\ c.build_id = b.build_id /\ c.name = b.name /\ c.units = b.units
       /\ c.deps = b.deps /\ c.refs = y
  BY <1>3, <1>10 DEF MetaRecord
<1> HIDE DEF c
<1>12. /\ n \in MetaRecord /\ n.build_id = BuildId /\ n.name = LibName /\ n.units = Units(d)
       /\ n.deps = meta.deps /\ n.refs = y
  BY <1>1, <1>2, <1>5, <1>9, <1>10, <1>11
<1>13. Says(d, n)
  BY <1>1, <1>3, <1>12 DEF Says
<1> QED BY <1>12, <1>13

\* After write_patch_id.
LEMMA IdStep ==
  ASSUME NEW d \in Seq(Line), Len(d) <= MaxLines, meta \in MetaRecord, Says(d, meta)
  PROVE  Packed(d, [meta EXCEPT !.patch_id = PatchId(d)])
<1> DEFINE p == PatchId(d)
           n == [meta EXCEPT !.patch_id = p]
<1>1. p \in Id /\ p = PatchId(d)
  BY PatchIdType
<1>2. p \in Seq(Nat)
  BY <1>1 DEF Id
<1> HIDE DEF p
<1>3. /\ n.patch_id = p /\ n.build_id = meta.build_id /\ n.name = meta.name
      /\ n.units = meta.units /\ n.deps = meta.deps /\ n.refs = meta.refs
  BY <1>2, SetField
<1> HIDE DEF n
<1>4. Says(d, n)
  BY <1>3 DEF Says
<1>5. Fits(Len(d), NumLen)
  BY FitsSmaller, PackerAssumption, Sizes
<1>6. Packed(d, n)
  BY <1>1, <1>3, <1>4, <1>5, PackedIs
<1> QED BY <1>6 DEF n, p

-----------------------------------------------------------------------------
(***************************************************************************)
(* The container. A section is the beginning of a file that was written    *)
(* for the description before or for the one that the packer took in.      *)
(***************************************************************************)

Embedding == {"tmp", "write", "embed", "ctmp", "cwrite", "cembed", "rtmp", "rwrite", "rembed"}

\* The packer has read all of the description, or has refused it.
Late == Embedding \cup {"conflict", "exited"}

From(d) == d = Older \/ (d = dsc /\ packer \in Late)

Keeps == \A d : From(d) => From(d)'

\* The bytes s are the beginning of the file of type t for the description d.
FileOf(d, t, s) ==
  \E m : /\ Packed(d, m)
         /\ \E n \in 0..Len(Written(t, m)) : s = SubSeq(Written(t, m), 1, n)

SectionsInv ==
  /\ "ulp" \in DOMAIN sections => \E d : From(d) /\ FileOf(d, 1, sections["ulp"])
  /\ "rev" \in DOMAIN sections => \E d : From(d) /\ FileOf(d, 2, sections["rev"])

MetaInv ==
  /\ packer = "start" => meta = NewMeta /\ dsc = <<>>
  /\ packer \in {"container", "deps", "body", "elf"} => Collected(dsc, meta)
  /\ packer = "id" => /\ dsc \in Seq(Line) /\ Len(dsc) <= MaxLines
                      /\ meta \in MetaRecord /\ Says(dsc, meta)
  /\ packer \in Embedding => Packed(dsc, meta)
  /\ packer = "embed" => FileOf(dsc, 1, file)
  /\ packer = "rembed" => FileOf(dsc, 2, file)

PackerInv == MetaInv /\ SectionsInv

\* Which descriptions sections may be from is never forgotten.
LEMMA NotLateKeeps ==
  ASSUME packer \notin Late
  PROVE  Keeps
BY DEF Keeps, From

\* The same while the files are written.
LEMMA LateKeeps ==
  ASSUME packer' \in Late, dsc' = dsc
  PROVE  Keeps /\ From(dsc)'
BY DEF Keeps, From

\* The container is left alone.
LEMMA SectionsKept ==
  ASSUME SectionsInv, Keeps, sections' = sections
  PROVE  SectionsInv'
BY DEF SectionsInv, Keeps

\* The file replaces a section of the container.
LEMMA Embedded ==
  ASSUME SectionsInv, Keeps, From(dsc)', dsc' = dsc, NEW section,
         section = "ulp" => FileOf(dsc, 1, file),
         section = "rev" => FileOf(dsc, 2, file),
         sections' = [s \in DOMAIN sections \cup {section} |->
                       IF s = section THEN file ELSE sections[s]]
  PROVE  SectionsInv'
<1>1. ASSUME "ulp" \in DOMAIN sections'
      PROVE  \E d : From(d)' /\ FileOf(d, 1, sections'["ulp"])
  <2>1. CASE section = "ulp"
    <3>1. sections'["ulp"] = file /\ FileOf(dsc, 1, file)
      BY <2>1
    <3>2. From(dsc)' /\ FileOf(dsc, 1, sections'["ulp"])
      BY <3>1
    <3>3. PICK d : d = dsc
      OBVIOUS
    <3>4. From(d)' /\ FileOf(d, 1, sections'["ulp"])
      BY <3>2, <3>3 DEF From
    <3> QED BY <3>4
  <2>2. CASE section # "ulp"
    <3>1. "ulp" \in DOMAIN sections /\ sections'["ulp"] = sections["ulp"]
      BY <1>1, <2>2
    <3> QED BY <3>1 DEF SectionsInv, Keeps
  <2> QED BY <2>1, <2>2
<1>2. ASSUME "rev" \in DOMAIN sections'
      PROVE  \E d : From(d)' /\ FileOf(d, 2, sections'["rev"])
  <2>1. CASE section = "rev"
    <3>1. sections'["rev"] = file /\ FileOf(dsc, 2, file)
      BY <2>1
    <3>2. From(dsc)' /\ FileOf(dsc, 2, sections'["rev"])
      BY <3>1
    <3>3. PICK d : d = dsc
      OBVIOUS
    <3>4. From(d)' /\ FileOf(d, 2, sections'["rev"])
      BY <3>2, <3>3 DEF From
    <3> QED BY <3>4
  <2>2. CASE section # "rev"
    <3>1. "rev" \in DOMAIN sections /\ sections'["rev"] = sections["rev"]
      BY <1>2, <2>2
    <3> QED BY <3>1 DEF SectionsInv, Keeps
  <2> QED BY <2>1, <2>2
<1> QED BY <1>1, <1>2 DEF SectionsInv

\* At the end nothing is said of the metadata.
LEMMA ExitedMeta ==
  ASSUME packer' \in {"exited", "conflict"}
  PROVE  MetaInv' /\ packer' \in Late
BY DEF MetaInv, Embedding, Late

\* A refused description.
LEMMA RefuseStep ==
  ASSUME PackerInv, packer \notin Late, NEW code, Refuse(code), sections' = sections
  PROVE  PackerInv' /\ Keeps
<1>1. Keeps
  BY NotLateKeeps
<1>2. SectionsInv'
  BY <1>1, SectionsKept DEF PackerInv
<1>3. packer' \in {"exited", "conflict"}
  BY DEF Refuse, Exit
<1> QED BY <1>1, <1>2, <1>3, ExitedMeta DEF PackerInv

\* The packer starts.
LEMMA RunStep ==
  ASSUME PackerInv, run_packer
  PROVE  PackerInv' /\ Keeps
<1>1. packer = "start" /\ packer' = "container" /\ sections' = sections
      /\ dsc' = <<>> /\ meta' = NewMeta
  BY DEF run_packer, Continue, PackerInv, MetaInv
<1>2. packer \notin Late
  BY <1>1 DEF Late, Embedding
<1>3. Keeps
  BY <1>2, NotLateKeeps
<1>4. SectionsInv'
  BY <1>1, <1>3, SectionsKept DEF PackerInv
<1>5. Collected(dsc', meta')
  BY <1>1, NothingCollected
<1>6. MetaInv'
  BY <1>1, <1>5 DEF MetaInv, Embedding
<1> QED BY <1>3, <1>4, <1>6 DEF PackerInv

\* One line of the description.
LEMMA DescriptionLineStep ==
  ASSUME PackerInv, DescriptionLine
  PROVE  PackerInv' /\ Keeps
<1>1. /\ packer \in {"container", "deps", "body"} /\ Len(dsc) < MaxLines
      /\ sections' = sections
  BY DEF DescriptionLine
<1>2. packer \notin Late
  BY <1>1 DEF Late, Embedding
<1>3. Collected(dsc, meta)
  BY <1>1 DEF PackerInv, MetaInv
<1>4. PICK l \in Line :
        \/ /\ Interpret(l).ok /\ Continue(PhaseAfter(l))
           /\ dsc' = Append(dsc, l) /\ meta' = Interpret(l).m
        \/ ~Interpret(l).ok /\ Refuse(1)
  BY DEF DescriptionLine
<1>5. CASE Refuse(1)
  BY <1>1, <1>2, <1>5, RefuseStep
<1>6. CASE /\ Interpret(l).ok /\ Continue(PhaseAfter(l))
           /\ dsc' = Append(dsc, l) /\ meta' = Interpret(l).m
  <2>1. Keeps
    BY <1>2, NotLateKeeps
  <2>2. SectionsInv'
    BY <1>1, <2>1, SectionsKept DEF PackerInv
  <2>3. packer' \in {"container", "deps", "body"}
    BY <1>6 DEF Continue, PhaseAfter
  <2>4. Collected(Append(dsc, l), Interpret(l).m)
    BY <1>1, <1>3, <1>6, LineStep
  <2>5. Collected(dsc', meta')
    BY <1>6, <2>4
  <2>6. MetaInv'
    BY <2>3, <2>5 DEF MetaInv, Embedding
  <2> QED BY <2>1, <2>2, <2>6 DEF PackerInv
<1> QED BY <1>4, <1>5, <1>6

\* The end of the description.
LEMMA DescriptionEndStep ==
  ASSUME PackerInv, DescriptionEnd
  PROVE  PackerInv' /\ Keeps
<1>1. packer \in {"container", "deps", "body"} /\ sections' = sections
  BY DEF DescriptionEnd
<1>2. packer \notin Late
  BY <1>1 DEF Late, Embedding
<1>3. CASE Refuse(1)
  BY <1>1, <1>2, <1>3, RefuseStep
<1>4. CASE Continue("elf") /\ UNCHANGED <<dsc, meta>>
  <2>1. Keeps
    BY <1>2, NotLateKeeps
  <2>2. SectionsInv'
    BY <1>1, <2>1, SectionsKept DEF PackerInv
  <2>3. packer' = "elf" /\ Collected(dsc', meta')
    BY <1>1, <1>4 DEF Continue, PackerInv, MetaInv
  <2>4. MetaInv'
    BY <2>3 DEF MetaInv, Embedding
  <2> QED BY <2>1, <2>2, <2>4 DEF PackerInv
<1> QED BY <1>3, <1>4 DEF DescriptionEnd

\* The offsets are looked up.
LEMMA ElfMetadataStep ==
  ASSUME PackerInv, get_ulp_elf_metadata
  PROVE  PackerInv' /\ Keeps
<1> DEFINE known == \A i \in DOMAIN meta.refs :
                      \/ meta.refs[i].target_offset # 0
                      \/ meta.refs[i].target_name \in DOMAIN TargetSymbols
           n == [meta EXCEPT
                   !.build_id = BuildId,
                   !.units = [i \in DOMAIN meta.units |-> Located(meta.units[i])],
                   !.refs = [i \in DOMAIN meta.refs |-> Resolved(meta.refs[i])]]
<1>1. packer = "elf" /\ sections' = sections
  BY DEF get_ulp_elf_metadata
<1>2. packer \notin Late
  BY <1>1 DEF Late, Embedding
<1>3. \/ \E code : Refuse(code)
      \/ meta.objs /\ known /\ meta' = n /\ Continue("id") /\ dsc' = dsc
  BY DEF get_ulp_elf_metadata
<1>4. CASE \E code : Refuse(code)
  BY <1>1, <1>2, <1>4, RefuseStep
<1>5. CASE meta.objs /\ known /\ meta' = n /\ Continue("id") /\ dsc' = dsc
  <2>1. Keeps
    BY <1>2, NotLateKeeps
  <2>2. SectionsInv'
    BY <1>1, <2>1, SectionsKept DEF PackerInv
  <2>3. Collected(dsc, meta)
    BY <1>1 DEF PackerInv, MetaInv
  <2>4. n \in MetaRecord /\ Says(dsc, n)
    BY <1>5, <2>3, ElfStep
  <2>5. dsc \in Seq(Line) /\ Len(dsc) <= MaxLines
    BY <2>3 DEF Collected
  <2> HIDE DEF n
  <2>6. /\ packer' = "id" /\ dsc' \in Seq(Line) /\ Len(dsc') <= MaxLines
        /\ meta' \in MetaRecord /\ Says(dsc', meta')
    BY <1>5, <2>4, <2>5 DEF Continue
  <2>7. MetaInv'
    BY <2>6 DEF MetaInv, Embedding
  <2> QED BY <2>1, <2>2, <2>7 DEF PackerInv
<1> QED BY <1>3, <1>4, <1>5

\* The id is written.
LEMMA PatchIdStep ==
  ASSUME PackerInv, write_patch_id
  PROVE  PackerInv' /\ Keeps
<1>1. packer = "id" /\ sections' = sections
  BY DEF write_patch_id
<1>2. packer \notin Late
  BY <1>1 DEF Late, Embedding
<1>3. CASE Refuse(1)
  BY <1>1, <1>2, <1>3, RefuseStep
<1>4. CASE /\ Continue("tmp") /\ dsc' = dsc
           /\ meta' = [meta EXCEPT !.patch_id = PatchId(dsc)]
  <2>1. Keeps
    BY <1>2, NotLateKeeps
  <2>2. SectionsInv'
    BY <1>1, <2>1, SectionsKept DEF PackerInv
  <2>3. /\ dsc \in Seq(Line) /\ Len(dsc) <= MaxLines
        /\ meta \in MetaRecord /\ Says(dsc, meta)
    BY <1>1 DEF PackerInv, MetaInv
  <2> DEFINE n == [meta EXCEPT !.patch_id = PatchId(dsc)]
  <2>4. Packed(dsc, n)
    BY <2>3, IdStep
  <2>5. meta' = n
    BY <1>4
  <2> HIDE DEF n
  <2>6. packer' = "tmp" /\ Packed(dsc', meta')
    BY <1>4, <2>4, <2>5 DEF Continue
  <2>7. MetaInv'
    BY <2>6 DEF MetaInv, Embedding
  <2> QED BY <2>1, <2>2, <2>7 DEF PackerInv
<1> QED BY <1>3, <1>4 DEF write_patch_id

\* From here on the packer only writes what it has.
LEMMA StaysLate ==
  ASSUME PackerInv, packer' \in Late, dsc' = dsc, sections' = sections
  PROVE  SectionsInv' /\ Keeps
<1>1. Keeps
  BY LateKeeps
<1> QED BY <1>1, SectionsKept DEF PackerInv

\* A path for the file, or the loop that never ends.
LEMMA TmpFileStep ==
  ASSUME PackerInv, create_path_to_tmp_file
  PROVE  PackerInv' /\ Keeps
<1>1. /\ packer \in Embedding /\ dsc' = dsc /\ meta' = meta /\ sections' = sections
      /\ packer' \in {"conflict", "write", "cwrite", "rwrite"}
  BY DEF create_path_to_tmp_file, Embedding, Continue
<1>2. Packed(dsc', meta')
  BY <1>1 DEF PackerInv, MetaInv
<1>3. packer' \in Late
  BY <1>1 DEF Late, Embedding
<1>4. MetaInv'
  BY <1>1, <1>2 DEF MetaInv, Embedding
<1> QED BY <1>1, <1>3, <1>4, StaysLate DEF PackerInv

\* A file is written, or only its first bytes.
LEMMA WriteStep ==
  ASSUME PackerInv, packer \in Embedding, NEW bytes, NEW next \in {"embed", "cembed", "rembed"},
         WriteFile(bytes, next),
         next = "embed" => bytes = Written(1, meta),
         next = "rembed" => bytes = Written(2, meta)
  PROVE  PackerInv' /\ Keeps
<1>1. dsc' = dsc /\ sections' = sections
  BY DEF WriteFile
<1>2. Packed(dsc, meta)
  BY DEF PackerInv, MetaInv
<1>3. CASE Exit(1)
  <2>1. packer' \in {"exited", "conflict"}
    BY <1>3 DEF Exit
  <2>2. MetaInv' /\ packer' \in Late
    BY <2>1, ExitedMeta
  <2> QED BY <1>1, <2>2, StaysLate DEF PackerInv
<1>4. CASE /\ \E n \in 0..Len(bytes) : file' = SubSeq(bytes, 1, n)
           /\ packer' = next /\ meta' = meta
  <2>1. packer' \in Late /\ packer' \in Embedding
    BY <1>4 DEF Late, Embedding
  <2>2. PICK n \in 0..Len(bytes) : file' = SubSeq(bytes, 1, n)
    BY <1>4
  <2>3. next = "embed" => FileOf(dsc, 1, file')
    BY <1>2, <2>2 DEF FileOf
  <2>4. next = "rembed" => FileOf(dsc, 2, file')
    BY <1>2, <2>2 DEF FileOf
  <2>5. MetaInv'
    BY <1>1, <1>2, <1>4, <2>1, <2>3, <2>4 DEF MetaInv, Embedding
  <2> QED BY <1>1, <2>1, <2>5, StaysLate DEF PackerInv
<1> QED BY <1>3, <1>4 DEF WriteFile

\* The three files.
LEMMA WriteSteps ==
  ASSUME PackerInv, WriteMetadata \/ WriteComments \/ WriteReverse
  PROVE  PackerInv' /\ Keeps
<1>1. CASE WriteMetadata
  <2>1. packer \in Embedding /\ WriteFile(Written(1, meta), "embed")
    BY <1>1 DEF WriteMetadata, Embedding, Written
  <2> QED BY <2>1, WriteStep
<1>2. CASE WriteComments
  <2>1. packer \in Embedding /\ WriteFile(<<1>>, "cembed")
    BY <1>2 DEF WriteComments, Embedding
  <2> QED BY <2>1, WriteStep
<1>3. CASE WriteReverse
  <2>1. packer \in Embedding /\ WriteFile(Written(2, meta), "rembed")
    BY <1>3 DEF WriteReverse, Embedding, Written
  <2> QED BY <2>1, WriteStep
<1> QED BY <1>1, <1>2, <1>3

\* A file is embedded, or the container stays what it was.
LEMMA EmbedStep ==
  ASSUME PackerInv, NEW section, dsc' = dsc, packer' \in Late, MetaInv',
         section = "ulp" => FileOf(dsc, 1, file),
         section = "rev" => FileOf(dsc, 2, file),
         \/ sections' = [s \in DOMAIN sections \cup {section} |->
                          IF s = section THEN file ELSE sections[s]]
         \/ sections' = sections
  PROVE  PackerInv' /\ Keeps
<1>1. Keeps /\ From(dsc)'
  BY LateKeeps
<1>2. CASE sections' = sections
  BY <1>1, <1>2, SectionsKept DEF PackerInv
<1>3. CASE sections' = [s \in DOMAIN sections \cup {section} |->
                          IF s = section THEN file ELSE sections[s]]
  <2>1. SectionsInv'
    BY <1>1, <1>3, Embedded DEF PackerInv
  <2> QED BY <1>1, <2>1 DEF PackerInv
<1> QED BY <1>2, <1>3

\* The three sections.
LEMMA EmbedSteps ==
  ASSUME PackerInv, EmbedMetadata \/ EmbedComments \/ EmbedReverse
  PROVE  PackerInv' /\ Keeps
<1>1. CASE EmbedMetadata
  <2>1. packer = "embed" /\ Packed(dsc, meta) /\ FileOf(dsc, 1, file)
    BY <1>1 DEF EmbedMetadata, PackerInv, MetaInv, Embedding
  <2>2. /\ dsc' = dsc
        /\ packer' = "exited" \/ (packer' \in {"ctmp", "rtmp"} /\ meta' = meta)
        /\ \/ sections' = [s \in DOMAIN sections \cup {"ulp"} |->
                            IF s = "ulp" THEN file ELSE sections[s]]
           \/ sections' = sections
    BY <1>1 DEF EmbedMetadata, Embed, Continue, Exit
  <2>3. MetaInv' /\ packer' \in Late
    BY <2>1, <2>2 DEF MetaInv, Embedding, Late
  <2> QED BY <2>1, <2>2, <2>3, EmbedStep
<1>2. CASE EmbedComments
  <2>1. packer = "cembed" /\ Packed(dsc, meta)
    BY <1>2 DEF EmbedComments, PackerInv, MetaInv, Embedding
  <2>2. /\ dsc' = dsc
        /\ packer' = "exited" \/ (packer' = "rtmp" /\ meta' = meta)
        /\ \/ sections' = [s \in DOMAIN sections \cup {"comments"} |->
                            IF s = "comments" THEN file ELSE sections[s]]
           \/ sections' = sections
    BY <1>2 DEF EmbedComments, Embed, Continue, Exit
  <2>3. MetaInv' /\ packer' \in Late
    BY <2>1, <2>2 DEF MetaInv, Embedding, Late
  <2> QED BY <2>2, <2>3, EmbedStep
<1>3. CASE EmbedReverse
  <2>1. packer = "rembed" /\ Packed(dsc, meta) /\ FileOf(dsc, 2, file)
    BY <1>3 DEF EmbedReverse, PackerInv, MetaInv, Embedding
  <2>2. /\ dsc' = dsc /\ packer' \in {"exited", "conflict"}
        /\ \/ sections' = [s \in DOMAIN sections \cup {"rev"} |->
                            IF s = "rev" THEN file ELSE sections[s]]
           \/ sections' = sections
    BY <1>3 DEF EmbedReverse, Embed, Exit
  <2>3. MetaInv' /\ packer' \in Late
    BY <2>2, ExitedMeta
  <2> QED BY <2>1, <2>2, <2>3, EmbedStep
<1> QED BY <1>1, <1>2, <1>3

\* Every step of the packer.
LEMMA PackerStepKeeps ==
  ASSUME PackerInv, PackerStep
  PROVE  PackerInv' /\ Keeps
BY RunStep, DescriptionLineStep, DescriptionEndStep, ElfMetadataStep, PatchIdStep,
   TmpFileStep, WriteSteps, EmbedSteps DEF PackerStep

-----------------------------------------------------------------------------
(***************************************************************************)
(* The tool. What it parses, and what libpulp.so parses again, agrees with *)
(* the memory of one description.                                          *)
(***************************************************************************)

Reads(d, t, m) ==
  /\ From(d) /\ Packed(d, m) /\ t \in {1, 2}
  /\ buf \in Seq(Nat) /\ Agree(buf, 0, Memory(t, m)) /\ ParserInv(t, m)

Accepts(d, t, m) ==
  /\ Reads(d, t, m) /\ Len(Memory(t, m)) <= Len(buf)
  /\ loaded = Whole(t, m)

TriggerInv ==
  /\ trigger \in {"idle", "refused", "died", "parse", "call", "library"}
  /\ trigger = "idle" => ulp = NoMetadata
  /\ trigger \in {"idle", "refused", "died"} => phase # "segv"
  /\ trigger = "parse" => Len(buf) < BufLen /\ \E d, t, m : Reads(d, t, m)
  /\ trigger = "call" =>
       Len(buf) < BufLen /\ phase = "done" /\ \E d, t, m : Accepts(d, t, m)
  /\ trigger = "library" => \E d, t, m : Accepts(d, t, m)

Inv == PackerInv /\ TriggerInv

\* What the invariant of the parser says of a parser that has stopped.
LEMMA Stopped ==
  ASSUME NEW t, NEW m, ParserInv(t, m)
  PROVE  /\ phase # "segv"
         /\ phase = "done" => ReaderOk /\ AtDone(t, m)
         /\ ~Parsing /\ ~(Len(buf) < Len(Memory(t, m))) => ReaderOk /\ AtDone(t, m)
<1>1. CASE TooShort(t, m)
  <2>1. Len(buf) < Len(Memory(t, m)) /\ phase \in InMiddle \cup {"invalid"}
    BY <1>1 DEF TooShort
  <2> QED BY <2>1 DEF InMiddle
<1>2. CASE ReaderOk /\ OnTrack(t, m)
  BY <1>2 DEF OnTrack, AtHeader, AtUnits, AtUnit, AtDeps, AtDep, AtRefs, AtRef, AtDone, Parsing
<1> QED BY <1>1, <1>2 DEF ParserInv

\* The invariant of the parser while nobody parses.
LEMMA ParserIdle ==
  ASSUME NEW t, NEW m, ParserInv(t, m), UNCHANGED parserVars
  PROVE  ParserInv(t, m)'
<1>1. /\ buf' = buf /\ phase' = phase /\ cursor' = cursor /\ count' = count /\ left' = left
      /\ ulp' = ulp
  BY DEF parserVars
<1>2. ReaderOk => ReaderOk'
  BY <1>1 DEF ReaderOk
<1>3. TooShort(t, m) => TooShort(t, m)'
  BY <1>1, <1>2 DEF TooShort
<1>4. AtHeader(t, m) => AtHeader(t, m)'
  BY <1>1 DEF AtHeader
<1>5. AtUnits(t, m) => AtUnits(t, m)'
  BY <1>1 DEF AtUnits, Stands
<1>6. AtUnit(t, m) => AtUnit(t, m)'
  BY <1>1 DEF AtUnit, Stands
<1>7. AtDeps(t, m) => AtDeps(t, m)'
  BY <1>1 DEF AtDeps, Stands
<1>8. AtDep(t, m) => AtDep(t, m)'
  BY <1>1 DEF AtDep, Stands
<1>9. AtRefs(t, m) => AtRefs(t, m)'
  BY <1>1 DEF AtRefs, Stands
<1>10. AtRef(t, m) => AtRef(t, m)'
  BY <1>1 DEF AtRef, Stands
<1>11. AtDone(t, m) => AtDone(t, m)'
  BY <1>1 DEF AtDone
<1>12. OnTrack(t, m) => OnTrack(t, m)'
  BY <1>4, <1>5, <1>6, <1>7, <1>8, <1>9, <1>10, <1>11 DEF OnTrack
<1> QED BY <1>2, <1>3, <1>12 DEF ParserInv

\* The same for what is read.
LEMMA ReadsIdle ==
  ASSUME Keeps, UNCHANGED parserVars, NEW d, NEW t, NEW m, Reads(d, t, m)
  PROVE  Reads(d, t, m)'
<1>1. ParserInv(t, m)'
  BY ParserIdle DEF Reads
<1>2. From(d)'
  BY DEF Reads, Keeps
<1>3. buf' = buf
  BY DEF parserVars
<1> QED BY <1>1, <1>2, <1>3 DEF Reads

\* The packer does not disturb the tool.
LEMMA TriggerIdle ==
  ASSUME TriggerInv, Keeps, UNCHANGED <<parserVars, trigger, loaded>>
  PROVE  TriggerInv'
<1>1. trigger' = trigger /\ loaded' = loaded /\ UNCHANGED parserVars
  OBVIOUS
<1>2. buf' = buf /\ phase' = phase /\ ulp' = ulp
  BY <1>1 DEF parserVars
<1>3. \A d, t, m : Reads(d, t, m) => Reads(d, t, m)'
  BY <1>1, ReadsIdle
<1>4. \A d, t, m : Accepts(d, t, m) => Accepts(d, t, m)'
  BY <1>1, <1>2, <1>3 DEF Accepts
<1> QED BY <1>1, <1>2, <1>3, <1>4 DEF TriggerInv

\* The tool does not disturb the packer.
LEMMA PackerIdle ==
  ASSUME PackerInv, UNCHANGED packerVars
  PROVE  PackerInv' /\ Keeps
<1>1. /\ packer' = packer /\ dsc' = dsc /\ meta' = meta /\ file' = file
      /\ sections' = sections
  BY DEF packerVars
<1>2. Keeps
  BY <1>1 DEF Keeps, From
<1>3. SectionsInv'
  BY <1>1, <1>2, SectionsKept DEF PackerInv
<1>4. MetaInv'
  BY <1>1 DEF PackerInv, MetaInv
<1> QED BY <1>2, <1>3, <1>4 DEF PackerInv

\* A new parse starts on the way.
LEMMA StartStep ==
  ASSUME NEW src \in Seq(Nat), StartParse(src), ulp' = NoMetadata,
         NEW d, From(d)', NEW t \in {1, 2}, NEW m, Packed(d, m), Agree(src, 0, Memory(t, m))
  PROVE  Reads(d, t, m)'
<1>1. buf' = src /\ phase' = "header" /\ cursor' = 0
  BY DEF StartParse
<1>2. count' \in Nat
  <2> DEFINE x == [i \in 1..NumLen |-> Base - 1]
             v == Value(x)
  <2>1. Base - 1 \in Nat /\ NumLen \in Nat
    BY Sizes
  <2>2. x \in [1..NumLen -> Nat]
    BY <2>1
  <2>3. count' \in {0, v}
    BY DEF StartParse
  <2> HIDE DEF x
  <2>4. x \in Seq(Nat)
    BY <2>1, <2>2
  <2>5. v \in Nat
    BY <2>4, ValueType
  <2> HIDE DEF v
  <2> QED BY <2>3, <2>5
<1>3. ReaderOk'
  <2>1. Len(src) \in Nat
    OBVIOUS
  <2> QED BY <1>1, <1>2, <2>1 DEF ReaderOk
<1>4. AtHeader(t, m)'
  BY <1>1 DEF AtHeader
<1>5. ParserInv(t, m)'
  BY <1>3, <1>4 DEF ParserInv, OnTrack
<1> QED BY <1>1, <1>5 DEF Reads

\* The metadata is extracted from a section of the container.
LEMMA ExtractStep ==
  ASSUME Inv, Extract
  PROVE  Inv'
<1>1. PackerInv' /\ Keeps
  BY PackerIdle DEF Inv, Extract
<1>2. trigger = "idle" /\ ulp = NoMetadata /\ phase # "segv"
  BY DEF Inv, TriggerInv, Extract
<1>3. CASE trigger' \in {"refused", "died"} /\ UNCHANGED parserVars
  <2>1. phase' = phase
    BY <1>3 DEF parserVars
  <2>2. TriggerInv'
    BY <1>2, <1>3, <2>1 DEF TriggerInv
  <2> QED BY <1>1, <2>2 DEF Inv
<1>4. ASSUME NEW section \in {"ulp", "rev"}, section \in DOMAIN sections,
             Len(sections[section]) > IdLen,
             Len(extract_ulp_from_so_to_mem(sections[section], Path)) < BufLen,
             trigger' = "parse",
             StartParse(extract_ulp_from_so_to_mem(sections[section], Path)),
             ulp' = ulp
      PROVE  Inv'
  <2> DEFINE t == IF section = "ulp" THEN 1 ELSE 2
             sec == sections[section]
             mem == extract_ulp_from_so_to_mem(sec, Path)
  <2>1. \E d : From(d) /\ FileOf(d, t, sec)
    <3>1. CASE section = "ulp"
      BY <1>4, <3>1 DEF Inv, PackerInv, SectionsInv
    <3>2. CASE section = "rev"
      BY <1>4, <3>2 DEF Inv, PackerInv, SectionsInv
    <3> QED BY <3>1, <3>2
  <2>2. t \in {1, 2}
    OBVIOUS
  <2>3. /\ Len(sec) > IdLen /\ Len(mem) < BufLen /\ StartParse(mem)
    BY <1>4
  <2> HIDE DEF t, sec
  <2>4. PICK d : From(d) /\ FileOf(d, t, sec)
    BY <2>1
  <2>5. PICK m : /\ Packed(d, m)
                 /\ \E n \in 0..Len(Written(t, m)) : sec = SubSeq(Written(t, m), 1, n)
    BY <2>4 DEF FileOf
  <2>6. PICK n \in 0..Len(Written(t, m)) : sec = SubSeq(Written(t, m), 1, n)
    BY <2>5
  <2>7. Writable(m)
    BY <2>5 DEF Packed
  <2>8. mem \in Seq(Nat) /\ Agree(mem, 0, Memory(t, m))
    BY <2>2, <2>3, <2>6, <2>7, ExtractAgrees
  <2>9. From(d)' /\ ulp' = NoMetadata
    BY <1>1, <1>2, <1>4, <2>4 DEF Keeps
  <2>10. buf' = mem
    BY <2>3 DEF StartParse
  <2> HIDE DEF mem
  <2>11. PICK w : w = t
    OBVIOUS
  <2>12. w \in {1, 2} /\ Agree(mem, 0, Memory(w, m))
    BY <2>2, <2>8, <2>11
  <2>13. Reads(d, w, m)'
    BY <2>3, <2>5, <2>8, <2>9, <2>12, StartStep
  <2>14. Len(buf') < BufLen
    BY <2>3, <2>10
  <2>15. TriggerInv'
    BY <1>4, <2>13, <2>14 DEF TriggerInv
  <2> QED BY <1>1, <2>15 DEF Inv
<1> QED BY <1>2, <1>3, <1>4 DEF Extract

\* A turn of the parser, in the tool or in libpulp.so.
LEMMA ReadsStep ==
  ASSUME Keeps, Parse, NEW d, NEW t, NEW m, Reads(d, t, m)
  PROVE  Reads(d, t, m)' /\ buf' = buf
<1>1. From(d)' /\ t \in {1, 2} /\ Writable(m) /\ ParserInv(t, m)
  BY DEF Keeps, Reads, Packed
<1>2. ParserInv(t, m)'
  BY <1>1, ParserStep
<1>3. buf' = buf
  BY DEF Parse, ParseHeader, ParseUnitCount, ParseUnit, ParseDepCount, ParseDep,
         ParseRefCount, ParseRef, Advance
<1> QED BY <1>1, <1>2, <1>3 DEF Reads

\* The same with the tool and libpulp.so around it.
LEMMA ParseStepKeeps ==
  ASSUME Inv, ParseStep
  PROVE  Inv'
<1>1. PackerInv' /\ Keeps
  BY PackerIdle DEF Inv, ParseStep
<1>2. trigger \in {"parse", "library"} /\ Parse /\ trigger' = trigger /\ loaded' = loaded
  BY DEF ParseStep
<1>3. CASE trigger = "parse"
  <2>1. PICK d, t, m : Reads(d, t, m)
    BY <1>3 DEF Inv, TriggerInv
  <2>2. Reads(d, t, m)' /\ buf' = buf
    BY <1>1, <1>2, <2>1, ReadsStep
  <2>3. TriggerInv'
    BY <1>2, <1>3, <2>2 DEF Inv, TriggerInv
  <2> QED BY <1>1, <2>3 DEF Inv
<1>4. CASE trigger = "library"
  <2>1. PICK d, t, m : Accepts(d, t, m)
    BY <1>4 DEF Inv, TriggerInv
  <2>2. Reads(d, t, m)' /\ buf' = buf
    BY <1>1, <1>2, <2>1, ReadsStep DEF Accepts
  <2>3. Accepts(d, t, m)'
    BY <1>2, <2>1, <2>2 DEF Accepts
  <2>4. TriggerInv'
    BY <1>2, <1>4, <2>3 DEF TriggerInv
  <2> QED BY <1>1, <2>4 DEF Inv
<1> QED BY <1>2, <1>3, <1>4

\* The tool accepts the metadata or refuses it.
LEMMA LoadedStep ==
  ASSUME Inv, Loaded
  PROVE  Inv'
<1>1. PackerInv' /\ Keeps
  BY PackerIdle DEF Inv, Loaded
<1>2. trigger = "parse" /\ phase # "segv" /\ UNCHANGED parserVars
  BY DEF Loaded
<1>3. buf' = buf /\ phase' = phase /\ ulp' = ulp
  BY <1>2 DEF parserVars
<1>4. CASE trigger' = "refused"
  <2>1. TriggerInv'
    BY <1>2, <1>3, <1>4 DEF TriggerInv
  <2> QED BY <1>1, <2>1 DEF Inv
<1>5. CASE phase = "done" /\ trigger' = "call" /\ loaded' = ulp
  <2>1. PICK d, t, m : Reads(d, t, m)
    BY <1>2 DEF Inv, TriggerInv
  <2>2. Reads(d, t, m)'
    BY <1>1, <1>2, <2>1, ReadsIdle
  <2>3. ReaderOk /\ AtDone(t, m)
    BY <1>5, <2>1, Stopped DEF Reads
  <2>4. Len(Memory(t, m)) <= Len(buf) /\ ulp = Whole(t, m)
    <3>1. cursor = Len(Memory(t, m)) /\ cursor \in 0..Len(buf) /\ Len(buf) \in Nat
      BY <2>3 DEF AtDone, ReaderOk
    <3> QED BY <2>3, <3>1 DEF AtDone
  <2>5. Accepts(d, t, m)'
    BY <1>3, <1>5, <2>2, <2>4 DEF Accepts
  <2>6. Len(buf') < BufLen /\ phase' = "done"
    BY <1>2, <1>3, <1>5 DEF Inv, TriggerInv
  <2>7. TriggerInv'
    BY <1>5, <2>5, <2>6 DEF TriggerInv
  <2> QED BY <1>1, <2>7 DEF Inv
<1> QED BY <1>4, <1>5 DEF Loaded

\* The buffer of libpulp.so has its length, whatever it holds.
BufferInv == buffer \in Seq(Nat) /\ Len(buffer) = BufLen

\* The buffer of libpulp.so holds what was written, and then what it held before.
LEMMA BufferHolds ==
  ASSUME BufferInv, NEW mem \in Seq(Nat), Len(mem) < BufLen
  PROVE  LET b == set_metadata_buffer(mem)
         IN  /\ b \in Seq(Nat) /\ Len(b) = BufLen
             /\ \A i \in 1..Len(mem) : b[i] = mem[i]
<1> DEFINE z == SubSeq(buffer, Len(mem) + 1, BufLen)
           b == mem \o z
<1>1. BufLen \in Nat /\ Len(mem) \in Nat /\ Len(mem) + 1 \in Int /\ BufLen \in Int
  BY MetadataAssumption
<1>2. set_metadata_buffer(mem) = b
  BY DEF set_metadata_buffer
<1>3. \A i \in (Len(mem) + 1)..BufLen : buffer[i] \in Nat
  BY <1>1 DEF BufferInv
<1>4. /\ z \in Seq(Nat)
      /\ Len(z) = IF Len(mem) + 1 <= BufLen THEN BufLen - (Len(mem) + 1) + 1 ELSE 0
  BY <1>1, <1>3, SubSeqProperties
<1> HIDE DEF z
<1>5. z \in Seq(Nat) /\ Len(z) = BufLen - Len(mem)
  BY <1>1, <1>4
<1>6. /\ b \in Seq(Nat) /\ Len(b) = Len(mem) + Len(z)
      /\ \A i \in 1..(Len(mem) + Len(z)) :
           b[i] = IF i <= Len(mem) THEN mem[i] ELSE z[i - Len(mem)]
  BY <1>5, ConcatProperties
<1> HIDE DEF b
<1>7. \A i \in 1..Len(mem) : b[i] = mem[i]
  BY <1>1, <1>5, <1>6
<1> QED BY <1>1, <1>2, <1>5, <1>6, <1>7

\* After the parse the buffer is empty.
LEMMA EmptyIs == EmptyBuffer \in Seq(Nat) /\ Len(EmptyBuffer) = BufLen
<1>1. BufLen \in Nat
  BY MetadataAssumption
<1>2. EmptyBuffer \in [1..BufLen -> Nat] /\ DOMAIN EmptyBuffer = 1..BufLen
  BY DEF EmptyBuffer
<1> HIDE DEF EmptyBuffer
<1> QED BY <1>1, <1>2

\* So it agrees with the metadata, whatever is behind it.
LEMMA BufferAgrees ==
  ASSUME BufferInv, NEW mem \in Seq(Nat), Len(mem) < BufLen,
         NEW s \in Seq(Nat), Agree(mem, 0, s), Len(s) <= Len(mem)
  PROVE  LET b == set_metadata_buffer(mem)
         IN  b \in Seq(Nat) /\ Agree(b, 0, s) /\ Len(s) <= Len(b)
<1> DEFINE b == set_metadata_buffer(mem)
<1>1. BufLen \in Nat /\ Len(mem) \in Nat /\ Len(s) \in Nat
  BY MetadataAssumption
<1>2. /\ b \in Seq(Nat) /\ Len(b) = BufLen
      /\ \A i \in 1..Len(mem) : b[i] = mem[i]
  BY BufferHolds
<1> HIDE DEF b
<1>3. Len(s) <= Len(b)
  BY <1>1, <1>2
<1>4. ASSUME NEW i \in 1..Len(s) PROVE b[0 + i] = s[i]
  <2>1. i \in 1..Len(mem) /\ 0 + i = i
    BY <1>1
  <2>2. mem[i] = s[i]
    BY <2>1 DEF Agree
  <2> QED BY <1>2, <2>1, <2>2
<1>5. Agree(b, 0, s)
  BY <1>4 DEF Agree
<1> QED BY <1>2, <1>3, <1>5 DEF b

\* libpulp.so is called.
LEMMA CallStep ==
  ASSUME Inv, BufferInv, CallLibrary, trigger' = "library"
  PROVE  Inv'
<1>1. PackerInv' /\ Keeps
  BY PackerIdle DEF Inv, CallLibrary
<1>2. /\ trigger = "call" /\ trigger' = "library" /\ loaded' = loaded /\ ulp' = NoMetadata
      /\ StartParse(set_metadata_buffer(buf))
  BY DEF CallLibrary
<1>3. Len(buf) < BufLen /\ \E d, t, m : Accepts(d, t, m)
  BY <1>2 DEF Inv, TriggerInv
<1>4. PICK d, t, m : Accepts(d, t, m)
  BY <1>3
<1>5. /\ From(d)' /\ Packed(d, m) /\ Writable(m) /\ t \in {1, 2} /\ buf \in Seq(Nat)
      /\ Agree(buf, 0, Memory(t, m)) /\ Len(Memory(t, m)) <= Len(buf)
      /\ loaded = Whole(t, m)
  BY <1>1, <1>4 DEF Accepts, Reads, Keeps, Packed
<1> DEFINE s == Memory(t, m)
           b == set_metadata_buffer(buf)
<1>6. s \in Seq(Nat)
  BY <1>5, MemoryType
<1>7. b \in Seq(Nat) /\ Agree(b, 0, s) /\ Len(s) <= Len(b)
  BY <1>3, <1>5, <1>6, BufferAgrees
<1>8. buf' = b
  BY <1>2 DEF StartParse
<1> HIDE DEF b
<1>9. Reads(d, t, m)'
  BY <1>2, <1>5, <1>7, StartStep DEF b
<1>10. Accepts(d, t, m)'
  BY <1>2, <1>5, <1>7, <1>8, <1>9 DEF Accepts
<1>11. TriggerInv'
  BY <1>2, <1>10 DEF TriggerInv
<1> QED BY <1>1, <1>11 DEF Inv

\* libpulp.so returns or does not do anything, and the tool makes ready for the
\* next patch.
LEMMA ReturnStep ==
  ASSUME Inv, \/ LibraryReturns \/ Clean
              \/ (CallLibrary \/ revert_patches_from_lib) /\ trigger' # "library"
  PROVE  Inv'
<1>1. PackerInv' /\ Keeps
  BY PackerIdle DEF Inv, LibraryReturns, Clean, CallLibrary, revert_patches_from_lib
<1>2. CASE LibraryReturns
  <2>1. trigger' = "refused" /\ phase' # "segv"
    BY <1>2 DEF LibraryReturns
  <2>2. TriggerInv'
    BY <2>1 DEF TriggerInv
  <2> QED BY <1>1, <2>2 DEF Inv
<1>3. CASE Clean
  <2>1. trigger' = "idle" /\ ulp' = NoMetadata /\ phase' = "idle"
    BY <1>3 DEF Clean, release_ulp_global_metadata
  <2>2. TriggerInv'
    BY <2>1 DEF TriggerInv
  <2> QED BY <1>1, <2>2 DEF Inv
<1>4. CASE (CallLibrary \/ revert_patches_from_lib) /\ trigger' # "library"
  <2>1. /\ trigger = "call" /\ trigger' \in {"call", "refused"}
        /\ UNCHANGED parserVars /\ loaded' = loaded
    BY <1>4 DEF CallLibrary, revert_patches_from_lib
  <2>2. CASE trigger' = "call"
    <3>1. TriggerInv'
      BY <1>1, <2>1, <2>2, TriggerIdle DEF Inv
    <3> QED BY <1>1, <3>1 DEF Inv
  <2>3. CASE trigger' = "refused"
    <3>1. phase' # "segv"
      BY <2>1 DEF Inv, TriggerInv, parserVars
    <3>2. TriggerInv'
      BY <2>3, <3>1 DEF TriggerInv
    <3> QED BY <1>1, <3>2 DEF Inv
  <2> QED BY <2>1, <2>2, <2>3
<1> QED BY <1>2, <1>3, <1>4

\* What is written into the buffer of libpulp.so fits.
LEMMA BufferStep ==
  ASSUME Inv, BufferInv, [Next]_vars
  PROVE  BufferInv'
<1>1. CASE CallLibrary
  <2>1. PICK d, t, m : Accepts(d, t, m)
    BY <1>1 DEF CallLibrary, Inv, TriggerInv
  <2>2. buf \in Seq(Nat) /\ Len(buf) < BufLen
    BY <1>1, <2>1 DEF CallLibrary, Inv, TriggerInv, Accepts, Reads
  <2>3. buffer' = set_metadata_buffer(buf)
    BY <1>1 DEF CallLibrary
  <2> QED BY <2>2, <2>3, BufferHolds DEF BufferInv
<1>2. CASE revert_patches_from_lib
  <2> DEFINE n == Append(LibName, 0)
  <2>1. LibName \in Seq(Nat)
    <3>1. LibName \in Seq(1..(Base - 1)) /\ Base \in Nat
      BY PackerAssumption, MetadataAssumption DEF Name
    <3>2. \A i \in 1..Len(LibName) : LibName[i] \in Nat
      BY <3>1
    <3> QED BY <3>1, <3>2
  <2>2. n \in Seq(Nat) /\ Len(n) = Len(LibName) + 1
    BY <2>1
  <2>3. Len(n) < BufLen /\ buffer' = set_metadata_buffer(n)
    BY <1>2, <2>2 DEF revert_patches_from_lib
  <2> HIDE DEF n
  <2> QED BY <2>2, <2>3, BufferHolds DEF BufferInv
<1>3. CASE LibraryReturns
  <2>1. buffer' = EmptyBuffer
    BY <1>3 DEF LibraryReturns
  <2> QED BY <2>1, EmptyIs DEF BufferInv
<1>4. CASE UNCHANGED buffer
  BY <1>4 DEF BufferInv
<1>5. CASE PackerStep
  BY <1>4, <1>5 DEF PackerStep, run_packer, DescriptionLine, DescriptionEnd,
       get_ulp_elf_metadata, write_patch_id, create_path_to_tmp_file, WriteMetadata,
       WriteComments, WriteReverse, WriteFile, EmbedMetadata, EmbedComments, EmbedReverse,
       Embed, ReaderIdle
<1>6. CASE Extract \/ ParseStep \/ Loaded \/ Clean
  BY <1>4, <1>6 DEF Extract, ParseStep, Loaded, Clean
<1>7. CASE UNCHANGED vars
  BY <1>4, <1>7 DEF vars
<1> QED BY <1>1, <1>2, <1>3, <1>5, <1>6, <1>7 DEF Next, TriggerStep

\* A file is a sequence of numbers.
LEMMA WrittenType ==
  ASSUME NEW m, Writable(m), NEW t \in {1, 2}
  PROVE  Written(t, m) \in Seq(Nat)
<1> DEFINE x == <<t>>
           y == m.patch_id
           w == TailPart(t, m)
<1>1. x \in Seq(Nat) /\ y \in Seq(Nat) /\ w \in Seq(Nat)
  BY PartTypes
<1>2. Written(t, m) = (x \o y) \o w
  BY WrittenIs
<1> HIDE DEF x, y, w
<1>3. x \o y \in Seq(Nat)
  BY <1>1, Concat
<1> QED BY <1>1, <1>2, <1>3, Concat

\* At first: a new container, or one that was packed before.
LEMMA InitInv ==
  ASSUME Init
  PROVE  Inv /\ BufferInv
<1>1. TriggerInv
  BY DEF Init, TriggerInv
<1>2. MetaInv
  BY DEF Init, MetaInv, Embedding
<1>3. SectionsInv
  <2>1. CASE sections = [s \in {} |-> <<>>]
    BY <2>1 DEF SectionsInv
  <2>2. CASE sections = [ulp |-> create_patch_metadata_file(Built(Older)),
                         rev |-> write_reverse_patch(Built(Older))]
    <3> DEFINE m == Built(Older)
    <3>1. Packed(Older, m) /\ Writable(m) /\ From(Older)
      BY OlderPacked DEF Packed, From
    <3>2. sections["ulp"] = Written(1, m) /\ sections["rev"] = Written(2, m)
      BY <2>2 DEF Written
    <3> HIDE DEF m
    <3>3. ASSUME NEW t \in {1, 2} PROVE FileOf(Older, t, Written(t, m))
      <4> DEFINE w == Written(t, m)
      <4>1. w \in Seq(Nat)
        BY <3>1, WrittenType
      <4> HIDE DEF w
      <4>2. Len(w) \in 0..Len(w) /\ w = SubSeq(w, 1, Len(w))
        BY <4>1, SubSeqFull
      <4> QED BY <3>1, <4>2 DEF FileOf, w
    <3> QED BY <3>1, <3>2, <3>3 DEF SectionsInv
  <2> QED BY <2>1, <2>2 DEF Init
<1>4. BufferInv
  BY EmptyIs DEF Init, BufferInv
<1> QED BY <1>1, <1>2, <1>3, <1>4 DEF Inv, PackerInv

\* Every step keeps the invariant.
LEMMA NextInv ==
  ASSUME Inv, BufferInv, [Next]_vars
  PROVE  Inv'
<1>1. CASE PackerStep
  <2>1. PackerInv' /\ Keeps
    BY <1>1, PackerStepKeeps DEF Inv
  <2>2. UNCHANGED <<parserVars, trigger, loaded>>
    BY <1>1 DEF PackerStep, run_packer, DescriptionLine, DescriptionEnd, get_ulp_elf_metadata,
                write_patch_id, create_path_to_tmp_file, WriteMetadata, WriteComments,
                WriteReverse, WriteFile, EmbedMetadata, EmbedComments, EmbedReverse, Embed,
                ReaderIdle
  <2> QED BY <2>1, <2>2, TriggerIdle DEF Inv
<1>2. CASE TriggerStep
  <2>1. CASE CallLibrary /\ trigger' = "library"
    BY <2>1, CallStep
  <2>2. CASE (CallLibrary \/ revert_patches_from_lib) /\ trigger' # "library"
    BY <2>2, ReturnStep
  <2>3. revert_patches_from_lib => trigger' # "library"
    BY DEF revert_patches_from_lib
  <2> QED BY <1>2, <2>1, <2>2, <2>3, ExtractStep, ParseStepKeeps, LoadedStep, ReturnStep
          DEF TriggerStep
<1>3. CASE UNCHANGED vars
  <2>1. UNCHANGED packerVars /\ UNCHANGED <<parserVars, trigger, loaded>>
    BY <1>3 DEF vars
  <2>2. PackerInv' /\ Keeps
    BY <2>1, PackerIdle DEF Inv
  <2> QED BY <2>1, <2>2, TriggerIdle DEF Inv
<1> QED BY <1>1, <1>2, <1>3 DEF Next

\* In every state the sections of the container are the beginnings of files
\* that the packer wrote for the last description or for the one before, and
\* what is parsed agrees with such a file (run_packer, trigger_one_process).
THEOREM PackerInvariant == Spec => [](Inv /\ BufferInv)
<1>1. Init => Inv /\ BufferInv
  BY InitInv
<1>2. Inv /\ BufferInv /\ [Next]_vars => Inv' /\ BufferInv'
  BY NextInv, BufferStep
<1> QED BY <1>1, <1>2, PTL DEF Spec

\* Whatever was cut short or failed in the packer, metadata that the tool
\* accepts says what one description says: functions in their order, all
\* dependencies and references, with the offsets of the symbols
\* (parse_metadata_from_mem, run_packer).
THEOREM AcceptsDescriptions == Spec => []AcceptedIsDescribed
<1>1. Inv => AcceptedIsDescribed
  <2>1. SUFFICES ASSUME Inv, trigger \in {"call", "library"}
                 PROVE  \E d \in {Older, dsc} : Describes(d, loaded)
    BY DEF AcceptedIsDescribed
  <2>2. PICK d, t, m : Accepts(d, t, m)
    BY <2>1 DEF Inv, TriggerInv
  <2>3. From(d) /\ Packed(d, m) /\ t \in {1, 2} /\ loaded = Whole(t, m)
    BY <2>2 DEF Accepts, Reads
  <2>4. d \in {Older, dsc}
    BY <2>3 DEF From
  <2>5. Describes(d, loaded)
    BY <2>3 DEF Packed
  <2> QED BY <2>4, <2>5
<1> QED BY <1>1, PackerInvariant, PTL

\* The parser of libpulp.so, which gets the metadata with the rest of an earlier
\* call behind it and an uninitialised length, ends with what the tool has
\* accepted (set_metadata_buffer, parse_metadata).
THEOREM LibraryReadsAlike == Spec => []LibraryReadsTheSame
<1>1. Inv => LibraryReadsTheSame
  <2>1. SUFFICES ASSUME Inv, trigger = "library", ~Parsing
                 PROVE  phase = "done" /\ ulp = loaded
    BY DEF LibraryReadsTheSame
  <2>2. PICK d, t, m : Accepts(d, t, m)
    BY <2>1 DEF Inv, TriggerInv
  <2>3. /\ ParserInv(t, m) /\ loaded = Whole(t, m) /\ buf \in Seq(Nat) /\ Writable(m)
        /\ t \in {1, 2} /\ Len(Memory(t, m)) <= Len(buf)
    BY <2>2 DEF Accepts, Reads, Packed
  <2>4. Len(Memory(t, m)) \in Nat /\ Len(buf) \in Nat
    BY <2>3, MemoryType
  <2>5. ~(Len(buf) < Len(Memory(t, m)))
    BY <2>3, <2>4
  <2>6. AtDone(t, m)
    BY <2>1, <2>3, <2>5, Stopped
  <2> QED BY <2>3, <2>6 DEF AtDone
<1> QED BY <1>1, PackerInvariant, PTL

\* The parser always starts on an empty struct, in the tool and in
\* libpulp.so, for any number of patches in a row
\* (release_ulp_global_metadata, trigger_one_process).
THEOREM AlwaysStartsClean == Spec => []StartsClean
<1>1. Inv => StartsClean
  <2>1. SUFFICES ASSUME Inv PROVE phase # "segv"
    BY DEF StartsClean
  <2>2. CASE trigger \in {"idle", "refused", "died"}
    BY <2>1, <2>2 DEF Inv, TriggerInv
  <2>3. CASE trigger \in {"parse", "call", "library"}
    <3>1. \E d, t, m : Reads(d, t, m)
      BY <2>1, <2>3 DEF Inv, TriggerInv, Accepts
    <3> QED BY <3>1, Stopped DEF Reads
  <2> QED BY <2>1, <2>2, <2>3 DEF Inv, TriggerInv
<1> QED BY <1>1, PackerInvariant, PTL

\* The memory is the beginning of what one description says, and not all of it.
CutShort ==
  \E d, t, m : /\ From(d) /\ Packed(d, m) /\ t \in {1, 2}
               /\ Agree(buf, 0, Memory(t, m)) /\ Len(buf) < Len(Memory(t, m))

InvalidIsShort == trigger \in {"parse", "library"} /\ phase = "invalid" => CutShort

\* The parser gives up only on metadata of which the end is missing: what the
\* packer wrote completely is never refused as invalid, whatever the number and
\* the lengths of its parts (parse_metadata_from_mem, write_patch_id).
THEOREM OnlyShortIsInvalid == Spec => []InvalidIsShort
<1>1. Inv => InvalidIsShort
  <2>1. SUFFICES ASSUME Inv, trigger \in {"parse", "library"}, phase = "invalid"
                 PROVE  CutShort
    BY DEF InvalidIsShort
  <2>2. PICK d, t, m : Reads(d, t, m)
    BY <2>1 DEF Inv, TriggerInv, Accepts
  <2>3. TooShort(t, m)
    <3>1. ~OnTrack(t, m)
      BY <2>1 DEF OnTrack, AtHeader, AtUnits, AtUnit, AtDeps, AtDep, AtRefs, AtRef, AtDone
    <3> QED BY <2>2, <3>1 DEF Reads, ParserInv
  <2> QED BY <2>2, <2>3 DEF Reads, TooShort, CutShort
<1> QED BY <1>1, PackerInvariant, PTL

=============================================================================
