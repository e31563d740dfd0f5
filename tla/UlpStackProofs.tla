--------------------------- MODULE UlpStackProofs ---------------------------
(***************************************************************************)
(* For every page size, depth of calls and number of addresses: as long as *)
(* calls interrupt the trampoline only where it does no harm, every call   *)
(* of a patched function returns to its caller.                            *)
(***************************************************************************)
EXTENDS UlpStack, SequenceTheorems, TLAPS

\* The number of entries a call accounts for.
Count(a) == IF Claimed(a) THEN 1 ELSE 0

\* Only the innermost call is at a place where no call may begin.
Nested == \A i \in 1..(Len(act) - 1) : act[i].pc \in SafePlace

\* Calls take their entries one above the other, and none is lost.
Stacked ==
  /\ act = <<>> => used = 0
  /\ act # <<>> => act[1].base = 0 /\ used = Top.base + Count(Top)
  /\ \A i \in 1..(Len(act) - 1) : act[i + 1].base = act[i].base + Count(act[i])
  /\ \A i, j \in 1..Len(act) : i < j => act[i].base + Count(act[i]) <= act[j].base

\* The calls that have found space, or have made it.
HasRoom(a) == a.pc \in {"map", "copy", "set", "claim", "ptr", "store", "body"}

\* Space that was found stays, and the stack holds what is used of it.
Room ==
  /\ \A i \in 1..Len(act) : HasRoom(act[i]) => act[i].base + 1 <= real
  /\ used <= real

\* Where the registers point.
Registers ==
  /\ \A i \in 1..Len(act) :
       act[i].pc \in {"ptr", "store", "reload", "fetch"} => act[i].r6 = act[i].base + 1
  /\ act # <<>> /\ Top.pc \in {"store", "fetch"} => Top.r5 = ptr

\* real_size is the size of the mapping, except while it is replaced.
Mapped ==
  /\ mem[NULL] = <<>>
  /\ (act = <<>> \/ Top.pc \notin {"map", "copy", "set"}) => Len(mem[ptr]) = real
  /\ (act = <<>> \/ Top.pc # "set") /\ ptr # NULL => mem[ptr] # <<>>
  /\ act # <<>> /\ Top.pc \in {"map", "copy"} =>
        real > 0 /\ Len(mem[ptr]) = Top.old_size
  /\ act # <<>> /\ Top.pc \in {"copy", "set"} =>
        real > 0 /\ Top.new \in Addr /\ Top.new # ptr /\ Len(mem[Top.new]) = real
  /\ act # <<>> /\ Top.pc = "copy" => Top.old = ptr
  /\ act # <<>> /\ Top.pc = "set" => mem[ptr] = <<>>

StackInv ==
  /\ TypeOK
  /\ Nested /\ Stacked /\ Room /\ Registers /\ Mapped
  /\ CallersSaved /\ CalledWhenFull /\ NeverLost

-----------------------------------------------------------------------------
(***************************************************************************)
(* The sequence of calls.                                                  *)
(***************************************************************************)

\* The innermost call changes, and nothing else does.
LEMMA GotoFacts ==
  ASSUME act \in Seq(Activation), act # <<>>, NEW a \in Activation, Goto(a)
  PROVE  /\ act' \in Seq(Activation) /\ act' # <<>> /\ Len(act') = Len(act)
         /\ Len(act) \in Nat /\ Len(act) >= 1
         /\ Top' = a
         /\ \A i \in 1..Len(act) : i # Len(act) => act'[i] = act[i]
BY DEF Goto, Top, Depth

\* Every call has its fields.
LEMMA ActFields ==
  ASSUME act \in Seq(Activation), NEW i \in 1..Len(act)
  PROVE  /\ act[i] \in Activation
         /\ act[i].pc \in Place /\ act[i].site \in Site
         /\ act[i].r5 \in Address /\ act[i].r6 \in Nat
         /\ act[i].old \in Address /\ act[i].new \in Address
         /\ act[i].old_size \in Nat /\ act[i].base \in Nat
<1>1. act[i] \in Activation
  OBVIOUS
<1> QED BY <1>1 DEF Activation

\* A call begins.
LEMMA CallFacts ==
  ASSUME act \in Seq(Activation), NEW a \in Activation, act' = Append(act, a)
  PROVE  /\ act' \in Seq(Activation) /\ act' # <<>> /\ Len(act') = Len(act) + 1
         /\ Len(act) \in Nat
         /\ Top' = a
         /\ \A i \in 1..Len(act) : act'[i] = act[i]
BY DEF Top, Depth

\* The innermost call ends.
LEMMA ReturnFacts ==
  ASSUME act \in Seq(Activation), act # <<>>, act' = SubSeq(act, 1, Depth - 1)
  PROVE  /\ act' \in Seq(Activation) /\ Len(act') = Len(act) - 1
         /\ Len(act) \in Nat /\ Len(act) >= 1
         /\ act' = <<>> <=> Len(act) = 1
         /\ act' # <<>> => Top' = act[Len(act) - 1]
         /\ \A i \in 1..(Len(act) - 1) : act'[i] = act[i]
<1>1. Len(act) \in Nat /\ Len(act) >= 1
  OBVIOUS
<1>2. /\ act' \in Seq(Activation) /\ Len(act') = Len(act) - 1
      /\ \A i \in 1..(Len(act) - 1) : act'[i] = act[i]
  <2> DEFINE n == Len(act) - 1
  <2>1. n \in Int /\ 1 \in Int /\ n >= 0
    BY <1>1
  <2>2. \A i \in 1..n : act[i] \in Activation
    BY <1>1
  <2>3. /\ SubSeq(act, 1, n) \in Seq(Activation)
        /\ Len(SubSeq(act, 1, n)) = IF 1 <= n THEN n - 1 + 1 ELSE 0
        /\ \A i \in 1..(n - 1 + 1) : SubSeq(act, 1, n)[i] = act[1 + i - 1]
    <3> HIDE DEF n
    <3> QED BY <2>1, <2>2, SubSeqProperties
  <2>4. act' = SubSeq(act, 1, n)
    BY DEF Depth
  <2>5. /\ act' \in Seq(Activation)
        /\ Len(act') = IF 1 <= n THEN n - 1 + 1 ELSE 0
        /\ \A i \in 1..(n - 1 + 1) : act'[i] = act[1 + i - 1]
    BY <2>3, <2>4, Zenon
  <2>6. n - 1 + 1 = n /\ Len(act') = n
    <3> HIDE DEF n
    <3>1. n - 1 + 1 = n
      BY <2>1
    <3>2. (IF 1 <= n THEN n - 1 + 1 ELSE 0) = n
      BY <2>1
    <3> QED BY <2>5, <3>1, <3>2
  <2>7. \A i \in 1..n : 1 + i - 1 = i
    BY <2>1
  <2> QED BY <2>5, <2>6, <2>7, Zenon
<1>3. act' = <<>> <=> Len(act) = 1
  BY <1>1, <1>2
<1> QED BY <1>1, <1>2, <1>3 DEF Top, Depth

-----------------------------------------------------------------------------
(***************************************************************************)
(* What a step of the innermost call keeps.                                *)
(***************************************************************************)

\* The entries of the calls stay stacked when the innermost one keeps its base
\* and used_size follows what it counts.
LEMMA GotoStacked ==
  ASSUME StackInv, act # <<>>, NEW a \in Activation, Goto(a),
         a.base = Top.base, used' = Top.base + Count(a)
  PROVE  Nested' /\ Stacked'
<1>1. /\ act' # <<>> /\ Len(act') = Len(act) /\ Len(act) \in Nat /\ Len(act) >= 1
      /\ act'[Len(act)] = a
      /\ \A i \in 1..Len(act) : i # Len(act) => act'[i] = act[i]
  BY GotoFacts DEF StackInv, TypeOK, Top, Depth
<1>2. \A i \in 1..Len(act) : act'[i].base = act[i].base
  BY <1>1 DEF Top, Depth
<1>3. Nested'
  BY <1>1 DEF StackInv, Nested
<1>4. act'[1].base = 0 /\ used' = Top'.base + Count(Top)'
  BY <1>1, <1>2 DEF StackInv, Stacked, Top, Depth, Count, Claimed
<1>5. \A i \in 1..(Len(act') - 1) : act'[i + 1].base = act'[i].base + Count(act'[i])
  BY <1>1, <1>2 DEF StackInv, Stacked
<1>6. \A i, j \in 1..Len(act') : i < j => act'[i].base + Count(act'[i]) <= act'[j].base
  BY <1>1, <1>2 DEF StackInv, Stacked
<1> QED BY <1>1, <1>3, <1>4, <1>5, <1>6 DEF Stacked, Count, Claimed

\* Space that was found is not lost when the stack does not shrink, and the
\* registers of the other calls are theirs.
LEMMA GotoRoom ==
  ASSUME StackInv, act # <<>>, NEW a \in Activation, Goto(a),
         real' \in Nat, real' >= real,
         HasRoom(a) => a.base + 1 <= real', used' <= real',
         a.pc \in {"ptr", "store", "reload", "fetch"} => a.r6 = a.base + 1,
         a.pc \in {"store", "fetch"} => a.r5 = ptr'
  PROVE  Room' /\ Registers'
<1>1. /\ act' # <<>> /\ Len(act') = Len(act) /\ Len(act) \in Nat /\ Len(act) >= 1
      /\ act'[Len(act)] = a /\ Top' = a
      /\ \A i \in 1..Len(act) : i # Len(act) => act'[i] = act[i]
  BY GotoFacts DEF StackInv, TypeOK, Top, Depth
<1>2. Room'
  <2> SUFFICES ASSUME NEW i \in 1..Len(act), HasRoom(act'[i])
               PROVE  act'[i].base + 1 <= real'
    BY <1>1 DEF Room, HasRoom
  <2>1. CASE i = Len(act)
    BY <1>1, <2>1
  <2>2. CASE i # Len(act)
    <3>1. act[i].base \in Nat /\ real \in Nat
      BY ActFields DEF StackInv, TypeOK
    <3> QED BY <1>1, <2>2, <3>1 DEF StackInv, Room, HasRoom
  <2> QED BY <2>1, <2>2
<1>3. Registers'
  BY <1>1 DEF StackInv, Registers
<1> QED BY <1>2, <1>3

\* The saved entries of the other calls are where they were, or where they were
\* copied to.
LEMMA GotoSaved ==
  ASSUME StackInv, act # <<>>, NEW a \in Activation, Goto(a),
         \A i \in 1..Len(act) : i # Len(act) /\ Saved(act[i]) =>
            /\ act[i].base + 1 \in DOMAIN mem'[Current']
            /\ mem'[Current'][act[i].base + 1] = mem[Current][act[i].base + 1],
         Saved(a) => /\ a.base + 1 \in DOMAIN mem'[Current']
                     /\ mem'[Current'][a.base + 1] = a.site
  PROVE  CallersSaved'
<1>1. /\ act' # <<>> /\ Len(act') = Len(act) /\ Len(act) \in Nat /\ Len(act) >= 1
      /\ act' \in Seq(Activation)
      /\ act'[Len(act)] = a
      /\ \A i \in 1..Len(act) : i # Len(act) => act'[i] = act[i]
  BY GotoFacts DEF StackInv, TypeOK, Top, Depth
<1>2. DOMAIN act' = 1..Len(act) /\ DOMAIN act = 1..Len(act)
  BY <1>1 DEF StackInv, TypeOK
<1> SUFFICES ASSUME NEW i \in 1..Len(act), Saved(act'[i])
             PROVE  /\ act'[i].base + 1 \in DOMAIN mem'[Current']
                    /\ mem'[Current'][act'[i].base + 1] = act'[i].site
  BY <1>2 DEF CallersSaved, Saved
<1>3. CASE i = Len(act)
  BY <1>1, <1>3
<1>4. CASE i # Len(act)
  BY <1>1, <1>2, <1>4 DEF StackInv, CallersSaved
<1> QED BY <1>3, <1>4

\* What the invariant says of the innermost call.
LEMMA TopFacts ==
  ASSUME StackInv, act # <<>>
  PROVE  /\ act \in Seq(Activation) /\ Len(act) \in Nat /\ Len(act) >= 1
         /\ Top \in Activation /\ Top = act[Len(act)]
         /\ Top.base \in Nat /\ Top.r6 \in Nat /\ Top.pc \in Place
         /\ Top.site \in Site /\ Top.old_size \in Nat
         /\ real \in Nat /\ used \in Nat /\ ptr \in Address
         /\ target \in Version \cup {NULL}
         /\ used = Top.base + Count(Top)
         /\ HasRoom(Top) => Top.base + 1 <= real
         /\ used <= real
         /\ Top.pc \in {"ptr", "store", "reload", "fetch"} => Top.r6 = Top.base + 1
         /\ Top.pc \in {"store", "fetch"} => Top.r5 = ptr
         /\ Saved(Top) => /\ Top.base + 1 \in DOMAIN mem[ptr]
                          /\ mem[ptr][Top.base + 1] = Top.site
<1>1. act \in Seq(Activation) /\ Len(act) \in Nat /\ Len(act) >= 1 /\ DOMAIN act = 1..Len(act)
  BY DEF StackInv, TypeOK
<1>2. Top = act[Len(act)] /\ Len(act) \in 1..Len(act) /\ Top \in Activation
  BY <1>1 DEF Top, Depth
<1>3. Top.base \in Nat /\ Top.r6 \in Nat /\ Top.pc \in Place /\ Top.site \in Site
      /\ Top.old_size \in Nat
  BY <1>2 DEF Activation
<1>4. real \in Nat /\ used \in Nat /\ ptr \in Address /\ target \in Version \cup {NULL}
  BY DEF StackInv, TypeOK
<1>5. used = Top.base + Count(Top)
  BY DEF StackInv, Stacked
<1>6. (HasRoom(Top) => Top.base + 1 <= real) /\ used <= real
  BY <1>2 DEF StackInv, Room
<1>7. /\ Top.pc \in {"ptr", "store", "reload", "fetch"} => Top.r6 = Top.base + 1
      /\ Top.pc \in {"store", "fetch"} => Top.r5 = ptr
  BY <1>2 DEF StackInv, Registers
<1>8. Saved(Top) => /\ Top.base + 1 \in DOMAIN mem[ptr]
                    /\ mem[ptr][Top.base + 1] = Top.site
  <2>1. Saved(Top) => Current = ptr
    BY DEF Saved, Current
  <2> QED BY <1>1, <1>2, <2>1 DEF StackInv, CallersSaved
<1> QED BY <1>1, <1>2, <1>3, <1>4, <1>5, <1>6, <1>7, <1>8

\* Outside the replacement of the mapping, a call goes on as `a` where the
\* trampoline lets it.
Plain(a) ==
  /\ a.base = Top.base /\ a.site = Top.site
  /\ used' \in Nat /\ used' = Top.base + Count(a)
  /\ a.pc \notin {"map", "copy", "set"} /\ Top.pc \notin {"map", "copy", "set"}
  /\ a.pc = "expand" => real <= used'
  /\ (HasRoom(a) => a.base + 1 <= real) /\ used' <= real
  /\ a.pc \in {"ptr", "store", "reload", "fetch"} => a.r6 = a.base + 1
  /\ a.pc \in {"store", "fetch"} => a.r5 = ptr
  /\ Saved(a) => Saved(Top)

\* Mappings and their size are left alone, and so is everything but the thread.
Untouched ==
  mem' = mem /\ ptr' = ptr /\ real' = real /\ UNCHANGED <<codeVars, status, exits>>

\* Such a step keeps the invariant.
LEMMA PlainStep ==
  ASSUME StackInv, act # <<>>, NEW a \in Activation, Goto(a), Untouched, Plain(a)
  PROVE  StackInv'
<1> USE DEF Plain, Untouched
<1>1. act' # <<>> /\ Len(act') = Len(act) /\ Top' = a /\ act' \in Seq(Activation)
  BY GotoFacts, TopFacts
<1>2. Nested' /\ Stacked'
  BY GotoStacked
<1>3. Room' /\ Registers'
  <2>1. real' \in Nat /\ real' >= real /\ (HasRoom(a) => a.base + 1 <= real') /\ used' <= real'
    BY TopFacts
  <2> QED BY <2>1, GotoRoom
<1>4. Current = ptr /\ Current' = ptr
  BY <1>1 DEF Current
<1>5. CallersSaved'
  <2>1. \A i \in 1..Len(act) : Saved(act[i]) => act[i].base + 1 \in DOMAIN mem[ptr]
    BY <1>4, TopFacts DEF StackInv, CallersSaved
  <2> QED BY <1>4, <2>1, TopFacts, GotoSaved
<1>6. Mapped' /\ CalledWhenFull'
  BY <1>1 DEF StackInv, Mapped, CalledWhenFull
<1>7. TypeOK' /\ NeverLost'
  BY <1>1 DEF StackInv, TypeOK, NeverLost, codeVars
<1> QED BY <1>2, <1>3, <1>5, <1>6, <1>7 DEF StackInv

-----------------------------------------------------------------------------
(***************************************************************************)
(* The trampoline, one lemma per action.                                   *)
(***************************************************************************)

\* Reading the target leaves the stack alone.
LEMMA LoadTargetKeeps ==
  ASSUME StackInv, LoadTarget
  PROVE  StackInv'
<1> DEFINE a == [Top EXCEPT !.pc = "check", !.ctr = target]
<1>1. act # <<>> /\ Goto(a)
  BY DEF LoadTarget, At
<1>2. Untouched
  BY DEF LoadTarget, stackVars, Untouched
<1>3. /\ Top \in Activation /\ Top.pc \in Place /\ Top.base \in Nat /\ used \in Nat
      /\ real \in Nat /\ ptr \in Address /\ target \in Version \cup {NULL}
      /\ Top.r6 \in Nat /\ used = Top.base + Count(Top)
  BY <1>1, TopFacts
<1>4. used + 1 \in Nat /\ (IF real <= used THEN "expand" ELSE "claim") \in Place
  BY <1>3 DEF Place
<1>5. a \in Activation
  BY <1>3, <1>4 DEF Activation, Place
<1>6. Plain(a)
  <2>1. used' \in Nat /\ used' = Top.base + Count(a) /\ a.base = Top.base /\ a.site = Top.site
    BY <1>3, <1>4 DEF LoadTarget, At, Activation, Count, Claimed, stackVars
  <2>2. /\ a.pc \notin {"map", "copy", "set"}
        /\ Top.pc \notin {"map", "copy", "set"}
        /\ Saved(a) => Saved(Top)
    BY <1>3 DEF LoadTarget, At, Activation, Saved
  <2>3. /\ a.pc = "expand" => real <= used'
        /\ (HasRoom(a) => a.base + 1 <= real) /\ used' <= real
        /\ a.pc \in {"ptr", "store", "reload", "fetch"} => a.r6 = a.base + 1
        /\ a.pc \in {"store", "fetch"} => a.r5 = ptr
    BY <1>1, <1>3, TopFacts DEF LoadTarget, At, Activation, HasRoom, Claimed, Count, stackVars
  <2> QED BY <2>1, <2>2, <2>3 DEF Plain
<1> HIDE DEF a
<1> QED BY <1>1, <1>2, <1>5, <1>6, PlainStep

\* The comparison of real_size and used_size leaves the stack alone.
LEMMA CheckSpaceKeeps ==
  ASSUME StackInv, CheckSpace
  PROVE  StackInv'
<1> DEFINE a == [Top EXCEPT !.pc = IF real <= used THEN "expand" ELSE "claim"]
<1>1. act # <<>> /\ Goto(a)
  BY DEF CheckSpace, At
<1>2. Untouched
  BY DEF CheckSpace, stackVars, Untouched
<1>3. /\ Top \in Activation /\ Top.pc \in Place /\ Top.base \in Nat /\ used \in Nat
      /\ real \in Nat /\ ptr \in Address /\ target \in Version \cup {NULL}
      /\ Top.r6 \in Nat /\ used = Top.base + Count(Top)
  BY <1>1, TopFacts
<1>4. used + 1 \in Nat /\ (IF real <= used THEN "expand" ELSE "claim") \in Place
  BY <1>3 DEF Place
<1>5. a \in Activation
  BY <1>3, <1>4 DEF Activation, Place
<1>6. Plain(a)
  <2>1. used' \in Nat /\ used' = Top.base + Count(a) /\ a.base = Top.base /\ a.site = Top.site
    BY <1>3, <1>4 DEF CheckSpace, At, Activation, Count, Claimed, stackVars
  <2>2. /\ a.pc \notin {"map", "copy", "set"}
        /\ Top.pc \notin {"map", "copy", "set"}
        /\ Saved(a) => Saved(Top)
    BY <1>3 DEF CheckSpace, At, Activation, Saved
  <2>3. /\ a.pc = "expand" => real <= used'
        /\ (HasRoom(a) => a.base + 1 <= real) /\ used' <= real
        /\ a.pc \in {"ptr", "store", "reload", "fetch"} => a.r6 = a.base + 1
        /\ a.pc \in {"store", "fetch"} => a.r5 = ptr
    BY <1>1, <1>3, TopFacts DEF CheckSpace, At, Activation, HasRoom, Claimed, Count, stackVars
  <2> QED BY <2>1, <2>2, <2>3 DEF Plain
<1> HIDE DEF a
<1> QED BY <1>1, <1>2, <1>5, <1>6, PlainStep

\* Taking an entry: there is room, as the comparison found, whatever has
\* interrupted the call since.
LEMMA ClaimKeeps ==
  ASSUME StackInv, Claim
  PROVE  StackInv'
<1> DEFINE a == [Top EXCEPT !.pc = "ptr", !.r6 = used + 1]
<1>1. act # <<>> /\ Goto(a)
  BY DEF Claim, At
<1>2. Untouched
  BY DEF Claim, stackVars, Untouched
<1>3. /\ Top \in Activation /\ Top.pc \in Place /\ Top.base \in Nat /\ used \in Nat
      /\ real \in Nat /\ ptr \in Address /\ target \in Version \cup {NULL}
      /\ Top.r6 \in Nat /\ used = Top.base + Count(Top)
  BY <1>1, TopFacts
<1>4. used + 1 \in Nat /\ (IF real <= used THEN "expand" ELSE "claim") \in Place
  BY <1>3 DEF Place
<1>5. a \in Activation
  BY <1>3, <1>4 DEF Activation, Place
<1>6. Plain(a)
  <2>1. used' \in Nat /\ used' = Top.base + Count(a) /\ a.base = Top.base /\ a.site = Top.site
    BY <1>3, <1>4 DEF Claim, At, Activation, Count, Claimed, stackVars
  <2>2. /\ a.pc \notin {"map", "copy", "set"}
        /\ Top.pc \notin {"map", "copy", "set"}
        /\ Saved(a) => Saved(Top)
    BY <1>3 DEF Claim, At, Activation, Saved
  <2>3. /\ a.pc = "expand" => real <= used'
        /\ (HasRoom(a) => a.base + 1 <= real) /\ used' <= real
        /\ a.pc \in {"ptr", "store", "reload", "fetch"} => a.r6 = a.base + 1
        /\ a.pc \in {"store", "fetch"} => a.r5 = ptr
    BY <1>1, <1>3, TopFacts DEF Claim, At, Activation, HasRoom, Claimed, Count, stackVars
  <2> QED BY <2>1, <2>2, <2>3 DEF Plain
<1> HIDE DEF a
<1> QED BY <1>1, <1>2, <1>5, <1>6, PlainStep

\* Loading the address of the mapping to store.
LEMMA PushPtrKeeps ==
  ASSUME StackInv, LoadPtr("ptr", "store")
  PROVE  StackInv'
<1> DEFINE a == [Top EXCEPT !.pc = "store", !.r5 = ptr]
<1>1. act # <<>> /\ Goto(a)
  BY DEF LoadPtr, At
<1>2. Untouched
  BY DEF LoadPtr, stackVars, Untouched
<1>3. /\ Top \in Activation /\ Top.pc \in Place /\ Top.base \in Nat /\ used \in Nat
      /\ real \in Nat /\ ptr \in Address /\ target \in Version \cup {NULL}
      /\ Top.r6 \in Nat /\ used = Top.base + Count(Top)
  BY <1>1, TopFacts
<1>4. used + 1 \in Nat /\ (IF real <= used THEN "expand" ELSE "claim") \in Place
  BY <1>3 DEF Place
<1>5. a \in Activation
  BY <1>3, <1>4 DEF Activation, Place
<1>6. Plain(a)
  <2>1. used' \in Nat /\ used' = Top.base + Count(a) /\ a.base = Top.base /\ a.site = Top.site
    BY <1>3, <1>4 DEF LoadPtr, At, Activation, Count, Claimed, stackVars
  <2>2. /\ a.pc \notin {"map", "copy", "set"}
        /\ Top.pc \notin {"map", "copy", "set"}
        /\ Saved(a) => Saved(Top)
    BY <1>3 DEF LoadPtr, At, Activation, Saved
  <2>3. /\ a.pc = "expand" => real <= used'
        /\ (HasRoom(a) => a.base + 1 <= real) /\ used' <= real
        /\ a.pc \in {"ptr", "store", "reload", "fetch"} => a.r6 = a.base + 1
        /\ a.pc \in {"store", "fetch"} => a.r5 = ptr
    BY <1>1, <1>3, TopFacts DEF LoadPtr, At, Activation, HasRoom, Claimed, Count, stackVars
  <2> QED BY <2>1, <2>2, <2>3 DEF Plain
<1> HIDE DEF a
<1> QED BY <1>1, <1>2, <1>5, <1>6, PlainStep

\* Loading the address of the mapping to fetch.
LEMMA PopPtrKeeps ==
  ASSUME StackInv, LoadPtr("reload", "fetch")
  PROVE  StackInv'
<1> DEFINE a == [Top EXCEPT !.pc = "fetch", !.r5 = ptr]
<1>1. act # <<>> /\ Goto(a)
  BY DEF LoadPtr, At
<1>2. Untouched
  BY DEF LoadPtr, stackVars, Untouched
<1>3. /\ Top \in Activation /\ Top.pc \in Place /\ Top.base \in Nat /\ used \in Nat
      /\ real \in Nat /\ ptr \in Address /\ target \in Version \cup {NULL}
      /\ Top.r6 \in Nat /\ used = Top.base + Count(Top)
  BY <1>1, TopFacts
<1>4. used + 1 \in Nat /\ (IF real <= used THEN "expand" ELSE "claim") \in Place
  BY <1>3 DEF Place
<1>5. a \in Activation
  BY <1>3, <1>4 DEF Activation, Place
<1>6. Plain(a)
  <2>1. used' \in Nat /\ used' = Top.base + Count(a) /\ a.base = Top.base /\ a.site = Top.site
    BY <1>3, <1>4 DEF LoadPtr, At, Activation, Count, Claimed, stackVars
  <2>2. /\ a.pc \notin {"map", "copy", "set"}
        /\ Top.pc \notin {"map", "copy", "set"}
        /\ Saved(a) => Saved(Top)
    BY <1>3 DEF LoadPtr, At, Activation, Saved
  <2>3. /\ a.pc = "expand" => real <= used'
        /\ (HasRoom(a) => a.base + 1 <= real) /\ used' <= real
        /\ a.pc \in {"ptr", "store", "reload", "fetch"} => a.r6 = a.base + 1
        /\ a.pc \in {"store", "fetch"} => a.r5 = ptr
    BY <1>1, <1>3, TopFacts DEF LoadPtr, At, Activation, HasRoom, Claimed, Count, stackVars
  <2> QED BY <2>1, <2>2, <2>3 DEF Plain
<1> HIDE DEF a
<1> QED BY <1>1, <1>2, <1>5, <1>6, PlainStep

\* Giving up the entry: it is the one of this call.
LEMMA PopKeeps ==
  ASSUME StackInv, Pop
  PROVE  StackInv'
<1> DEFINE a == [Top EXCEPT !.pc = "reload", !.r6 = used]
<1>1. act # <<>> /\ Goto(a)
  BY DEF Pop, At
<1>2. Untouched
  BY DEF Pop, stackVars, Untouched
<1>3. /\ Top \in Activation /\ Top.pc \in Place /\ Top.base \in Nat /\ used \in Nat
      /\ real \in Nat /\ ptr \in Address /\ target \in Version \cup {NULL}
      /\ Top.r6 \in Nat /\ used = Top.base + Count(Top)
  BY <1>1, TopFacts
<1>4. used + 1 \in Nat /\ (IF real <= used THEN "expand" ELSE "claim") \in Place
  BY <1>3 DEF Place
<1>5. a \in Activation
  BY <1>3, <1>4 DEF Activation, Place
<1>6. Plain(a)
  <2>1. used' \in Nat /\ used' = Top.base + Count(a) /\ a.base = Top.base /\ a.site = Top.site
    BY <1>3, <1>4 DEF Pop, At, Activation, Count, Claimed, stackVars
  <2>2. /\ a.pc \notin {"map", "copy", "set"}
        /\ Top.pc \notin {"map", "copy", "set"}
        /\ Saved(a) => Saved(Top)
    BY <1>3 DEF Pop, At, Activation, Saved
  <2>3. /\ a.pc = "expand" => real <= used'
        /\ (HasRoom(a) => a.base + 1 <= real) /\ used' <= real
        /\ a.pc \in {"ptr", "store", "reload", "fetch"} => a.r6 = a.base + 1
        /\ a.pc \in {"store", "fetch"} => a.r5 = ptr
    BY <1>1, <1>3, TopFacts DEF Pop, At, Activation, HasRoom, Claimed, Count, stackVars
  <2> QED BY <2>1, <2>2, <2>3 DEF Plain
<1> HIDE DEF a
<1> QED BY <1>1, <1>2, <1>5, <1>6, PlainStep

\* Writing one entry of a mapping.
LEMMA MemStore ==
  ASSUME mem \in [Address -> Seq(Entry)], NEW p \in Address, NEW k \in DOMAIN mem[p],
         NEW x \in Entry, mem' = [mem EXCEPT ![p][k] = x]
  PROVE  /\ mem' \in [Address -> Seq(Entry)]
         /\ \A q \in Address : /\ Len(mem'[q]) = Len(mem[q])
                               /\ DOMAIN mem'[q] = DOMAIN mem[q]
                               /\ mem'[q] = <<>> <=> mem[q] = <<>>
         /\ \A j \in DOMAIN mem[p] : mem'[p][j] = IF j = k THEN x ELSE mem[p][j]
<1>1. mem[p] \in Seq(Entry) /\ k \in 1..Len(mem[p])
  OBVIOUS
<1>2. mem' = [mem EXCEPT ![p] = [mem[p] EXCEPT ![k] = x]]
  OBVIOUS
<1>3. /\ [mem[p] EXCEPT ![k] = x] \in Seq(Entry)
      /\ Len([mem[p] EXCEPT ![k] = x]) = Len(mem[p])
      /\ DOMAIN [mem[p] EXCEPT ![k] = x] = DOMAIN mem[p]
  BY <1>1, ExceptSeq
<1>4. \A q \in Address : mem'[q] = IF q = p THEN [mem[p] EXCEPT ![k] = x] ELSE mem[q]
  BY <1>2
<1>5. mem' \in [Address -> Seq(Entry)]
  BY <1>2, <1>3
<1>6. \A q \in Address : Len(mem'[q]) = Len(mem[q]) /\ DOMAIN mem'[q] = DOMAIN mem[q]
  BY <1>3, <1>4
<1>7. \A q \in Address : mem'[q] = <<>> <=> mem[q] = <<>>
  BY <1>5, <1>6, EmptySeq
<1>8. \A j \in DOMAIN mem[p] : mem'[p][j] = IF j = k THEN x ELSE mem[p][j]
  BY <1>4
<1> QED BY <1>5, <1>6, <1>7, <1>8

\* The entry that is written is within the mapping, and nobody else's.
LEMMA StoreKeeps ==
  ASSUME StackInv, Store
  PROVE  StackInv'
<1> DEFINE a == [Top EXCEPT !.pc = "body", !.r5 = NULL, !.r6 = 0]
<1>1. act # <<>> /\ Top.pc = "store"
  BY DEF Store, At
<1>2. /\ Top \in Activation /\ Top.base \in Nat /\ Top.site \in Site /\ used \in Nat
      /\ real \in Nat /\ ptr \in Address /\ used <= real
      /\ Top.r5 = ptr /\ Top.r6 = Top.base + 1 /\ Top.base + 1 <= real
      /\ used = Top.base + 1 /\ Top = act[Len(act)] /\ Len(act) \in Nat /\ Len(act) >= 1
      /\ act \in Seq(Activation)
  BY <1>1, TopFacts DEF HasRoom, Count, Claimed
<1>3. /\ mem \in [Address -> Seq(Entry)] /\ Len(mem[ptr]) = real
      /\ Top.base + 1 \in DOMAIN mem[ptr]
  <2>1. mem \in [Address -> Seq(Entry)] /\ Len(mem[ptr]) = real
    BY <1>1 DEF StackInv, TypeOK, Mapped
  <2> QED BY <1>2, <2>1
<1>4. /\ mem' = [mem EXCEPT ![ptr][Top.base + 1] = Top.site]
      /\ Goto(a)
      /\ status' = status /\ real' = real /\ used' = used /\ ptr' = ptr
      /\ UNCHANGED <<codeVars, exits>>
  BY <1>2, <1>3 DEF Store, stackVars
<1>5. /\ a \in Activation /\ a.base = Top.base /\ a.site = Top.site
      /\ a.pc = "body" /\ Count(a) = 1
  BY <1>2 DEF Activation, Place, Address, Count, Claimed
<1>6. /\ mem' \in [Address -> Seq(Entry)]
      /\ \A q \in Address : /\ Len(mem'[q]) = Len(mem[q])
                            /\ DOMAIN mem'[q] = DOMAIN mem[q]
                            /\ mem'[q] = <<>> <=> mem[q] = <<>>
      /\ \A j \in DOMAIN mem[ptr] :
            mem'[ptr][j] = IF j = Top.base + 1 THEN Top.site ELSE mem[ptr][j]
  <2>1. Top.site \in Entry
    BY <1>2 DEF Entry
  <2> QED BY <1>2, <1>3, <1>4, <2>1, MemStore
<1> HIDE DEF a
<1>7. act' # <<>> /\ Top' = a /\ act' \in Seq(Activation)
  BY <1>1, <1>2, <1>4, <1>5, GotoFacts
<1>8. Nested' /\ Stacked'
  BY <1>1, <1>2, <1>4, <1>5, GotoStacked
<1>9. Room' /\ Registers'
  BY <1>1, <1>2, <1>4, <1>5, GotoRoom
<1>10. Current = ptr /\ Current' = ptr
  BY <1>1, <1>4, <1>5, <1>7 DEF Current
<1>11. CallersSaved'
  <2>1. ASSUME NEW i \in 1..Len(act), i # Len(act), Saved(act[i])
        PROVE  /\ act[i].base + 1 \in DOMAIN mem[ptr]
               /\ act[i].base + 1 # Top.base + 1
    <3>1. act[i].base + 1 \in DOMAIN mem[ptr] /\ act[i].base \in Nat
      BY <1>2, <1>10, <2>1, ActFields DEF StackInv, CallersSaved
    <3>2. act[i].pc = "body"
      BY <1>2, <2>1 DEF StackInv, Nested, SafePlace, Saved
    <3>3. act[i].base + 1 <= Top.base
      BY <1>2, <2>1, <3>2 DEF StackInv, Stacked, Count, Claimed
    <3> QED BY <1>2, <3>1, <3>3
  <2>2. DOMAIN mem'[ptr] = DOMAIN mem[ptr]
    <3>1. mem'[ptr] \in Seq(Entry) /\ mem[ptr] \in Seq(Entry) /\ Len(mem'[ptr]) = Len(mem[ptr])
      BY <1>2, <1>3, <1>6
    <3> QED BY <3>1
  <2>3. \A i \in 1..Len(act) : i # Len(act) /\ Saved(act[i]) =>
           /\ act[i].base + 1 \in DOMAIN mem'[Current']
           /\ mem'[Current'][act[i].base + 1] = mem[Current][act[i].base + 1]
    BY <1>6, <1>10, <2>1, <2>2
  <2>4. /\ a.base + 1 \in DOMAIN mem'[Current']
        /\ mem'[Current'][a.base + 1] = a.site
    BY <1>3, <1>5, <1>6, <1>10, <2>2
  <2> QED BY <1>1, <1>4, <1>5, <2>3, <2>4, GotoSaved
<1>12. Mapped'
  BY <1>1, <1>2, <1>4, <1>5, <1>6, <1>7 DEF StackInv, Mapped, Address
<1>13. CalledWhenFull'
  BY <1>1, <1>4, <1>5, <1>6, <1>7 DEF StackInv, CalledWhenFull, Address
<1>14. TypeOK' /\ NeverLost'
  BY <1>4, <1>6, <1>7 DEF StackInv, TypeOK, NeverLost, codeVars
<1> QED BY <1>8, <1>9, <1>11, <1>12, <1>13, <1>14 DEF StackInv

\* The caller is found, and the call before this one goes on with the stack as
\* it left it.
LEMMA FetchKeeps ==
  ASSUME StackInv, Fetch
  PROVE  StackInv'
<1>1. act # <<>> /\ Top.pc = "fetch"
  BY DEF Fetch, At
<1>2. /\ Top \in Activation /\ Top.base \in Nat
      /\ Top.r5 = ptr /\ Top.r6 = Top.base + 1
      /\ Top.base + 1 \in DOMAIN mem[ptr] /\ mem[ptr][Top.base + 1] = Top.site
      /\ used = Top.base /\ Top = act[Len(act)] /\ Len(act) \in Nat /\ Len(act) >= 1
      /\ act \in Seq(Activation)
  BY <1>1, TopFacts DEF Saved, Count, Claimed
<1>3. /\ act' = SubSeq(act, 1, Depth - 1) /\ status' = status
      /\ mem' = mem /\ real' = real /\ used' = used /\ ptr' = ptr
      /\ UNCHANGED <<codeVars, exits>>
  BY <1>2 DEF Fetch, stackVars
<1>4. /\ act' \in Seq(Activation) /\ Len(act') = Len(act) - 1
      /\ act' = <<>> <=> Len(act) = 1
      /\ act' # <<>> => Top' = act[Len(act) - 1] /\ Len(act) >= 2
      /\ \A i \in 1..(Len(act) - 1) : act'[i] = act[i]
  BY <1>1, <1>2, <1>3, ReturnFacts
<1>5. act' # <<>> => Top'.pc \in SafePlace
  BY <1>2, <1>4 DEF StackInv, Nested
<1>6. Nested'
  BY <1>2, <1>4 DEF StackInv, Nested
<1>7. Stacked'
  <2>1. act' = <<>> => used' = 0
    BY <1>1, <1>2, <1>3, <1>4 DEF StackInv, Stacked
  <2>2. act' # <<>> => act'[1].base = 0 /\ used' = Top'.base + Count(Top')
    <3> SUFFICES ASSUME act' # <<>>
                 PROVE  act'[1].base = 0 /\ used' = Top'.base + Count(Top')
      OBVIOUS
    <3>1. Len(act) - 1 \in 1..(Len(act) - 1) /\ 1 \in 1..(Len(act) - 1)
          /\ (Len(act) - 1) + 1 = Len(act)
      BY <1>2, <1>4
    <3>2. act[Len(act)].base = act[Len(act) - 1].base + Count(act[Len(act) - 1])
      BY <3>1 DEF StackInv, Stacked
    <3>3. act'[1].base = 0
      BY <1>1, <1>4, <3>1 DEF StackInv, Stacked
    <3> QED BY <1>2, <1>3, <1>4, <3>2, <3>3
  <2>3. \A i \in 1..(Len(act') - 1) : act'[i + 1].base = act'[i].base + Count(act'[i])
    BY <1>2, <1>4 DEF StackInv, Stacked
  <2>4. \A i, j \in 1..Len(act') : i < j => act'[i].base + Count(act'[i]) <= act'[j].base
    <3>1. \A i \in 1..Len(act') : i \in 1..Len(act) /\ act'[i] = act[i]
      BY <1>2, <1>4
    <3>2. \A i, j \in 1..Len(act) : i < j => act[i].base + Count(act[i]) <= act[j].base
      BY DEF StackInv, Stacked
    <3> QED BY <3>1, <3>2
  <2> QED BY <2>1, <2>2, <2>3, <2>4 DEF Stacked, Count, Claimed
<1>8. Room' /\ Registers'
  <2>1. /\ \A i \in 1..Len(act') : i \in 1..Len(act) /\ act'[i] = act[i]
        /\ act' # <<>> => Top'.pc \notin {"store", "fetch"}
    BY <1>2, <1>4, <1>5 DEF SafePlace
  <2>2. Room'
    BY <1>3, <2>1 DEF StackInv, Room, HasRoom
  <2>3. Registers'
    BY <2>1 DEF StackInv, Registers
  <2> QED BY <2>2, <2>3
<1>9. Current = ptr /\ Current' = ptr
  BY <1>1, <1>3, <1>5 DEF Current, SafePlace
<1>10. CallersSaved'
  <2>1. DOMAIN act' = 1..(Len(act) - 1) /\ DOMAIN act = 1..Len(act)
    BY <1>2, <1>4
  <2> QED BY <1>2, <1>3, <1>4, <1>9, <2>1 DEF StackInv, CallersSaved, Saved
<1>11. Mapped'
  BY <1>1, <1>3, <1>5 DEF StackInv, Mapped, SafePlace
<1>12. CalledWhenFull'
  BY <1>1, <1>3, <1>5 DEF StackInv, CalledWhenFull, SafePlace
<1>13. TypeOK' /\ NeverLost'
  BY <1>3, <1>4 DEF StackInv, TypeOK, NeverLost, codeVars
<1> QED BY <1>6, <1>7, <1>8, <1>10, <1>11, <1>12, <1>13 DEF StackInv

-----------------------------------------------------------------------------
(***************************************************************************)
(* ulp_stack_helper, one lemma per action.                                 *)
(***************************************************************************)

\* The size is raised enough for the call that waits for it.
LEMMA HelperSizeKeeps ==
  ASSUME StackInv, HelperSize
  PROVE  StackInv'
<1> DEFINE a == [Top EXCEPT !.pc = "map", !.old_size = real]
<1>1. act # <<>> /\ Top.pc = "expand" /\ Goto(a)
  BY DEF HelperSize, At
<1>2. /\ mem' = mem /\ used' = used /\ ptr' = ptr /\ status' = status
      /\ real' = (real + Page) * 2 /\ UNCHANGED <<codeVars, exits>>
  BY DEF HelperSize
<1>3. /\ Top \in Activation /\ Top.base \in Nat /\ used \in Nat /\ real \in Nat
      /\ used <= real /\ used = Top.base /\ act \in Seq(Activation)
      /\ Top = act[Len(act)] /\ Len(act) \in Nat /\ Len(act) >= 1 /\ ptr \in Address
  BY <1>1, TopFacts DEF Count, Claimed
<1>4. real' \in Nat /\ real' >= real /\ used' <= real' /\ Top.base + 1 <= real' /\ real' > 0
  BY <1>2, <1>3, UlpStackAssumption
<1>5. /\ a \in Activation /\ a.base = Top.base /\ a.site = Top.site
      /\ a.pc = "map" /\ a.old_size = real /\ Count(a) = 0 /\ ~Saved(a)
  BY <1>3 DEF Activation, Place, Count, Claimed, Saved
<1> HIDE DEF a
<1>6. act' # <<>> /\ Top' = a /\ act' \in Seq(Activation)
  BY <1>1, <1>3, <1>5, GotoFacts
<1>7. Nested' /\ Stacked'
  BY <1>1, <1>2, <1>3, <1>5, GotoStacked
<1>8. Room' /\ Registers'
  BY <1>1, <1>2, <1>3, <1>4, <1>5, GotoRoom
<1>9. Current = ptr /\ Current' = ptr
  BY <1>1, <1>2, <1>5, <1>6 DEF Current
<1>10. CallersSaved'
  <2>1. \A i \in 1..Len(act) : Saved(act[i]) => act[i].base + 1 \in DOMAIN mem[ptr]
    BY <1>3, <1>9 DEF StackInv, CallersSaved
  <2> QED BY <1>1, <1>2, <1>5, <1>9, <2>1, GotoSaved
<1>11. Mapped'
  BY <1>1, <1>2, <1>4, <1>5, <1>6 DEF StackInv, Mapped
<1>12. CalledWhenFull'
  BY <1>1, <1>2, <1>5, <1>6 DEF StackInv, CalledWhenFull
<1>13. TypeOK' /\ NeverLost'
  BY <1>2, <1>4, <1>6 DEF StackInv, TypeOK, NeverLost, codeVars
<1> QED BY <1>7, <1>8, <1>10, <1>11, <1>12, <1>13 DEF StackInv

\* The new mapping is not the old one.
LEMMA HelperMapKeeps ==
  ASSUME StackInv, HelperMap
  PROVE  StackInv'
<1>1. act # <<>> /\ Top.pc = "map" /\ UNCHANGED <<codeVars, stackVars, exits>>
  BY DEF HelperMap, At
<1>2. CASE status' = "aborted" /\ UNCHANGED <<mem, act>>
  <2>1. Top' = Top /\ Current' = Current
    BY <1>1, <1>2 DEF Top, Depth, Current, stackVars
  <2>2. TypeOK' /\ NeverLost'
    BY <1>1, <1>2 DEF StackInv, TypeOK, NeverLost, codeVars, stackVars
  <2>3. Nested' /\ Stacked' /\ Room' /\ Registers'
    BY <1>1, <1>2, <2>1 DEF StackInv, Nested, Stacked, Room, Registers, stackVars, Count,
       Claimed, HasRoom
  <2>4. Mapped' /\ CallersSaved' /\ CalledWhenFull'
    BY <1>1, <1>2, <2>1 DEF StackInv, Mapped, CallersSaved, CalledWhenFull,
       stackVars, Saved
  <2> QED BY <2>2, <2>3, <2>4 DEF StackInv
<1>3. ASSUME NEW n \in Addr, mem[n] = <<>>,
             mem' = [mem EXCEPT ![n] = [k \in 1..real |-> NULL]],
             Goto([Top EXCEPT !.pc = "copy", !.old = ptr, !.new = n]), status' = status
      PROVE  StackInv'
  <2> DEFINE a == [Top EXCEPT !.pc = "copy", !.old = ptr, !.new = n]
  <2>1. Goto(a) /\ used' = used /\ ptr' = ptr /\ real' = real
    BY <1>1, <1>3 DEF stackVars
  <2>2. /\ Top \in Activation /\ Top.base \in Nat /\ used \in Nat /\ real \in Nat
        /\ used <= real /\ used = Top.base /\ act \in Seq(Activation)
        /\ Top = act[Len(act)] /\ Len(act) \in Nat /\ Len(act) >= 1 /\ ptr \in Address
        /\ Top.base + 1 <= real
    BY <1>1, TopFacts DEF Count, Claimed, HasRoom
  <2>3. /\ a \in Activation /\ a.base = Top.base /\ a.site = Top.site
        /\ a.pc = "copy" /\ a.old = ptr /\ a.new = n /\ a.old_size = Top.old_size
        /\ Count(a) = 0 /\ ~Saved(a)
    BY <2>2 DEF Activation, Place, Address, Count, Claimed, Saved
  <2> HIDE DEF a
  <2>4. /\ mem \in [Address -> Seq(Entry)] /\ real > 0 /\ Len(mem[ptr]) = Top.old_size
        /\ mem[NULL] = <<>> /\ (ptr # NULL => mem[ptr] # <<>>)
    BY <1>1 DEF StackInv, TypeOK, Mapped
  <2>5. n # ptr /\ n # NULL /\ n \in Address
    BY <1>3, <2>4, UlpStackAssumption DEF Address
  <2>6. [k \in 1..real |-> NULL] \in Seq(Entry) /\ Len([k \in 1..real |-> NULL]) = real
    BY <2>2 DEF Entry
  <2>7. /\ mem' \in [Address -> Seq(Entry)] /\ Len(mem'[n]) = real
        /\ \A q \in Address : q # n => mem'[q] = mem[q]
    BY <1>3, <2>4, <2>5, <2>6
  <2>8. act' # <<>> /\ Top' = a /\ act' \in Seq(Activation)
    BY <1>1, <2>1, <2>2, <2>3, GotoFacts
  <2>9. Nested' /\ Stacked'
    BY <1>1, <2>1, <2>2, <2>3, GotoStacked
  <2>10. Room' /\ Registers'
    BY <1>1, <2>1, <2>2, <2>3, GotoRoom
  <2>11. Current = ptr /\ Current' = ptr
    BY <1>1, <2>1, <2>3, <2>8 DEF Current
  <2>12. CallersSaved'
    <3>1. \A i \in 1..Len(act) : Saved(act[i]) => act[i].base + 1 \in DOMAIN mem[ptr]
      BY <2>2, <2>11 DEF StackInv, CallersSaved
    <3> QED BY <1>1, <2>1, <2>2, <2>3, <2>5, <2>7, <2>11, <3>1, GotoSaved
  <2>13. Mapped'
    <3>1. mem'[NULL] = <<>> /\ mem'[ptr] = mem[ptr]
      BY <2>2, <2>4, <2>5, <2>7 DEF Address
    <3> QED BY <2>1, <2>3, <2>4, <2>5, <2>7, <2>8, <3>1 DEF Mapped
  <2>14. CalledWhenFull'
    BY <1>1, <2>1, <2>3, <2>7, <2>8
       DEF StackInv, CalledWhenFull, Address
  <2>15. TypeOK' /\ NeverLost'
    BY <1>1, <1>3, <2>7, <2>8 DEF StackInv, TypeOK, NeverLost, codeVars, stackVars
  <2> QED BY <2>9, <2>10, <2>12, <2>13, <2>14, <2>15 DEF StackInv
<1> QED BY <1>2, <1>3 DEF HelperMap

\* Every entry in use is copied: it is below the old size and the new one.
LEMMA HelperCopyKeeps ==
  ASSUME StackInv, HelperCopy
  PROVE  StackInv'
<1> DEFINE a == [Top EXCEPT !.pc = "set"]
<1>1. act # <<>> /\ Top.pc = "copy" /\ Goto(a)
  BY DEF HelperCopy, At
<1>2. /\ used' = used /\ ptr' = ptr /\ real' = real /\ status' = status
      /\ UNCHANGED <<codeVars, exits>>
  BY DEF HelperCopy, stackVars
<1>3. /\ Top \in Activation /\ Top.base \in Nat /\ used \in Nat /\ real \in Nat
      /\ used <= real /\ used = Top.base /\ act \in Seq(Activation)
      /\ Top = act[Len(act)] /\ Len(act) \in Nat /\ Len(act) >= 1 /\ ptr \in Address
      /\ Top.base + 1 <= real /\ Top.old_size \in Nat
  BY <1>1, TopFacts DEF Count, Claimed, HasRoom
<1>4. /\ a \in Activation /\ a.base = Top.base /\ a.site = Top.site
      /\ a.pc = "set" /\ a.new = Top.new /\ Count(a) = 0 /\ ~Saved(a)
  BY <1>3 DEF Activation, Place, Count, Claimed, Saved
<1> HIDE DEF a
<1>5. /\ mem \in [Address -> Seq(Entry)] /\ real > 0 /\ Len(mem[ptr]) = Top.old_size
      /\ mem[NULL] = <<>> /\ Top.new \in Addr /\ Top.new # ptr
      /\ Len(mem[Top.new]) = real /\ Top.old = ptr
  BY <1>1 DEF StackInv, TypeOK, Mapped
<1>6. Top.new \in Address /\ Top.new # NULL
  BY <1>5, UlpStackAssumption DEF Address
<1>7. /\ Copied(Top) \in Seq(Entry) /\ Len(Copied(Top)) = real
      /\ \A k \in 1..real : k \in DOMAIN mem[ptr] => Copied(Top)[k] = mem[ptr][k]
  <2>1. DOMAIN mem[Top.new] = 1..real /\ DOMAIN mem[ptr] = 1..Top.old_size
    BY <1>3, <1>5, <1>6
  <2>2. \A k \in 1..Top.old_size : mem[ptr][k] \in Entry
    BY <1>3, <1>5
  <2>3. Copied(Top) = [k \in 1..real |-> IF k <= Top.old_size /\ k \in DOMAIN mem[ptr]
                                           THEN mem[ptr][k] ELSE NULL]
    BY <1>5, <2>1 DEF Copied
  <2>4. \A k \in 1..real : Copied(Top)[k] \in Entry
    BY <1>3, <2>1, <2>2, <2>3 DEF Entry
  <2>5. Copied(Top) \in Seq(Entry) /\ Len(Copied(Top)) = real
    BY <1>3, <2>3, <2>4
  <2> QED BY <1>3, <2>1, <2>3, <2>5
<1>8. /\ mem' \in [Address -> Seq(Entry)] /\ mem'[ptr] = <<>> /\ mem'[NULL] = <<>>
      /\ Len(mem'[Top.new]) = real
      /\ \A k \in DOMAIN mem[ptr] : k <= real =>
            k \in DOMAIN mem'[Top.new] /\ mem'[Top.new][k] = mem[ptr][k]
      /\ \A q \in Address : mem'[q] # <<>> => mem[q] # <<>>
  <2>1. CASE ptr # NULL
    <3>1. mem' = [[mem EXCEPT ![Top.new] = Copied(Top)] EXCEPT ![ptr] = <<>>]
      BY <1>5, <2>1 DEF HelperCopy
    <3>2. <<>> \in Seq(Entry)
      OBVIOUS
    <3>3. /\ mem' \in [Address -> Seq(Entry)]
          /\ \A q \in Address : mem'[q] = IF q = ptr THEN <<>>
                                            ELSE IF q = Top.new THEN Copied(Top) ELSE mem[q]
      BY <1>3, <1>5, <1>6, <1>7, <3>1, <3>2
    <3>4. /\ mem'[ptr] = <<>> /\ mem'[NULL] = <<>> /\ mem'[Top.new] = Copied(Top)
          /\ NULL \in Address
      BY <1>3, <1>5, <1>6, <2>1, <3>3 DEF Address
    <3>5. \A q \in Address : mem'[q] # <<>> => mem[q] # <<>>
      BY <1>5, <1>6, <3>3
    <3>6. \A k \in DOMAIN mem[ptr] : k <= real =>
            k \in DOMAIN mem'[Top.new] /\ mem'[Top.new][k] = mem[ptr][k]
      <4>1. DOMAIN mem[ptr] = 1..Top.old_size /\ DOMAIN Copied(Top) = 1..real
        BY <1>3, <1>5, <1>7
      <4> QED BY <1>3, <1>7, <3>4, <4>1
    <3> QED BY <1>7, <3>3, <3>4, <3>5, <3>6
  <2>2. CASE ptr = NULL
    BY <1>5, <2>2 DEF HelperCopy
  <2> QED BY <2>1, <2>2
<1>9. act' # <<>> /\ Top' = a /\ act' \in Seq(Activation)
  BY <1>1, <1>3, <1>4, GotoFacts
<1>10. Nested' /\ Stacked'
  BY <1>1, <1>2, <1>3, <1>4, GotoStacked
<1>11. Room' /\ Registers'
  BY <1>1, <1>2, <1>3, <1>4, GotoRoom
<1>12. Current = ptr /\ Current' = Top.new
  BY <1>1, <1>4, <1>9 DEF Current
<1>13. CallersSaved'
  <2>1. ASSUME NEW i \in 1..Len(act), i # Len(act), Saved(act[i])
        PROVE  /\ act[i].base + 1 \in DOMAIN mem[ptr]
               /\ act[i].base + 1 <= real
    <3>1. act[i].base + 1 \in DOMAIN mem[ptr]
      BY <1>3, <1>12, <2>1 DEF StackInv, CallersSaved
    <3>2. HasRoom(act[i])
      BY <1>3, <2>1 DEF StackInv, Nested, SafePlace, Saved, HasRoom
    <3> QED BY <3>1, <3>2 DEF StackInv, Room
  <2> QED BY <1>1, <1>4, <1>8, <1>12, <2>1, GotoSaved
<1>14. Mapped'
  BY <1>2, <1>4, <1>5, <1>8, <1>9 DEF Mapped
<1>15. CalledWhenFull'
  BY <1>1, <1>2, <1>4, <1>8, <1>9
     DEF StackInv, CalledWhenFull, Address
<1>16. TypeOK' /\ NeverLost'
  BY <1>2, <1>8, <1>9 DEF StackInv, TypeOK, NeverLost, codeVars
<1> QED BY <1>10, <1>11, <1>13, <1>14, <1>15, <1>16 DEF StackInv

\* The copy becomes the stack.
LEMMA HelperSetKeeps ==
  ASSUME StackInv, HelperSet
  PROVE  StackInv'
<1> DEFINE a == [Top EXCEPT !.pc = "claim", !.old = NULL, !.old_size = 0, !.new = NULL]
<1>1. act # <<>> /\ Top.pc = "set" /\ Goto(a)
  BY DEF HelperSet, At
<1>2. /\ used' = used /\ ptr' = Top.new /\ real' = real /\ status' = status /\ mem' = mem
      /\ UNCHANGED <<codeVars, exits>>
  BY DEF HelperSet
<1>3. /\ Top \in Activation /\ Top.base \in Nat /\ used \in Nat /\ real \in Nat
      /\ used <= real /\ used = Top.base /\ act \in Seq(Activation)
      /\ Top = act[Len(act)] /\ Len(act) \in Nat /\ Len(act) >= 1 /\ ptr \in Address
      /\ Top.base + 1 <= real
  BY <1>1, TopFacts DEF Count, Claimed, HasRoom
<1>4. /\ a \in Activation /\ a.base = Top.base /\ a.site = Top.site
      /\ a.pc = "claim" /\ Count(a) = 0 /\ ~Saved(a)
  BY <1>3 DEF Activation, Place, Address, Count, Claimed, Saved
<1> HIDE DEF a
<1>5. /\ mem \in [Address -> Seq(Entry)] /\ real > 0 /\ mem[NULL] = <<>>
      /\ Top.new \in Addr /\ Len(mem[Top.new]) = real /\ mem[ptr] = <<>>
  BY <1>1 DEF StackInv, TypeOK, Mapped
<1>6. Top.new \in Address /\ mem[Top.new] # <<>>
  BY <1>3, <1>5 DEF Address
<1>7. act' # <<>> /\ Top' = a /\ act' \in Seq(Activation)
  BY <1>1, <1>3, <1>4, GotoFacts
<1>8. Nested' /\ Stacked'
  BY <1>1, <1>2, <1>3, <1>4, GotoStacked
<1>9. Room' /\ Registers'
  BY <1>1, <1>2, <1>3, <1>4, GotoRoom
<1>10. Current = Top.new /\ Current' = Top.new
  BY <1>1, <1>2, <1>4, <1>7 DEF Current
<1>11. CallersSaved'
  <2>1. \A i \in 1..Len(act) : Saved(act[i]) => act[i].base + 1 \in DOMAIN mem[Current]
    BY <1>3 DEF StackInv, CallersSaved
  <2> QED BY <1>1, <1>2, <1>4, <1>10, <2>1, GotoSaved
<1>12. Mapped'
  BY <1>2, <1>4, <1>5, <1>6, <1>7 DEF Mapped
<1>13. CalledWhenFull'
  BY <1>1, <1>2, <1>4, <1>5, <1>7 DEF StackInv, CalledWhenFull
<1>14. TypeOK' /\ NeverLost'
  BY <1>2, <1>6, <1>7 DEF StackInv, TypeOK, NeverLost, codeVars
<1> QED BY <1>8, <1>9, <1>11, <1>12, <1>13, <1>14 DEF StackInv

-----------------------------------------------------------------------------
(***************************************************************************)
(* Calls, threads and patching.                                            *)
(***************************************************************************)

\* A call begins above the entries in use.
LEMMA CallKeeps ==
  ASSUME StackInv, Interruptible \subseteq SafePlace, NEW s \in Site, Call(s)
  PROVE  StackInv'
<1> DEFINE a == [pc |-> "prologue", site |-> s, ctr |-> NULL, r5 |-> NULL, r6 |-> 0,
                 old |-> NULL, old_size |-> 0, new |-> NULL, base |-> used]
<1>1. /\ act' = Append(act, a)
      /\ mem' = mem /\ used' = used /\ ptr' = ptr /\ real' = real /\ status' = status
      /\ UNCHANGED <<codeVars, exits>>
  BY DEF Call, stackVars
<1>2. act # <<>> => Top.pc \in SafePlace
  BY DEF Call
<1>3. act \in Seq(Activation) /\ used \in Nat /\ real \in Nat
  BY DEF StackInv, TypeOK
<1>4. a \in Activation /\ a.base = used /\ a.pc = "prologue" /\ Count(a) = 0
  BY <1>3 DEF Activation, Place, Address, Count, Claimed
<1> HIDE DEF a
<1>5. /\ act' \in Seq(Activation) /\ act' # <<>> /\ Len(act') = Len(act) + 1
      /\ Len(act) \in Nat /\ Top' = a /\ act'[Len(act) + 1] = a
      /\ \A i \in 1..Len(act) : act'[i] = act[i]
      /\ act # <<>> => Top = act[Len(act)] /\ Len(act) >= 1
      /\ act = <<>> => Len(act) = 0
  BY <1>1, <1>3, <1>4, CallFacts DEF Top, Depth
<1>6. Nested'
  <2> SUFFICES ASSUME NEW i \in 1..Len(act)
               PROVE  act[i].pc \in SafePlace
    BY <1>5 DEF Nested
  <2>1. CASE i = Len(act)
    BY <1>2, <1>5, <2>1
  <2>2. CASE i # Len(act)
    BY <1>5, <2>2 DEF StackInv, Nested
  <2> QED BY <2>1, <2>2
<1>7. Stacked'
  <2>1. act # <<>> => used = act[Len(act)].base + Count(act[Len(act)])
    BY <1>5 DEF StackInv, Stacked
  <2>2. act'[1].base = 0 /\ used' = Top'.base + Count(Top')
    BY <1>1, <1>3, <1>4, <1>5 DEF StackInv, Stacked
  <2>3. ASSUME NEW i \in 1..(Len(act') - 1)
        PROVE  act'[i + 1].base = act'[i].base + Count(act'[i])
    <3>1. CASE i = Len(act)
      BY <1>4, <1>5, <2>1, <3>1
    <3>2. CASE i # Len(act)
      <4>1. i \in 1..(Len(act) - 1) /\ i + 1 \in 1..Len(act) /\ i \in 1..Len(act)
        BY <1>5, <3>2
      <4> QED BY <1>5, <4>1 DEF StackInv, Stacked
    <3> QED BY <3>1, <3>2
  <2>4. ASSUME NEW i \in 1..Len(act'), NEW j \in 1..Len(act'), i < j
        PROVE  act'[i].base + Count(act'[i]) <= act'[j].base
    <3>1. i \in 1..Len(act) /\ act'[i] = act[i]
      BY <1>5, <2>4
    <3>2. CASE j # Len(act) + 1
      <4>1. j \in 1..Len(act) /\ act'[j] = act[j]
        BY <1>5, <3>2
      <4> QED BY <2>4, <3>1, <4>1 DEF StackInv, Stacked
    <3>3. CASE j = Len(act) + 1 /\ i = Len(act)
      BY <1>3, <1>4, <1>5, <2>1, <3>1, <3>3
    <3>4. CASE j = Len(act) + 1 /\ i # Len(act)
      <4>1. Len(act) \in 1..Len(act) /\ i < Len(act) /\ act # <<>>
        BY <1>5, <3>1, <3>4
      <4>2. act[i].base + Count(act[i]) <= act[Len(act)].base
        BY <3>1, <4>1 DEF StackInv, Stacked
      <4>3. act[i].base \in Nat /\ act[Len(act)].base \in Nat
        BY <1>3, <3>1, <4>1, ActFields
      <4>4. act[Len(act)].base <= used
        BY <2>1, <4>1, <4>3 DEF Count
      <4> QED BY <1>3, <1>4, <1>5, <3>1, <3>4, <4>2, <4>3, <4>4 DEF Count
    <3> QED BY <3>2, <3>3, <3>4
  <2> QED BY <1>5, <2>2, <2>3, <2>4 DEF Stacked, Count, Claimed
<1>8. Room' /\ Registers'
  <2>1. \A i \in 1..Len(act') : i \in 1..Len(act) \/ act'[i] = a
    BY <1>5
  <2>2. Room'
    BY <1>1, <1>4, <1>5, <2>1 DEF StackInv, Room, HasRoom
  <2>3. Registers'
    BY <1>1, <1>4, <1>5, <2>1 DEF StackInv, Registers
  <2> QED BY <2>2, <2>3
<1>9. Current = ptr /\ Current' = ptr
  BY <1>1, <1>2, <1>4, <1>5 DEF Current, SafePlace
<1>10. CallersSaved'
  <2>1. DOMAIN act' = 1..Len(act') /\ DOMAIN act = 1..Len(act)
    BY <1>3, <1>5
  <2>2. \A i \in 1..Len(act') : i \in 1..Len(act) \/ act'[i] = a
    BY <1>5
  <2> QED BY <1>1, <1>4, <1>5, <1>9, <2>1, <2>2 DEF StackInv, CallersSaved, Saved
<1>11. Mapped'
  BY <1>1, <1>2, <1>4, <1>5 DEF StackInv, Mapped, SafePlace
<1>12. CalledWhenFull'
  BY <1>1, <1>2, <1>4, <1>5 DEF StackInv, CalledWhenFull, SafePlace
<1>13. TypeOK' /\ NeverLost'
  BY <1>1, <1>5 DEF StackInv, TypeOK, NeverLost, codeVars
<1> QED BY <1>6, <1>7, <1>8, <1>10, <1>11, <1>12, <1>13 DEF StackInv

\* The next thread begins with nothing; the mapping of this one is left behind.
LEMMA ThreadExitKeeps ==
  ASSUME StackInv, ThreadExit
  PROVE  StackInv'
<1>1. /\ mem' = mem
      /\ real' = 0 /\ used' = 0 /\ ptr' = NULL /\ act' = <<>> /\ exits' = exits + 1
      /\ exits < MaxExits /\ UNCHANGED <<codeVars, status>>
  BY DEF ThreadExit, KeyValue
<1>2. Nested' /\ Stacked' /\ Room' /\ Registers' /\ CalledWhenFull'
  BY <1>1 DEF Nested, Stacked, Room, Registers, CalledWhenFull
<1>3. CallersSaved'
  BY <1>1 DEF CallersSaved
<1>4. Mapped'
  BY <1>1 DEF StackInv, Mapped
<1>5. TypeOK' /\ NeverLost'
  <2>1. exits' \in 0..MaxExits
    BY <1>1, UlpStackAssumption DEF StackInv, TypeOK
  <2> QED BY <1>1, <2>1 DEF StackInv, TypeOK, NeverLost, codeVars, Address
<1> QED BY <1>2, <1>3, <1>4, <1>5 DEF StackInv

\* What leaves the thread alone keeps what is known of its stack.
LEMMA ThreadAlone ==
  ASSUME StackInv, TypeOK', UNCHANGED <<stackVars, mem, act, status, exits>>
  PROVE  StackInv'
<1>1. /\ real' = real /\ used' = used /\ ptr' = ptr /\ mem' = mem /\ act' = act
      /\ status' = status
  BY DEF stackVars
<1>2. Top' = Top /\ Current' = Current
  BY <1>1 DEF Top, Depth, Current
<1>3. Nested' /\ Stacked' /\ Room' /\ Registers'
  BY <1>1, <1>2 DEF StackInv, Nested, Stacked, Room, Registers, Count, Claimed, HasRoom
<1>4. Mapped' /\ CallersSaved' /\ CalledWhenFull' /\ NeverLost'
  BY <1>1, <1>2 DEF StackInv, Mapped, CallersSaved, CalledWhenFull,
     NeverLost, Saved
<1> QED BY <1>3, <1>4 DEF StackInv

\* Short sequences, and the rest of a sequence.
LEMMA ShortSeqs ==
  ASSUME NEW S
  PROVE  /\ <<>> \in Seq(S)
         /\ \A x \in S : <<x>> \in Seq(S) /\ <<x>> \o <<>> \in Seq(S)
         /\ \A x, y \in S : <<x>> \o <<y>> \in Seq(S)
         /\ \A q \in Seq(S) : q # <<>> => Tail(q) \in Seq(S)
OBVIOUS

\* Short sequences put together.
LEMMA PairSeqs ==
  ASSUME NEW S, NEW x \in S, NEW y \in S
  PROVE  <<x>> \o <<y>> = <<x, y>> /\ <<x>> \o <<>> = <<x>>
<1>1. /\ Len(<<x>> \o <<y>>) = 2 /\ Len(<<x>> \o <<>>) = 1
      /\ (<<x>> \o <<y>>)[1] = x /\ (<<x>> \o <<y>>)[2] = y /\ (<<x>> \o <<>>)[1] = x
  OBVIOUS
<1>2. /\ <<x>> \o <<y>> \in Seq(S) /\ <<x, y>> \in Seq(S)
      /\ <<x>> \o <<>> \in Seq(S) /\ <<x>> \in Seq(S)
  OBVIOUS
<1>3. <<x>> \o <<y>> = <<x, y>>
  <2>1. \A i \in 1..Len(<<x>> \o <<y>>) : (<<x>> \o <<y>>)[i] = <<x, y>>[i]
    BY <1>1
  <2> QED BY <1>1, <1>2, <2>1, SeqEqual
<1>4. <<x>> \o <<>> = <<x>>
  <2>1. \A i \in 1..Len(<<x>> \o <<>>) : (<<x>> \o <<>>)[i] = <<x>>[i]
    BY <1>1
  <2> QED BY <1>1, <1>2, <2>1, SeqEqual
<1> QED BY <1>3, <1>4

\* Patching keeps the types of what it writes.
LEMMA PatchingTypes ==
  ASSUME TypeOK, Patching
  PROVE  TypeOK'
<1>1. ASSUME NEW v \in Version, ulp_patch_addr(v)
      PROVE  TypeOK'
  <2>1. queue' \in Seq(Write)
    <3> DEFINE P == [at |-> "prologue", v |-> v]
               B == [at |-> "entry", v |-> "branch"]
               N == [at |-> "entry", v |-> "nop"]
    <3>1. P \in Write /\ B \in Write /\ N \in Write
      BY DEF Write
    <3>2. \/ queue' = <<P>> \o <<B>> \/ queue' = <<P>> \o <<>> \/ queue' = <<N>> \/ queue' = <<>>
      BY <1>1 DEF ulp_patch_addr, ulp_patch_prologue_layout, ulp_patch_addr_trampoline,
         ulp_skip_prologue
    <3> HIDE DEF P, B, N
    <3> QED BY <3>1, <3>2, ShortSeqs
  <2> QED BY <1>1, <2>1 DEF ulp_patch_addr, TypeOK, stackVars
<1>2. CASE ExecuteWrite
  <2>1. queue' \in Seq(Write)
    <3>1. queue \in Seq(Write) /\ queue # <<>> /\ (queue' = Tail(queue) \/ queue' = <<>>)
      BY <1>2 DEF ExecuteWrite, TypeOK
    <3> QED BY <3>1, ShortSeqs
  <2>2. /\ entry' \in {"nop", "branch", "other"} /\ target' \in Version \cup {NULL}
    <3>1. Head(queue) \in Write
      BY <1>2 DEF ExecuteWrite, TypeOK
    <3> QED BY <1>2, <3>1 DEF ExecuteWrite, TypeOK, Write
  <2>3. blocked' \in BOOLEAN
    BY <1>2 DEF ExecuteWrite, TypeOK
  <2> QED BY <1>2, <2>1, <2>2, <2>3 DEF ExecuteWrite, TypeOK, stackVars
<1> QED BY <1>1, <1>2 DEF Patching

\* The state of a thread that has called nothing.
LEMMA StackInit == Init => StackInv
<1> SUFFICES ASSUME Init PROVE StackInv
  OBVIOUS
<1>1. TypeOK
  <2>1. mem \in [Address -> Seq(Entry)]
    BY DEF Init
  <2>2. act = <<>> /\ queue = <<>>
    BY DEF Init
  <2>3. act \in Seq(Activation)
    BY <2>2
  <2>4. queue \in Seq(Write)
    BY <2>2
  <2>5. blocked \in BOOLEAN
    BY DEF Init
  <2>6. exits \in 0..MaxExits /\ real \in Nat /\ used \in Nat
    BY UlpStackAssumption DEF Init
  <2>7. /\ entry \in {"nop", "branch", "other"} /\ target \in Version \cup {NULL}
        /\ ptr \in Address /\ status \in {"running", "aborted", "lost"}
    BY DEF Init, Address
  <2> QED BY <2>1, <2>3, <2>4, <2>5, <2>6, <2>7 DEF TypeOK
<1>2. Nested /\ Stacked /\ Room /\ Registers
  BY DEF Init, Nested, Stacked, Room, Registers
<1>3. Mapped
  BY DEF Init, Mapped, Address
<1>4. CallersSaved /\ CalledWhenFull /\ NeverLost
  <2>1. \A a \in Addr : mem[a] = <<>>
    BY DEF Init, Address
  <2>2. act = <<>> /\ status = "running" /\ DOMAIN act = {}
    BY DEF Init
  <2> QED BY <2>1, <2>2 DEF CallersSaved, CalledWhenFull, NeverLost
<1> QED BY <1>1, <1>2, <1>3, <1>4 DEF StackInv

\* Every step keeps the invariant.
LEMMA StackStep ==
  ASSUME Interruptible \subseteq SafePlace, StackInv, [Next]_vars
  PROVE  StackInv'
<1>1. CASE Patching
  <2>1. TypeOK'
    BY <1>1, PatchingTypes DEF StackInv
  <2>2. UNCHANGED <<stackVars, mem, act, status, exits>>
    BY <1>1 DEF Patching, ulp_patch_addr, ExecuteWrite
  <2> QED BY <2>1, <2>2, ThreadAlone
<1>2. CASE \E s \in Site : Call(s)
  BY <1>2, CallKeeps
<1>3. CASE Trampoline
  BY <1>3, LoadTargetKeeps, CheckSpaceKeeps, ClaimKeeps, PushPtrKeeps, StoreKeeps,
     PopKeeps, PopPtrKeeps, FetchKeeps DEF Trampoline
<1>4. CASE Helper
  BY <1>4, HelperSizeKeeps, HelperMapKeeps, HelperCopyKeeps, HelperSetKeeps DEF Helper
<1>5. CASE ThreadExit
  BY <1>5, ThreadExitKeeps
<1>6. CASE UNCHANGED vars
  <2>1. UNCHANGED <<stackVars, mem, act, status, exits>> /\ TypeOK'
    BY <1>6 DEF vars, codeVars, stackVars, StackInv, TypeOK
  <2> QED BY <2>1, ThreadAlone
<1> QED BY <1>1, <1>2, <1>3, <1>4, <1>5, <1>6 DEF Next

-----------------------------------------------------------------------------
(***************************************************************************)
(* The theorems.                                                           *)
(***************************************************************************)

\* As long as what interrupts the trampoline does so at a safe place, the
\* ulp_stack of a thread is consistent, for every page size, every depth of
\* calls and every place at which mmap puts the mappings.
THEOREM StackConsistent ==
  ASSUME Interruptible \subseteq SafePlace
  PROVE  Spec => []StackInv
BY StackInit, StackStep, PTL DEF Spec

\* Then no thread that leaves trampoline_routine returns to a wrong caller or
\* reads or writes outside its ulp_stack.
THEOREM ReturnsToCaller ==
  ASSUME Interruptible \subseteq SafePlace
  PROVE  Spec => []NeverLost
<1>1. StackInv => NeverLost
  BY DEF StackInv
<1> QED BY <1>1, StackConsistent, PTL

\* Every call in progress finds what its caller left in TOC and link register,
\* whatever has moved or grown the stack since trampoline_routine saved it.
THEOREM EntriesKept ==
  ASSUME Interruptible \subseteq SafePlace
  PROVE  Spec => []CallersSaved
<1>1. StackInv => CallersSaved
  BY DEF StackInv
<1> QED BY <1>1, StackConsistent, PTL

-----------------------------------------------------------------------------
(***************************************************************************)
(* The branch at the entry and the address in the prologue.                *)
(***************************************************************************)

\* What may be queued: the branch only behind the prologue, or once an address
\* is there.
QueueShape ==
  \/ queue = <<>>
  \/ \E v \in Version : queue = <<[at |-> "prologue", v |-> v]>>
  \/ \E v \in Version : queue = <<[at |-> "prologue", v |-> v], [at |-> "entry", v |-> "branch"]>>
  \/ queue = <<[at |-> "entry", v |-> "branch"]>> /\ target # NULL
  \/ queue = <<[at |-> "entry", v |-> "nop"]>>

\* A thread only enters the prologue after an address was written into it.
CodeInv ==
  /\ act \in Seq(Activation) /\ QueueShape /\ TargetKnown
  /\ act # <<>> => target # NULL

\* Patching writes the address before the branch, whatever fails in between.
LEMMA PatchingKnown ==
  ASSUME CodeInv, Patching
  PROVE  CodeInv'
<1>1. act' = act
  BY DEF Patching, ulp_patch_addr, ExecuteWrite
<1>2. ASSUME NEW v \in Version, ulp_patch_addr(v)
      PROVE  QueueShape' /\ entry' = entry /\ target' = target
  <2> DEFINE P == [at |-> "prologue", v |-> v]
             B == [at |-> "entry", v |-> "branch"]
             N == [at |-> "entry", v |-> "nop"]
  <2>1. \/ queue' = <<P>> \o <<B>> \/ queue' = <<P>> \o <<>> \/ queue' = <<N>> \/ queue' = <<>>
    BY <1>2 DEF ulp_patch_addr, ulp_patch_prologue_layout, ulp_patch_addr_trampoline,
       ulp_skip_prologue
  <2>2. <<P>> \o <<B>> = <<P, B>> /\ <<P>> \o <<>> = <<P>>
    <3>1. P \in Write /\ B \in Write
      BY DEF Write
    <3> HIDE DEF P, B
    <3> QED BY <3>1, PairSeqs
  <2> QED BY <1>2, <2>1, <2>2 DEF ulp_patch_addr, QueueShape
<1>3. CASE ExecuteWrite
  <2>1. CASE queue' = <<>> /\ UNCHANGED <<entry, target>>
    BY <1>1, <2>1 DEF CodeInv, QueueShape, TargetKnown
  <2>2. CASE /\ queue' = Tail(queue)
             /\ IF Head(queue).at = "prologue"
                  THEN target' = Head(queue).v /\ UNCHANGED entry
                  ELSE entry' = Head(queue).v /\ UNCHANGED target
    <3>1. CASE \E v \in Version : queue = <<[at |-> "prologue", v |-> v]>>
      BY <1>1, <2>2, <3>1, UlpStackAssumption DEF CodeInv, QueueShape, TargetKnown
    <3>2. CASE \E v \in Version : queue = <<[at |-> "prologue", v |-> v],
                                             [at |-> "entry", v |-> "branch"]>>
      BY <1>1, <2>2, <3>2, UlpStackAssumption DEF CodeInv, QueueShape, TargetKnown
    <3>3. CASE queue = <<[at |-> "entry", v |-> "branch"]>> /\ target # NULL
      BY <1>1, <2>2, <3>3 DEF CodeInv, QueueShape, TargetKnown
    <3>4. CASE queue = <<[at |-> "entry", v |-> "nop"]>>
      BY <1>1, <2>2, <3>4 DEF CodeInv, QueueShape, TargetKnown
    <3> QED BY <1>3, <3>1, <3>2, <3>3, <3>4 DEF CodeInv, QueueShape, ExecuteWrite
  <2> QED BY <1>3, <2>1, <2>2 DEF ExecuteWrite
<1>4. ASSUME NEW v \in Version, ulp_patch_addr(v)
      PROVE  CodeInv'
  BY <1>1, <1>2, <1>4 DEF CodeInv, TargetKnown
<1> QED BY <1>3, <1>4 DEF Patching

\* A call in progress goes on and keeps the address it has loaded.
LEMMA GotoKnown ==
  ASSUME CodeInv, act # <<>>, NEW a \in Activation, Goto(a), UNCHANGED codeVars,
         a.pc # "prologue" => a.ctr # NULL
  PROVE  CodeInv'
<1>1. /\ act' \in Seq(Activation) /\ act' # <<>> /\ Len(act') = Len(act)
      /\ Top' = a /\ \A i \in 1..Len(act) : i # Len(act) => act'[i] = act[i]
  BY GotoFacts DEF CodeInv
<1>2. DOMAIN act' = 1..Len(act) /\ DOMAIN act = 1..Len(act) /\ act'[Len(act)] = a
  BY <1>1 DEF CodeInv, Top, Depth
<1>3. \A i \in 1..Len(act) : act'[i].pc # "prologue" => act'[i].ctr # NULL
  <2> SUFFICES ASSUME NEW i \in 1..Len(act), act'[i].pc # "prologue"
               PROVE  act'[i].ctr # NULL
    OBVIOUS
  <2>1. CASE i = Len(act)
    BY <1>2, <2>1
  <2>2. CASE i # Len(act)
    BY <1>1, <1>2, <2>2 DEF CodeInv, TargetKnown
  <2> QED BY <2>1, <2>2
<1>4. entry' = entry /\ target' = target /\ queue' = queue
  BY DEF codeVars
<1> QED BY <1>1, <1>2, <1>3, <1>4 DEF CodeInv, TargetKnown, QueueShape

\* Nor does a step that leaves the calls in progress as they are, or ends the
\* innermost one or all of them, change what they know.
LEMMA ActPrefixKnown ==
  ASSUME CodeInv, UNCHANGED codeVars, act' \in Seq(Activation), Len(act') <= Len(act),
         \A i \in 1..Len(act') : act'[i] = act[i]
  PROVE  CodeInv'
<1>1. /\ DOMAIN act' = 1..Len(act') /\ DOMAIN act = 1..Len(act)
      /\ Len(act) \in Nat /\ Len(act') \in Nat
  BY DEF CodeInv
<1>2. act' # <<>> => act # <<>>
  BY <1>1 DEF CodeInv
<1>3. \A i \in DOMAIN act' : i \in DOMAIN act /\ act'[i] = act[i]
  BY <1>1
<1>4. entry' = entry /\ target' = target /\ queue' = queue
  BY DEF codeVars
<1> QED BY <1>2, <1>3, <1>4 DEF CodeInv, TargetKnown, QueueShape

\* The trampoline.
LEMMA TrampolineKnown ==
  ASSUME CodeInv, TypeOK, Trampoline
  PROVE  CodeInv'
<1>1. act # <<>> /\ act \in Seq(Activation) /\ UNCHANGED codeVars
  BY DEF Trampoline, LoadTarget, CheckSpace, Claim, LoadPtr, Store, Pop, Fetch, At, CodeInv
<1>2. /\ Top \in Activation /\ Top.pc \in Place /\ target \in Version /\ used \in Nat
      /\ ptr \in Address /\ used + 1 \in Nat /\ 0 \in Nat
      /\ Top.pc # "prologue" => Top.ctr # NULL
  <2>1. Len(act) \in 1..Len(act) /\ Top = act[Len(act)] /\ DOMAIN act = 1..Len(act)
    BY <1>1 DEF Top, Depth
  <2>2. Top \in Activation /\ (Top.pc # "prologue" => Top.ctr # NULL)
    BY <1>1, <2>1 DEF CodeInv, TargetKnown
  <2>3. Top.pc \in Place
    BY <2>2 DEF Activation
  <2>4. used \in Nat /\ used + 1 \in Nat
    BY DEF TypeOK
  <2>5. target \in Version /\ ptr \in Address
    BY <1>1 DEF TypeOK, CodeInv
  <2> QED BY <2>2, <2>3, <2>4, <2>5
<1>3. ASSUME act' = act
      PROVE  CodeInv'
  BY <1>1, <1>3, ActPrefixKnown
<1>4. CASE LoadTarget
  <2> DEFINE a == [Top EXCEPT !.pc = "check", !.ctr = target]
  <2>1. a \in Activation /\ (a.pc # "prologue" => a.ctr # NULL)
    BY <1>2, UlpStackAssumption DEF Activation, Place
  <2>2. Goto(a)
    BY <1>4 DEF LoadTarget
  <2> HIDE DEF a
  <2> QED BY <1>1, <2>1, <2>2, GotoKnown
<1>5. CASE CheckSpace
  <2> DEFINE a == [Top EXCEPT !.pc = IF real <= used THEN "expand" ELSE "claim"]
  <2>1. a \in Activation /\ (a.pc # "prologue" => a.ctr # NULL)
    BY <1>2, <1>5 DEF Activation, Place, CheckSpace, At
  <2>2. Goto(a)
    BY <1>5 DEF CheckSpace
  <2> HIDE DEF a
  <2> QED BY <1>1, <2>1, <2>2, GotoKnown
<1>6. CASE Claim
  <2> DEFINE a == [Top EXCEPT !.pc = "ptr", !.r6 = used + 1]
  <2>1. a \in Activation /\ (a.pc # "prologue" => a.ctr # NULL)
    BY <1>2, <1>6 DEF Activation, Place, Claim, At
  <2>2. Goto(a)
    BY <1>6 DEF Claim
  <2> HIDE DEF a
  <2> QED BY <1>1, <2>1, <2>2, GotoKnown
<1>7. ASSUME NEW from \in {"ptr", "reload"}, NEW to \in {"store", "fetch"}, LoadPtr(from, to)
      PROVE  CodeInv'
  <2> DEFINE a == [Top EXCEPT !.pc = to, !.r5 = ptr]
  <2>1. a \in Activation /\ (a.pc # "prologue" => a.ctr # NULL)
    BY <1>2, <1>7 DEF Activation, Place, LoadPtr, At
  <2>2. Goto(a)
    BY <1>7 DEF LoadPtr
  <2> HIDE DEF a
  <2> QED BY <1>1, <2>1, <2>2, GotoKnown
<1>8. CASE Store
  <2> DEFINE a == [Top EXCEPT !.pc = "body", !.r5 = NULL, !.r6 = 0]
  <2>1. a \in Activation /\ (a.pc # "prologue" => a.ctr # NULL)
    BY <1>2, <1>8 DEF Activation, Place, Store, At, Address
  <2>2. Goto(a) \/ act' = act
    BY <1>8 DEF Store
  <2> HIDE DEF a
  <2> QED BY <1>1, <1>3, <2>1, <2>2, GotoKnown
<1>9. CASE Pop
  <2> DEFINE a == [Top EXCEPT !.pc = "reload", !.r6 = used]
  <2>1. a \in Activation /\ (a.pc # "prologue" => a.ctr # NULL)
    BY <1>2, <1>9 DEF Activation, Place, Pop, At
  <2>2. Goto(a)
    BY <1>9 DEF Pop
  <2> HIDE DEF a
  <2> QED BY <1>1, <2>1, <2>2, GotoKnown
<1>10. CASE Fetch
  <2>1. CASE act' = SubSeq(act, 1, Depth - 1)
    <3>1. /\ act' \in Seq(Activation) /\ Len(act') = Len(act) - 1 /\ Len(act) \in Nat
          /\ \A i \in 1..(Len(act) - 1) : act'[i] = act[i]
      BY <1>1, <2>1, ReturnFacts
    <3>2. Len(act') <= Len(act) /\ \A i \in 1..Len(act') : act'[i] = act[i]
      BY <3>1
    <3> QED BY <1>1, <3>1, <3>2, ActPrefixKnown
  <2> QED BY <1>3, <1>10, <2>1 DEF Fetch
<1> QED BY <1>4, <1>5, <1>6, <1>7, <1>8, <1>9, <1>10 DEF Trampoline

\* The helper.
LEMMA HelperKnown ==
  ASSUME CodeInv, TypeOK, Helper
  PROVE  CodeInv'
<1>1. /\ act # <<>> /\ act \in Seq(Activation) /\ UNCHANGED codeVars
      /\ Top.pc \in {"expand", "map", "copy", "set"}
  BY DEF Helper, HelperSize, HelperMap, HelperCopy, HelperSet, At, CodeInv
<1>2. /\ Top \in Activation /\ real \in Nat /\ ptr \in Address /\ Top.ctr # NULL
  <2>1. Len(act) \in 1..Len(act) /\ Top = act[Len(act)] /\ DOMAIN act = 1..Len(act)
    BY <1>1 DEF Top, Depth
  <2> QED BY <1>1, <2>1 DEF CodeInv, TargetKnown, TypeOK
<1>3. CASE HelperSize
  <2> DEFINE a == [Top EXCEPT !.pc = "map", !.old_size = real]
  <2>1. a \in Activation /\ (a.pc # "prologue" => a.ctr # NULL)
    BY <1>2 DEF Activation, Place
  <2>2. Goto(a)
    BY <1>3 DEF HelperSize
  <2> HIDE DEF a
  <2> QED BY <1>1, <2>1, <2>2, GotoKnown
<1>4. CASE HelperMap
  <2>1. ASSUME NEW n \in Addr, Goto([Top EXCEPT !.pc = "copy", !.old = ptr, !.new = n])
        PROVE  CodeInv'
    <3> DEFINE a == [Top EXCEPT !.pc = "copy", !.old = ptr, !.new = n]
    <3>1. a \in Activation /\ (a.pc # "prologue" => a.ctr # NULL)
      BY <1>2 DEF Activation, Place, Address
    <3>2. Goto(a)
      BY <2>1
    <3> HIDE DEF a
    <3> QED BY <1>1, <3>1, <3>2, GotoKnown
  <2>2. CASE act' = act
    BY <1>1, <2>2, ActPrefixKnown
  <2> QED BY <1>4, <2>1, <2>2 DEF HelperMap
<1>5. CASE HelperCopy
  <2> DEFINE a == [Top EXCEPT !.pc = "set"]
  <2>1. a \in Activation /\ (a.pc # "prologue" => a.ctr # NULL)
    BY <1>2 DEF Activation, Place
  <2>2. Goto(a)
    BY <1>5 DEF HelperCopy
  <2> HIDE DEF a
  <2> QED BY <1>1, <2>1, <2>2, GotoKnown
<1>6. CASE HelperSet
  <2> DEFINE a == [Top EXCEPT !.pc = "claim", !.old = NULL, !.old_size = 0, !.new = NULL]
  <2>1. a \in Activation /\ (a.pc # "prologue" => a.ctr # NULL)
    BY <1>2 DEF Activation, Place, Address
  <2>2. Goto(a)
    BY <1>6 DEF HelperSet
  <2> HIDE DEF a
  <2> QED BY <1>1, <2>1, <2>2, GotoKnown
<1> QED BY <1>3, <1>4, <1>5, <1>6 DEF Helper

\* A call begins at the branch, so that an address is there.
LEMMA CallKnown ==
  ASSUME CodeInv, TypeOK, NEW s \in Site, Call(s)
  PROVE  CodeInv'
<1> DEFINE a == [pc |-> "prologue", site |-> s, ctr |-> NULL, r5 |-> NULL, r6 |-> 0,
                 old |-> NULL, old_size |-> 0, new |-> NULL, base |-> used]
<1>1. a \in Activation /\ a.pc = "prologue"
  BY DEF TypeOK, Activation, Place, Address
<1>2. act' = Append(act, a) /\ act \in Seq(Activation)
  BY DEF Call, CodeInv
<1>3. entry' = entry /\ target' = target /\ queue' = queue /\ target # NULL
  BY DEF Call, codeVars, CodeInv, TargetKnown
<1> HIDE DEF a
<1>4. /\ act' \in Seq(Activation) /\ DOMAIN act' = 1..(Len(act) + 1)
      /\ DOMAIN act = 1..Len(act) /\ Len(act) \in Nat /\ act'[Len(act) + 1] = a
      /\ \A i \in 1..Len(act) : act'[i] = act[i]
  BY <1>1, <1>2
<1>5. \A i \in DOMAIN act' : act'[i].pc # "prologue" => act'[i].ctr # NULL
  <2> SUFFICES ASSUME NEW i \in 1..(Len(act) + 1), act'[i].pc # "prologue"
               PROVE  act'[i].ctr # NULL
    BY <1>4
  <2>1. i \in 1..Len(act)
    BY <1>1, <1>4
  <2> QED BY <1>4, <2>1 DEF CodeInv, TargetKnown
<1> QED BY <1>3, <1>4, <1>5 DEF CodeInv, TargetKnown, QueueShape

\* A thread that follows the branch at the entry finds the address of a function
\* in the prologue, although ulp_patch_addr has the two written one by one and
\* either write may fail.
THEOREM BranchLeadsSomewhere ==
  ASSUME Interruptible \subseteq SafePlace
  PROVE  Spec => []TargetKnown
<1>1. Init => CodeInv
  <2> SUFFICES ASSUME Init PROVE CodeInv
    OBVIOUS
  <2>1. act = <<>> /\ queue = <<>> /\ entry # "branch" /\ DOMAIN act = {}
    BY DEF Init
  <2>2. act \in Seq(Activation)
    BY <2>1
  <2> QED BY <2>1, <2>2 DEF CodeInv, TargetKnown, QueueShape
<1>2. CodeInv /\ StackInv /\ [Next]_vars => CodeInv'
  <2> SUFFICES ASSUME CodeInv, TypeOK, [Next]_vars
               PROVE  CodeInv'
    BY DEF StackInv
  <2>1. CASE ThreadExit
    <3>1. act' = <<>> /\ UNCHANGED codeVars
      BY <2>1 DEF ThreadExit
    <3>2. act' \in Seq(Activation) /\ Len(act') <= Len(act) /\ 1..Len(act') = {}
      BY <3>1 DEF CodeInv
    <3> QED BY <3>1, <3>2, ActPrefixKnown
  <2>2. CASE UNCHANGED vars
    <3>1. UNCHANGED codeVars /\ act' = act
      BY <2>2 DEF vars
    <3> QED BY <3>1, ActPrefixKnown DEF CodeInv
  <2> QED BY <2>1, <2>2, PatchingKnown, TrampolineKnown, HelperKnown, CallKnown DEF Next
<1>3. CodeInv => TargetKnown
  BY DEF CodeInv
<1> QED BY <1>1, <1>2, <1>3, StackConsistent, PTL DEF Spec

=============================================================================
