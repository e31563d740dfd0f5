---------------------------- MODULE HijackProofs ----------------------------
(***************************************************************************)
(* Theorems about Hijack, for every set of threads and every number of     *)
(* retries.                                                                *)
(***************************************************************************)
EXTENDS Hijack, FiniteSetTheorems, SequenceTheorems, TLAPS

-----------------------------------------------------------------------------
(***************************************************************************)
(* Types.                                                                  *)
(***************************************************************************)

\* What the assumption on the constants says.
LEMMA HijackFacts ==
  Main \in Thread /\ Retries \in Nat /\ MaxCalls \in Nat /\ IsFiniteSet(Thread)
BY HijackAssumption

\* The initial states have the right types.
LEMMA InitTypeOK == Init => TypeOK
BY HijackFacts DEF Init, TypeOK, Codes

\* A thread that enters something has one more frame.
LEMMA PushFrames ==
  ASSUME TypeOK, NEW t \in Thread, NEW w \in {"call", "dl"}, Push(t, w)
  PROVE  /\ frames' \in [Thread -> Seq({"call", "dl"})]
         /\ \A u \in Thread \ {t} : frames'[u] = frames[u]
         /\ Len(frames[t]) \in Nat /\ Len(frames[t]) < MaxCalls
         /\ Len(frames'[t]) = Len(frames[t]) + 1
         /\ \A k \in 1..Len(frames[t]) : frames'[t][k] = frames[t][k]
         /\ frames'[t][Len(frames[t]) + 1] = w
<1>1. frames \in [Thread -> Seq({"call", "dl"})] /\ frames[t] \in Seq({"call", "dl"})
  BY DEF TypeOK
<1>2. frames' = [frames EXCEPT ![t] = Append(frames[t], w)] /\ Len(frames[t]) < MaxCalls
  BY DEF Push
<1>3. Append(frames[t], w) \in Seq({"call", "dl"})
  BY <1>1
<1>4. frames'[t] = Append(frames[t], w)
  BY <1>1, <1>2
<1> QED BY <1>1, <1>2, <1>3, <1>4

\* A thread that leaves something has one less.
LEMMA PopFrames ==
  ASSUME TypeOK, NEW t \in Thread, NEW w \in {"call", "dl"}, Pop(t, w)
  PROVE  /\ frames' \in [Thread -> Seq({"call", "dl"})]
         /\ \A u \in Thread \ {t} : frames'[u] = frames[u]
         /\ Len(frames[t]) \in Nat /\ Len(frames[t]) > 0
         /\ Len(frames'[t]) = Len(frames[t]) - 1
         /\ \A k \in 1..(Len(frames[t]) - 1) : frames'[t][k] = frames[t][k]
         /\ frames[t][Len(frames[t])] = w
<1> DEFINE q == SubSeq(frames[t], 1, Len(frames[t]) - 1)
<1>1. frames \in [Thread -> Seq({"call", "dl"})] /\ frames[t] \in Seq({"call", "dl"})
  BY DEF TypeOK
<1>2. /\ frames' = [frames EXCEPT ![t] = q] /\ frames[t] # <<>>
      /\ frames[t][Len(frames[t])] = w
  BY DEF Pop
<1>3. Len(frames[t]) \in Nat /\ Len(frames[t]) > 0
  BY <1>1, <1>2
<1>4. /\ q \in Seq({"call", "dl"}) /\ Len(q) = Len(frames[t]) - 1
      /\ \A k \in 1..(Len(frames[t]) - 1) : q[k] = frames[t][k]
  <2>1. \A k \in 1..(Len(frames[t]) - 1) : frames[t][k] \in {"call", "dl"}
    BY <1>1, <1>3
  <2>2. Len(frames[t]) - 1 \in Int /\ 1 \in Int
    BY <1>3
  <2>3. /\ q \in Seq({"call", "dl"})
        /\ Len(q) = IF 1 <= Len(frames[t]) - 1 THEN Len(frames[t]) - 1 - 1 + 1 ELSE 0
        /\ \A i \in 1..(Len(frames[t]) - 1 - 1 + 1) : q[i] = frames[t][1 + i - 1]
    BY <2>1, <2>2, SubSeqProperties
  <2> HIDE DEF q
  <2> QED BY <2>3, <1>3
<1>5. frames'[t] = q
  BY <1>1, <1>2
<1> HIDE DEF q
<1> QED BY <1>1, <1>2, <1>3, <1>4, <1>5

\* A process that has ended leaves nothing of a wrong type.
LEMMA EndsTypeOK == TypeOK /\ ProcessEnds => TypeOK'
<1> SUFFICES ASSUME TypeOK, ProcessEnds PROVE TypeOK'
  OBVIOUS
<1>1. <<>> \in Seq({"call", "dl"})
  OBVIOUS
<1>2. frames' \in [Thread -> Seq({"call", "dl"})]
  BY <1>1 DEF ProcessEnds
<1> QED BY <1>2 DEF TypeOK, ProcessEnds, Codes, scanVars

\* Every step of the threads, of libpulp, of the tool and of gdb keeps the types.
LEMMA NextTypeOK == TypeOK /\ [Next]_vars => TypeOK'
<1> SUFFICES ASSUME TypeOK, [Next]_vars PROVE TypeOK'
  OBVIOUS
<1> USE DEF TypeOK, Codes, procVars, stackVars, libVars, scanVars, toolVars
<1>1. CASE ThreadStep
  <2> PICK t \in Thread :
        \/ EnterCall(t) \/ LeaveCall(t) \/ EnterDl(t) \/ LeaveDl(t)
        \/ Exit(t) \/ \E u \in Thread : Spawn(t, u)
    BY <1>1 DEF ThreadStep
  <2>1. CASE EnterCall(t)
    <3>1. frames' \in [Thread -> Seq({"call", "dl"})]
      BY <2>1, PushFrames DEF EnterCall
    <3> QED BY <2>1, <3>1 DEF EnterCall
  <2>2. CASE LeaveCall(t)
    <3>1. frames' \in [Thread -> Seq({"call", "dl"})]
      BY <2>2, PopFrames DEF LeaveCall
    <3> QED BY <2>2, <3>1 DEF LeaveCall
  <2>3. CASE EnterDl(t)
    <3>1. frames' \in [Thread -> Seq({"call", "dl"})]
      BY <2>3, PushFrames DEF EnterDl
    <3> QED BY <2>3, <3>1 DEF EnterDl
  <2>4. CASE LeaveDl(t)
    <3>1. frames' \in [Thread -> Seq({"call", "dl"})]
      BY <2>4, PopFrames DEF LeaveDl
    <3> QED BY <2>4, <3>1 DEF LeaveDl
  <2>5. CASE Exit(t)
    BY <2>5 DEF Exit
  <2>6. CASE \E u \in Thread : Spawn(t, u)
    BY <2>6 DEF Spawn
  <2> QED BY <2>1, <2>2, <2>3, <2>4, <2>5, <2>6
<1>2. CASE LibStep
  <2>1. CASE Trylock
    BY <2>1 DEF Trylock
  <2>2. CASE Unlock
    BY <2>2 DEF Unlock
  <2>3. CASE Work
    BY <2>3 DEF Work
  <2>4. CASE EntryError
    BY <2>4 DEF EntryError
  <2>5. CASE Halt
    BY <2>5, HijackFacts DEF Halt
  <2>6. CASE Trap
    BY <2>6 DEF Trap, ProcessEnds
  <2> QED BY <1>2, <2>1, <2>2, <2>3, <2>4, <2>5, <2>6 DEF LibStep
<1>3. CASE Trigger
  BY <1>3, HijackFacts DEF Trigger
<1>4. CASE ToolStep
  <2>1. CASE Attempt
    BY <2>1, HijackFacts DEF Attempt, Finish
  <2>2. CASE ReadDir
    BY <2>2 DEF ReadDir
  <2>3. CASE ReadEnd
    BY <2>3, HijackFacts DEF ReadEnd
  <2>4. CASE Attach
    BY <2>4 DEF Attach
  <2>5. CASE AttachFailed
    BY <2>5, HijackFacts DEF AttachFailed, Finish
  <2>6. CASE FirstCall
    BY <2>6 DEF FirstCall, Redirect, RedirectFailed
  <2>7. CASE Stopped
    BY <2>7 DEF Stopped
  <2>8. CASE WaitFailed
    BY <2>8, HijackFacts DEF WaitFailed
  <2>9. CASE Timeout
    BY <2>9 DEF Timeout
  <2>10. CASE Returned
    BY <2>10, HijackFacts DEF Returned, Redirect, RedirectFailed
  <2>11. CASE \E t \in Thread : RestoreThread(t)
    BY <2>11, HijackFacts DEF RestoreThread
  <2>12. CASE Restored
    BY <2>12 DEF Restored
  <2>13. CASE GdbReturn
    BY <2>13 DEF GdbReturn
  <2> QED BY <1>4, <2>1, <2>2, <2>3, <2>4, <2>5, <2>6, <2>7, <2>8, <2>9,
             <2>10, <2>11, <2>12, <2>13 DEF ToolStep
<1>5. CASE GdbCall
  BY <1>5 DEF GdbCall
<1>6. CASE Killed \/ ToolExit
  <2>1. CASE Killed
    BY <2>1, EndsTypeOK DEF Killed
  <2>2. CASE ToolExit
    BY <2>2 DEF ToolExit
  <2> QED BY <1>6, <2>1, <2>2
<1>7. CASE UNCHANGED vars
  BY <1>7 DEF vars
<1> QED BY <1>1, <1>2, <1>3, <1>4, <1>5, <1>6, <1>7 DEF Next

\* The types hold for any set of threads and any number of retries: the retry
\* counter of trigger_one_process never runs below 0.
THEOREM TypeInvariant == Spec => []TypeOK
<1> QED BY InitTypeOK, NextTypeOK, PTL DEF Spec

-----------------------------------------------------------------------------
(***************************************************************************)
(* Every thread is stopped.                                                *)
(***************************************************************************)

\* While the directory is read, the threads of the list are stopped threads of
\* the process, unless the process died; and if a pass has met no new thread and
\* has none among the entries to come, every thread is on the list. A thread
\* that runs has therefore an entry still to come, or a thread created it that
\* had one.
ScanInv ==
  /\ tool \in {"scan", "attach"} => threads \subseteq stopped \cap alive \/ alive = {}
  /\ tool = "attach" => loop = 1
  /\ tool = "scan" /\ loop = 0 /\ entries \subseteq threads =>
        alive \subseteq threads
  /\ tool = "wait" => lib # "out" \/ alive = {}
  /\ stopped \subseteq traced

StopInv == TypeOK /\ ScanInv /\ AllStopped

\* Every step keeps what hijack_threads has established so far.
LEMMA NextStopInv == StopInv /\ [Next]_vars => StopInv'
<1> SUFFICES ASSUME StopInv, [Next]_vars PROVE ScanInv' /\ AllStopped'
  BY NextTypeOK DEF StopInv
<1> USE DEF StopInv, ScanInv, AllStopped, procVars, stackVars, libVars, scanVars, toolVars
<1>1. CASE ThreadStep
  <2> PICK t \in Thread :
        \/ EnterCall(t) \/ LeaveCall(t) \/ EnterDl(t) \/ LeaveDl(t)
        \/ Exit(t) \/ \E u \in Thread : Spawn(t, u)
    BY <1>1 DEF ThreadStep
  <2>1. t \in alive /\ t \notin stopped /\ (t = Main => lib = "out")
    BY DEF Running, EnterCall, LeaveCall, EnterDl, LeaveDl, Exit, Spawn
  <2>2. CASE EnterCall(t) \/ LeaveCall(t) \/ EnterDl(t) \/ LeaveDl(t)
    BY <2>2 DEF EnterCall, LeaveCall, EnterDl, LeaveDl
  <2>3. CASE Exit(t)
    BY <2>1, <2>3 DEF Exit
  <2>4. CASE \E u \in Thread : Spawn(t, u)
    BY <2>1, <2>4 DEF Spawn
  <2> QED BY <2>2, <2>3, <2>4
<1>2. CASE LibStep
  <2>1. CASE Trylock \/ Unlock \/ Work \/ EntryError
    BY <2>1 DEF Trylock, Unlock, Work, EntryError
  <2>2. CASE Halt
    BY <2>2 DEF Halt
  <2>3. CASE Trap
    BY <2>3 DEF Trap, ProcessEnds
  <2> QED BY <1>2, <2>1, <2>2, <2>3 DEF LibStep
<1>3. CASE Trigger
  BY <1>3 DEF Trigger
<1>4. CASE ToolStep
  <2>1. CASE Attempt
    BY <2>1 DEF Attempt, Finish
  <2>2. CASE ReadDir
    BY <2>2 DEF ReadDir
  <2>3. CASE ReadEnd
    <3>1. CASE loop = 1
      BY <2>3, <3>1 DEF ReadEnd
    <3>2. CASE loop = 0
      <4>1. alive \subseteq threads
        BY <2>3, <3>2 DEF ReadEnd
      <4>2. alive \subseteq stopped
        BY <2>3, <4>1 DEF ReadEnd
      <4> QED BY <2>3, <3>2, <4>2 DEF ReadEnd
    <3> QED BY <3>1, <3>2 DEF TypeOK
  <2>4. CASE Attach
    BY <2>4 DEF Attach, TypeOK
  <2>5. CASE AttachFailed
    BY <2>5 DEF AttachFailed, Finish
  <2>6. CASE FirstCall
    BY <2>6 DEF FirstCall, Redirect, RedirectFailed
  <2>7. CASE Stopped
    BY <2>7 DEF Stopped
  <2>8. CASE Timeout
    BY <2>8 DEF Timeout
  <2>9. CASE Returned
    BY <2>9 DEF Returned, Redirect, RedirectFailed
  <2>10. CASE \E t \in Thread : RestoreThread(t)
    BY <2>10 DEF RestoreThread
  <2>11. CASE Restored
    BY <2>11 DEF Restored
  <2>12. CASE GdbReturn
    BY <2>12 DEF GdbReturn
  <2>13. CASE WaitFailed
    BY <2>13 DEF WaitFailed
  <2> QED BY <1>4, <2>1, <2>2, <2>3, <2>4, <2>5, <2>6, <2>7, <2>8, <2>9,
             <2>10, <2>11, <2>12, <2>13 DEF ToolStep
<1>5. CASE GdbCall
  BY <1>5 DEF GdbCall
<1>6. CASE Killed
  BY <1>6 DEF Killed, ProcessEnds
<1>7. CASE ToolExit
  BY <1>7 DEF ToolExit
<1>8. CASE UNCHANGED vars
  BY <1>8 DEF vars
<1> QED BY <1>1, <1>2, <1>3, <1>4, <1>5, <1>6, <1>7, <1>8 DEF Next

\* Whatever threads come and go while hijack_threads reads the task directory,
\* and whatever signals, timeouts and gdb do, no thread of the process runs
\* its own code between hijack_threads and restore_threads.
THEOREM HijackStopsAll == Spec => []AllStopped
<1>1. Init => StopInv
  BY InitTypeOK DEF Init, StopInv, ScanInv, AllStopped
<1>2. StopInv => AllStopped
  BY DEF StopInv
<1> QED BY <1>1, <1>2, NextStopInv, PTL DEF Spec

-----------------------------------------------------------------------------
(***************************************************************************)
(* libpulp does not work while a thread is inside malloc or the loader.    *)
(***************************************************************************)

\* The interposed calls among some frames of the threads.
CallsOf(f) ==
  {x \in Thread \X (1..MaxCalls) : x[2] <= Len(f[x[1]]) /\ f[x[1]][x[2]] = "call"}

FrameLists == [Thread -> Seq({"call", "dl"})]

\* These are the calls that FlagCounts speaks of.
LEMMA CallsAre ==
  /\ frames \in FrameLists => Calls = CallsOf(frames)
  /\ frames' \in FrameLists => Calls' = CallsOf(frames')
<1>1. ASSUME NEW f \in FrameLists, NEW x \in Thread \X (1..MaxCalls)
      PROVE  x[2] \in DOMAIN f[x[1]] <=> x[2] <= Len(f[x[1]])
  <2>1. x[1] \in Thread /\ x[2] \in Nat /\ x[2] >= 1
    BY HijackFacts
  <2>2. f[x[1]] \in Seq({"call", "dl"})
    BY <2>1 DEF FrameLists
  <2>3. DOMAIN f[x[1]] = 1..Len(f[x[1]]) /\ Len(f[x[1]]) \in Nat
    BY <2>2
  <2> QED BY <2>1, <2>3
<1>2. frames \in FrameLists => Calls = CallsOf(frames)
  BY <1>1 DEF Calls, Frames, CallsOf
<1>3. frames' \in FrameLists => Calls' = CallsOf(frames')
  BY <1>1 DEF Calls, Frames, CallsOf
<1> QED BY <1>2, <1>3

\* The calls can be counted.
LEMMA CallsFinite ==
  ASSUME NEW f
  PROVE  IsFiniteSet(CallsOf(f)) /\ Cardinality(CallsOf(f)) \in Nat
<1>1. CallsOf(f) \subseteq Thread \X (1..MaxCalls)
  BY DEF CallsOf
<1>2. IsFiniteSet(1..MaxCalls)
  BY HijackFacts, FS_Interval
<1>3. IsFiniteSet(Thread \X (1..MaxCalls))
  BY <1>2, HijackFacts, FS_Product
<1> QED BY <1>1, <1>3, FS_Subset, FS_CardinalityType

\* The frames g are those of f with one more, w, of thread t.
OneMore(f, g, t, w) ==
  /\ f \in FrameLists /\ g \in FrameLists /\ t \in Thread
  /\ \A u \in Thread \ {t} : g[u] = f[u]
  /\ Len(f[t]) \in Nat /\ Len(f[t]) < MaxCalls
  /\ Len(g[t]) = Len(f[t]) + 1
  /\ \A k \in 1..Len(f[t]) : g[t][k] = f[t][k]
  /\ g[t][Len(f[t]) + 1] = w

\* A call is one more, inside another one or not; a mutex of the loader is none.
LEMMA MoreCounts ==
  ASSUME NEW f, NEW g, NEW t, NEW w \in {"call", "dl"}, OneMore(f, g, t, w)
  PROVE  Cardinality(CallsOf(g)) = Cardinality(CallsOf(f)) + (IF w = "call" THEN 1 ELSE 0)
<1> DEFINE n == Len(f[t])
           new == <<t, n + 1>>
<1>1. n \in Nat /\ n < MaxCalls /\ t \in Thread /\ n + 1 \in 1..MaxCalls
  BY HijackFacts DEF OneMore
<1>2. new \in Thread \X (1..MaxCalls) /\ new[1] = t /\ new[2] = n + 1
  BY <1>1
<1>3. new \notin CallsOf(f)
  <2>1. ~(n + 1 <= Len(f[t]))
    BY <1>1
  <2> QED BY <1>2, <2>1 DEF CallsOf
<1>4. ASSUME NEW x \in Thread \X (1..MaxCalls), x # new
      PROVE  x \in CallsOf(f) <=> x \in CallsOf(g)
  <2>1. /\ x[1] \in Thread /\ x[2] \in Nat /\ x[2] >= 1 /\ x = <<x[1], x[2]>>
    BY HijackFacts
  <2>2. CASE x[1] # t
    <3>1. g[x[1]] = f[x[1]]
      BY <2>1, <2>2 DEF OneMore
    <3> QED BY <3>1 DEF CallsOf
  <2>3. CASE x[1] = t
    <3>1. x[2] # n + 1
      BY <1>4, <2>1, <2>3
    <3>2. Len(g[t]) = n + 1
      BY DEF OneMore
    <3>3. x[2] <= Len(g[t]) <=> x[2] <= n
      BY <1>1, <2>1, <3>1, <3>2
    <3>4. x[2] <= n => g[t][x[2]] = f[t][x[2]]
      BY <1>1, <2>1 DEF OneMore
    <3> QED BY <2>3, <3>3, <3>4 DEF CallsOf
  <2> QED BY <2>2, <2>3
<1>5. new \in CallsOf(g) <=> w = "call"
  <2>1. n + 1 <= Len(g[t]) /\ g[t][n + 1] = w
    BY <1>1 DEF OneMore
  <2> QED BY <1>2, <2>1 DEF CallsOf
<1>6. CallsOf(f) \subseteq Thread \X (1..MaxCalls) /\ CallsOf(g) \subseteq Thread \X (1..MaxCalls)
  BY DEF CallsOf
<1> HIDE DEF new, n
<1>7. CASE w = "call"
  <2>1. CallsOf(g) = CallsOf(f) \cup {new}
    BY <1>2, <1>4, <1>5, <1>6, <1>7
  <2>2. Cardinality(CallsOf(f) \cup {new}) = Cardinality(CallsOf(f)) + 1
    BY <1>3, CallsFinite, FS_AddElement
  <2> QED BY <1>7, <2>1, <2>2
<1>8. CASE w # "call"
  <2>1. CallsOf(g) = CallsOf(f)
    BY <1>3, <1>4, <1>5, <1>6, <1>8
  <2> QED BY <1>8, <2>1, CallsFinite
<1> QED BY <1>7, <1>8

\* What a thread enters is one more frame.
LEMMA PushIsMore ==
  ASSUME TypeOK, NEW t \in Thread, NEW w \in {"call", "dl"}, Push(t, w)
  PROVE  OneMore(frames, frames', t, w)
BY PushFrames DEF OneMore, TypeOK, FrameLists

\* Seen backwards, what a thread leaves is one more, too.
LEMMA PopIsMore ==
  ASSUME TypeOK, NEW t \in Thread, NEW w \in {"call", "dl"}, Pop(t, w),
         Len(frames[t]) <= MaxCalls
  PROVE  OneMore(frames', frames, t, w)
<1>1. /\ frames' \in [Thread -> Seq({"call", "dl"})]
      /\ \A u \in Thread \ {t} : frames'[u] = frames[u]
      /\ Len(frames[t]) \in Nat /\ Len(frames[t]) > 0
      /\ Len(frames'[t]) = Len(frames[t]) - 1
      /\ \A k \in 1..(Len(frames[t]) - 1) : frames'[t][k] = frames[t][k]
      /\ frames[t][Len(frames[t])] = w
  BY PopFrames
<1>2. Len(frames'[t]) + 1 = Len(frames[t]) /\ Len(frames'[t]) \in Nat
  BY <1>1
<1>3. Len(frames'[t]) < MaxCalls
  BY <1>1, <1>2, HijackFacts
<1> QED BY <1>1, <1>2, <1>3 DEF OneMore, TypeOK, FrameLists

\* The loader's mutex has one owner, who has it once.
OneOwner(f) ==
  \A t, u \in Thread : \A i \in 1..Len(f[t]), j \in 1..Len(f[u]) :
    f[t][i] = "dl" /\ f[u][j] = "dl" => t = u /\ i = j

\* Nobody has it.
NoOwner(f) == \A t \in Thread : \A i \in 1..Len(f[t]) : f[t][i] # "dl"

\* What entering and leaving do to the owner of the mutex.
LEMMA OwnerOf ==
  ASSUME NEW f, NEW g, NEW t, NEW w \in {"call", "dl"}, OneMore(f, g, t, w)
  PROVE  /\ w = "call" => (OneOwner(f) <=> OneOwner(g)) /\ (NoOwner(f) <=> NoOwner(g))
         /\ w = "dl" => (NoOwner(f) => OneOwner(g)) /\ (OneOwner(g) => NoOwner(f))
<1> DEFINE n == Len(f[t])
<1>1. /\ t \in Thread /\ n \in Nat /\ Len(g[t]) = n + 1 /\ g[t][n + 1] = w
      /\ \A u \in Thread \ {t} : g[u] = f[u]
      /\ \A k \in 1..n : g[t][k] = f[t][k]
  BY DEF OneMore
<1>2. \A u \in Thread : /\ Len(f[u]) \in Nat
                        /\ \A k \in 1..Len(f[u]) : k \in 1..Len(g[u]) /\ g[u][k] = f[u][k]
  <2> SUFFICES ASSUME NEW u \in Thread
               PROVE  /\ Len(f[u]) \in Nat
                      /\ \A k \in 1..Len(f[u]) : k \in 1..Len(g[u]) /\ g[u][k] = f[u][k]
    OBVIOUS
  <2>1. CASE u = t
    BY <1>1, <2>1
  <2>2. CASE u # t
    <3>1. f[u] \in Seq({"call", "dl"}) /\ g[u] = f[u]
      BY <1>1, <2>2 DEF OneMore, FrameLists
    <3> QED BY <3>1
  <2> QED BY <2>1, <2>2
<1>3. \A u \in Thread : \A k \in 1..Len(g[u]) :
        k \in 1..Len(f[u]) \/ (u = t /\ k = n + 1)
  <2> SUFFICES ASSUME NEW u \in Thread, NEW k \in 1..Len(g[u])
               PROVE  k \in 1..Len(f[u]) \/ (u = t /\ k = n + 1)
    OBVIOUS
  <2>1. CASE u = t
    BY <1>1, <2>1
  <2>2. CASE u # t
    BY <1>1, <2>2
  <2> QED BY <2>1, <2>2
<1>4. n + 1 \in 1..Len(g[t]) /\ ~(n + 1 \in 1..Len(f[t]))
  BY <1>1
<1> HIDE DEF n
<1>5. ASSUME w = "call" PROVE (OneOwner(f) <=> OneOwner(g)) /\ (NoOwner(f) <=> NoOwner(g))
  <2>1. \A u \in Thread : \A k \in 1..Len(g[u]) :
          g[u][k] = "dl" => k \in 1..Len(f[u]) /\ f[u][k] = "dl"
    BY <1>1, <1>2, <1>3, <1>5
  <2>2. OneOwner(f) => OneOwner(g)
    <3> SUFFICES ASSUME OneOwner(f), NEW u \in Thread, NEW v \in Thread,
                        NEW i \in 1..Len(g[u]), NEW j \in 1..Len(g[v]),
                        g[u][i] = "dl", g[v][j] = "dl"
                 PROVE  u = v /\ i = j
      BY DEF OneOwner
    <3>1. i \in 1..Len(f[u]) /\ f[u][i] = "dl" /\ j \in 1..Len(f[v]) /\ f[v][j] = "dl"
      BY <2>1
    <3> QED BY <3>1 DEF OneOwner
  <2>4. OneOwner(g) => OneOwner(f)
    <3> SUFFICES ASSUME OneOwner(g), NEW u \in Thread, NEW v \in Thread,
                        NEW i \in 1..Len(f[u]), NEW j \in 1..Len(f[v]),
                        f[u][i] = "dl", f[v][j] = "dl"
                 PROVE  u = v /\ i = j
      BY DEF OneOwner
    <3>1. i \in 1..Len(g[u]) /\ g[u][i] = "dl" /\ j \in 1..Len(g[v]) /\ g[v][j] = "dl"
      BY <1>2
    <3> QED BY <3>1 DEF OneOwner
  <2>3. NoOwner(f) <=> NoOwner(g)
    BY <1>2, <2>1, Zenon DEF NoOwner
  <2> QED BY <2>2, <2>3, <2>4
<1>6. ASSUME w = "dl", NoOwner(f) PROVE OneOwner(g)
  <2>1. \A u \in Thread : \A k \in 1..Len(g[u]) : g[u][k] = "dl" => u = t /\ k = n + 1
    BY <1>2, <1>3, <1>6 DEF NoOwner
  <2> QED BY <2>1 DEF OneOwner
<1>7. ASSUME w = "dl", OneOwner(g) PROVE NoOwner(f)
  <2> SUFFICES ASSUME NEW u \in Thread, NEW i \in 1..Len(f[u]), f[u][i] = "dl"
               PROVE  FALSE
    BY DEF NoOwner
  <2>1. i \in 1..Len(g[u]) /\ g[u][i] = "dl"
    BY <1>2
  <2>2. g[t][n + 1] = "dl"
    BY <1>1, <1>7
  <2>3. u = t /\ i = n + 1
    BY <1>1, <1>4, <1>7, <2>1, <2>2 DEF OneOwner
  <2> QED BY <1>4, <2>3
<1> QED BY <1>5, <1>6, <1>7

\* A counter of 0 and no lock of the loader held mean that nobody is inside.
LEMMA NotBusy ==
  ASSUME TypeOK, ~Busy, flag = Cardinality(CallsOf(frames)),
         dl_lock = 0 => NoOwner(frames),
         \A t \in Thread : Len(frames[t]) <= MaxCalls
  PROVE  dl_lock = 0 /\ \A t \in Thread : frames[t] = <<>>
<1>1. CallsOf(frames) = {}
  BY CallsFinite, FS_EmptySet DEF Busy
<1>2. dl_lock = 0
  BY DEF Busy, dl_locks_held, TypeOK
<1>3. ASSUME NEW t \in Thread, frames[t] # <<>> PROVE FALSE
  <2>1. frames[t] \in Seq({"call", "dl"}) /\ Len(frames[t]) \in Nat
    BY DEF TypeOK
  <2>2. Len(frames[t]) >= 1 /\ frames[t][1] \in {"call", "dl"}
    BY <1>3, <2>1
  <2>3. frames[t][1] # "dl"
    BY <1>2, <2>1, <2>2 DEF NoOwner
  <2>4. 1 \in 1..MaxCalls
    BY <2>1, <2>2, HijackFacts
  <2>5. <<t, 1>> \in CallsOf(frames)
    BY <2>2, <2>3, <2>4 DEF CallsOf
  <2> QED BY <1>1, <2>5
<1> QED BY <1>2, <1>3

\* The process is patched with ulp trigger only, no call outlives the timeout
\* and no signal reaches the main thread during a call.
Undisturbed == MayTimeout = FALSE /\ MaySignal = FALSE /\ Gdb = FALSE

\* Where the main thread is in libpulp follows from where the tool is.
CallInv ==
  /\ Main \in alive
  /\ saved = "out"
  /\ tool # "gdb"
  /\ tool \in {"idle", "attempt", "scan", "attach", "hijacked"} => lib = "out"
  /\ tool \in {"hijacked", "wait", "returned"} => Main \in threads
  /\ tool = "wait" => Main \in traced /\ (Main \in stopped => lib = "int3")
  /\ tool = "returned" => lib = "int3" /\ Main \in stopped
  /\ tool = "restore" =>
       lib = "out" \/ (lib = "int3" /\ Main \in threads \cap stopped)

\* The counter is right, and the answer libpulp got from it stays valid: the
\* other threads are stopped from the test to the end of the call.
LockInv ==
  /\ flag = Cardinality(CallsOf(frames)) + (IF lib = "locked" THEN 1 ELSE 0)
  /\ OneOwner(frames) /\ (dl_lock = 0 => NoOwner(frames))
  /\ \A t \in Thread : Len(frames[t]) <= MaxCalls
  /\ lib \in {"locked", "work"} => \A t \in Thread : frames[t] = <<>>

UnsafeInv == StopInv /\ CallInv /\ LockInv

\* Every step keeps what is known of where tool and redirected thread are.
LEMMA NextCallInv ==
  ASSUME Undisturbed, StopInv, CallInv, [Next]_vars
  PROVE  CallInv'
<1> USE DEF StopInv, CallInv, procVars, stackVars, libVars, scanVars, toolVars
<1>1. CASE ThreadStep
  BY <1>1 DEF ThreadStep, EnterCall, LeaveCall, EnterDl, LeaveDl, Exit, Spawn
<1>2. CASE LibStep
  <2>1. tool = "wait" \/ lib = "int3" \/ lib = "out"
    BY DEF TypeOK
  <2>2. CASE Trylock \/ Unlock \/ Work \/ EntryError
    BY <2>1, <2>2 DEF Trylock, Unlock, Work, EntryError, TypeOK
  <2>3. CASE Trap
    BY <2>3 DEF Trap, InLib, TypeOK
  <2>4. CASE Halt
    BY <2>4 DEF Halt, Undisturbed, TypeOK
  <2> QED BY <1>2, <2>2, <2>3, <2>4 DEF LibStep
<1>3. CASE Trigger
  BY <1>3 DEF Trigger
<1>4. CASE ToolStep
  <2>1. CASE Attempt
    BY <2>1 DEF Attempt, Finish
  <2>2. CASE ReadDir
    BY <2>2 DEF ReadDir
  <2>3. CASE ReadEnd
    BY <2>3 DEF ReadEnd, ScanInv, TypeOK
  <2>4. CASE Attach
    BY <2>4 DEF Attach
  <2>5. CASE AttachFailed
    BY <2>5 DEF AttachFailed, Finish
  <2>6. CASE FirstCall
    BY <2>6 DEF FirstCall, Redirect, RedirectFailed, AllStopped, ScanInv
  <2>7. CASE Stopped
    BY <2>7 DEF Stopped, Undisturbed
  <2>8. CASE Timeout
    BY <2>8 DEF Timeout, Undisturbed
  <2>9. CASE Returned
    BY <2>9 DEF Returned, Redirect, RedirectFailed, AllStopped, ScanInv
  <2>10. CASE \E t \in Thread : RestoreThread(t)
    BY <2>10 DEF RestoreThread
  <2>11. CASE Restored
    BY <2>11 DEF Restored
  <2>12. CASE GdbReturn
    BY <2>12 DEF GdbReturn
  <2>13. CASE WaitFailed
    BY <2>13 DEF WaitFailed
  <2> QED BY <1>4, <2>1, <2>2, <2>3, <2>4, <2>5, <2>6, <2>7, <2>8, <2>9,
             <2>10, <2>11, <2>12, <2>13 DEF ToolStep
<1>5. CASE GdbCall \/ Killed
  BY <1>5 DEF GdbCall, Killed, Undisturbed
<1>6. CASE UNCHANGED vars
  BY <1>6 DEF vars
<1>7. CASE ToolExit
  BY <1>7 DEF ToolExit
<1> QED BY <1>1, <1>2, <1>3, <1>4, <1>5, <1>6, <1>7 DEF Next

\* Every step keeps the counter and the mutex of the loader exact.
LEMMA NextLockInv ==
  ASSUME Undisturbed, UnsafeInv, [Next]_vars
  PROVE  LockInv'
<1> USE DEF UnsafeInv, procVars, stackVars, libVars, scanVars, toolVars
<1>0. TypeOK /\ LockInv /\ Cardinality(CallsOf(frames)) \in Nat
  BY CallsFinite DEF StopInv
<1>1. CASE ThreadStep
  <2> PICK t \in Thread :
        \/ EnterCall(t) \/ LeaveCall(t) \/ EnterDl(t) \/ LeaveDl(t)
        \/ Exit(t) \/ \E u \in Thread : Spawn(t, u)
    BY <1>1 DEF ThreadStep
  <2>1. t \in alive /\ t \notin stopped /\ (t = Main => lib = "out")
    BY DEF Running, EnterCall, LeaveCall, EnterDl, LeaveDl, Exit, Spawn
  <2>2. lib \notin {"locked", "work"}
    BY <2>1 DEF StopInv, CallInv, AllStopped, TypeOK
  <2>3. lib' = lib
    BY DEF EnterCall, LeaveCall, EnterDl, LeaveDl, Exit, Spawn
  <2>4. Len(frames[t]) <= MaxCalls
    BY <1>0 DEF LockInv
  <2>5. CASE EnterCall(t)
    <3>1. Push(t, "call") /\ flag' = flag + 1 /\ dl_lock' = dl_lock
      BY <2>5 DEF EnterCall
    <3>2. PICK g : g = frames' /\ OneMore(frames, g, t, "call")
      BY <1>0, <3>1, PushIsMore
    <3>3. /\ Cardinality(CallsOf(g)) = Cardinality(CallsOf(frames)) + 1
          /\ OneOwner(frames) <=> OneOwner(g)
          /\ NoOwner(frames) <=> NoOwner(g)
      BY <3>2, MoreCounts, OwnerOf
    <3>4. \A u \in Thread : Len(g[u]) <= MaxCalls
      BY <1>0, <3>2, HijackFacts DEF OneMore, LockInv
    <3> QED BY <1>0, <2>2, <2>3, <3>1, <3>2, <3>3, <3>4 DEF LockInv
  <2>6. CASE LeaveCall(t)
    <3>1. Pop(t, "call") /\ flag' = flag - 1 /\ dl_lock' = dl_lock
      BY <2>6 DEF LeaveCall
    <3>2. PICK g : g = frames' /\ OneMore(g, frames, t, "call")
      BY <1>0, <2>4, <3>1, PopIsMore
    <3>3. /\ Cardinality(CallsOf(frames)) = Cardinality(CallsOf(g)) + 1
          /\ OneOwner(g) <=> OneOwner(frames)
          /\ NoOwner(g) <=> NoOwner(frames)
      BY <3>2, MoreCounts, OwnerOf
    <3>4. Cardinality(CallsOf(g)) \in Nat
      BY CallsFinite
    <3>5. \A u \in Thread : Len(g[u]) <= MaxCalls
      BY <1>0, <3>2, HijackFacts DEF OneMore, LockInv
    <3> QED BY <1>0, <2>2, <2>3, <3>1, <3>2, <3>3, <3>4, <3>5 DEF LockInv
  <2>7. CASE EnterDl(t)
    <3>1. CASE UNCHANGED frames
      <4>1. dl_lock' # 0 /\ flag' = flag
        BY <2>7, <3>1, PushFrames, <1>0 DEF EnterDl
      <4> QED BY <1>0, <2>3, <3>1, <4>1 DEF LockInv
    <3>2. CASE Push(t, "dl") /\ dl_lock = 0 /\ dl_lock' # 0 /\ flag' = flag
      <4>1. PICK g : g = frames' /\ OneMore(frames, g, t, "dl")
        BY <1>0, <3>2, PushIsMore
      <4>2. /\ Cardinality(CallsOf(g)) = Cardinality(CallsOf(frames)) + 0
            /\ NoOwner(frames) => OneOwner(g)
        BY <4>1, MoreCounts, OwnerOf
      <4>3. \A u \in Thread : Len(g[u]) <= MaxCalls
        BY <1>0, <4>1, HijackFacts DEF OneMore, LockInv
      <4> QED BY <1>0, <2>2, <2>3, <3>2, <4>1, <4>2, <4>3 DEF LockInv
    <3> QED BY <2>7, <3>1, <3>2 DEF EnterDl
  <2>8. CASE LeaveDl(t)
    <3>1. Pop(t, "dl") /\ flag' = flag /\ dl_lock' = 0
      BY <2>8 DEF LeaveDl
    <3>2. PICK g : g = frames' /\ OneMore(g, frames, t, "dl")
      BY <1>0, <2>4, <3>1, PopIsMore
    <3>3. /\ Cardinality(CallsOf(frames)) = Cardinality(CallsOf(g)) + 0
          /\ OneOwner(frames) => NoOwner(g)
      BY <3>2, MoreCounts, OwnerOf
    <3>4. Cardinality(CallsOf(g)) \in Nat
      BY CallsFinite
    <3>5. \A u \in Thread : Len(g[u]) <= MaxCalls
      BY <1>0, <3>2, HijackFacts DEF OneMore, LockInv
    <3>6. NoOwner(g) => OneOwner(g)
      BY DEF NoOwner, OneOwner
    <3> QED BY <1>0, <2>2, <2>3, <3>1, <3>2, <3>3, <3>4, <3>5, <3>6 DEF LockInv
  <2>9. CASE Exit(t) \/ \E u \in Thread : Spawn(t, u)
    <3>1. UNCHANGED <<frames, dl_lock, flag>>
      BY <2>9 DEF Exit, Spawn
    <3> QED BY <1>0, <2>3, <3>1 DEF LockInv
  <2> QED BY <2>5, <2>6, <2>7, <2>8, <2>9
<1>2. CASE Trylock
  <2>1. UNCHANGED <<frames, dl_lock>> /\ lib = "entry"
    BY <1>2 DEF Trylock
  <2>2. CASE Busy
    <3>1. lib' = "int3" /\ flag' = flag
      BY <1>2, <2>2 DEF Trylock
    <3> QED BY <1>0, <2>1, <3>1 DEF LockInv
  <2>3. CASE ~Busy
    <3>1. flag = Cardinality(CallsOf(frames)) /\ flag = 0
      BY <1>0, <2>1, <2>3 DEF Busy, LockInv
    <3>2. \A t \in Thread : frames[t] = <<>>
      BY <1>0, <2>3, <3>1, NotBusy DEF LockInv
    <3>3. lib' = "locked" /\ flag' = 1
      BY <1>2, <2>3 DEF Trylock
    <3> QED BY <1>0, <2>1, <3>1, <3>2, <3>3 DEF LockInv
  <2> QED BY <2>2, <2>3
<1>3. CASE Unlock
  <2>1. UNCHANGED <<frames, dl_lock>> /\ lib = "locked" /\ lib' = "work" /\ flag' = 0
    BY <1>3 DEF Unlock
  <2>2. \A t \in Thread : frames[t] = <<>>
    BY <1>0, <2>1 DEF LockInv
  <2>3. CallsOf(frames) = {}
    BY <2>2 DEF CallsOf
  <2>4. Cardinality(CallsOf(frames)) = 0
    BY <2>3, FS_EmptySet
  <2> QED BY <1>0, <2>1, <2>2, <2>4 DEF LockInv
<1>4. CASE Work \/ EntryError \/ Halt
  <2>1. UNCHANGED <<frames, dl_lock, flag>> /\ lib # "locked" /\ lib' = "int3"
    BY <1>4 DEF Work, EntryError, Halt, Undisturbed
  <2> QED BY <1>0, <2>1 DEF LockInv
<1>5. CASE Trap
  BY <1>5 DEF Trap, InLib, CallInv, StopInv, TypeOK
<1>6. CASE Trigger \/ ToolStep \/ GdbCall \/ ToolExit
  <2>1. UNCHANGED <<frames, dl_lock, flag>>
    BY <1>6 DEF Trigger, ToolStep, Attempt, ReadDir, ReadEnd, Attach,
       AttachFailed, FirstCall, Stopped, WaitFailed, Timeout, Returned, RestoreThread,
       Restored, GdbReturn, GdbCall, ToolExit
  <2>2. lib' \in {lib, "entry", "out"} /\ (lib' # lib => lib # "locked")
    BY <1>6 DEF Trigger, ToolStep, Attempt, ReadDir, ReadEnd, Attach,
       AttachFailed, FirstCall, Stopped, WaitFailed, Timeout, Returned, RestoreThread,
       Restored, GdbReturn, GdbCall, ToolExit, Redirect, RedirectFailed, CallInv
  <2> QED BY <1>0, <2>1, <2>2 DEF LockInv
<1>7. CASE Killed
  BY <1>7 DEF Killed, Undisturbed
<1>8. CASE UNCHANGED vars
  BY <1>0, <1>8 DEF vars, LockInv
<1> QED BY <1>1, <1>2, <1>3, <1>4, <1>5, <1>6, <1>7, <1>8 DEF Next, LibStep

\* The three parts together hold in every undisturbed execution.
LEMMA UnsafeInvariant ==
  ASSUME Undisturbed
  PROVE  Spec => []UnsafeInv
<1>1. Init => UnsafeInv
  <2> SUFFICES ASSUME Init PROVE UnsafeInv
    OBVIOUS
  <2>1. StopInv /\ CallInv
    BY InitTypeOK DEF Init, StopInv, ScanInv, AllStopped, CallInv
  <2>2. \A t \in Thread : frames[t] = <<>>
    BY DEF Init
  <2>3. CallsOf(frames) = {}
    BY <2>2 DEF CallsOf
  <2>4. OneOwner(frames) /\ NoOwner(frames) /\ \A t \in Thread : Len(frames[t]) <= MaxCalls
    BY <2>2, HijackFacts DEF OneOwner, NoOwner
  <2>5. flag = Cardinality(CallsOf(frames)) + (IF lib = "locked" THEN 1 ELSE 0)
    <3>1. Cardinality(CallsOf(frames)) = 0
      BY <2>3, FS_EmptySet
    <3>2. flag = 0 /\ lib = "out"
      BY DEF Init
    <3> HIDE DEF Init
    <3> QED BY <3>1, <3>2
  <2> HIDE DEF Init
  <2>6. LockInv
    BY <2>2, <2>4, <2>5 DEF LockInv
  <2> QED BY <2>1, <2>6 DEF UnsafeInv
<1>2. UnsafeInv /\ [Next]_vars => UnsafeInv'
  BY NextStopInv, NextCallInv, NextLockInv DEF UnsafeInv
<1> QED BY <1>1, <1>2, PTL DEF Spec

\* In a process that is patched with ulp trigger alone, libpulp never works
\* while a thread is inside malloc or the dynamic loader, for any number of
\* threads: trying the lock is enough although it is released at once.
THEOREM NoDeadlockOnLocks ==
  ASSUME Undisturbed
  PROVE  Spec => []NoUnsafeWork
<1>1. UnsafeInv => NoUnsafeWork
  BY DEF UnsafeInv, LockInv, NoUnsafeWork
<1> QED BY <1>1, UnsafeInvariant, PTL

\* In such a process the counter of lib/interpose.c is exact, however deep the
\* interposed calls nest: zeroing it in __ulp_asunsafe_unlock loses no increment
\* of another thread.
THEOREM CounterIsExact ==
  ASSUME Undisturbed
  PROVE  Spec => []FlagCounts
<1>1. UnsafeInv => FlagCounts
  BY CallsAre DEF UnsafeInv, LockInv, FlagCounts, StopInv, TypeOK, FrameLists
<1> QED BY <1>1, UnsafeInvariant, PTL

-----------------------------------------------------------------------------
(***************************************************************************)
(* No thread is left stopped or traced.                                    *)
(***************************************************************************)

\* Every thread the tool is attached to is on its list or is the main thread,
\* which is then inside libpulp; it is also the only one that may run while the
\* tool is attached. A process that has lost its main thread has no thread at all.
LeftInv ==
  /\ Main \in alive \/ alive = {}
  /\ tool \in {"idle", "attempt", "gdb"} => threads = {}
  /\ tool = "gdb" => traced = {}
  /\ traced \subseteq threads \cup {Main} /\ traced \ stopped \subseteq {Main}
  /\ Main \in traced \ threads => lib # "out"
  /\ Main \in traced \ stopped => lib # "out"

\* Every step keeps the list of stopped threads complete.
LEMMA NextLeftInv ==
  ASSUME StopInv, LeftInv, [Next]_vars
  PROVE  LeftInv'
<1> USE DEF LeftInv, procVars, stackVars, libVars, scanVars, toolVars
<1>1. CASE ThreadStep
  <2> PICK t \in Thread :
        \/ EnterCall(t) \/ LeaveCall(t) \/ EnterDl(t) \/ LeaveDl(t)
        \/ Exit(t) \/ \E u \in Thread : Spawn(t, u)
    BY <1>1 DEF ThreadStep
  <2>1. CASE EnterCall(t) \/ LeaveCall(t) \/ EnterDl(t) \/ LeaveDl(t)
    BY <2>1 DEF EnterCall, LeaveCall, EnterDl, LeaveDl
  <2>2. CASE Exit(t)
    BY <2>2 DEF Exit
  <2>3. CASE \E u \in Thread : Spawn(t, u)
    BY <2>3 DEF Spawn, Running
  <2> QED BY <2>1, <2>2, <2>3
<1>2. CASE LibStep
  <2>1. CASE Trylock \/ Unlock \/ Work \/ EntryError
    BY <2>1 DEF Trylock, Unlock, Work, EntryError
  <2>2. CASE Halt
    BY <2>2 DEF Halt
  <2>3. CASE Trap
    BY <2>3 DEF Trap, ProcessEnds
  <2> QED BY <1>2, <2>1, <2>2, <2>3 DEF LibStep
<1>3. CASE Trigger
  BY <1>3 DEF Trigger
<1>4. CASE ToolStep
  <2>1. CASE Attempt
    BY <2>1 DEF Attempt, Finish
  <2>2. CASE ReadDir
    BY <2>2 DEF ReadDir
  <2>3. CASE ReadEnd
    BY <2>3 DEF ReadEnd, StopInv, ScanInv, TypeOK
  <2>4. CASE Attach
    BY <2>4 DEF Attach
  <2>5. CASE AttachFailed
    BY <2>5 DEF AttachFailed, Finish, StopInv, ScanInv
  <2>6. CASE FirstCall
    BY <2>6 DEF FirstCall, Redirect, RedirectFailed
  <2>7. CASE Stopped
    BY <2>7 DEF Stopped
  <2>8. CASE Timeout
    BY <2>8 DEF Timeout
  <2>9. CASE Returned
    BY <2>9 DEF Returned, Redirect, RedirectFailed
  <2>10. CASE \E t \in Thread : RestoreThread(t)
    BY <2>10 DEF RestoreThread, StopInv, ScanInv
  <2>11. CASE Restored
    BY <2>11 DEF Restored
  <2>12. CASE GdbReturn
    BY <2>12 DEF GdbReturn
  <2>13. CASE WaitFailed
    BY <2>13 DEF WaitFailed
  <2> QED BY <1>4, <2>1, <2>2, <2>3, <2>4, <2>5, <2>6, <2>7, <2>8, <2>9,
             <2>10, <2>11, <2>12, <2>13 DEF ToolStep
<1>5. CASE GdbCall
  BY <1>5 DEF GdbCall
<1>6. CASE Killed
  BY <1>6 DEF Killed, ProcessEnds
<1>7. CASE ToolExit
  BY <1>7 DEF ToolExit
<1>8. CASE UNCHANGED vars
  BY <1>8 DEF vars
<1> QED BY <1>1, <1>2, <1>3, <1>4, <1>5, <1>6, <1>7, <1>8 DEF Next

\* Whatever fails, and whatever timeouts, signals, gdb and the end of the process
\* do in between: a trigger that has ended has left no thread stopped or traced,
\* but for the main thread if its call outlived the timeout.
THEOREM AllReleased == Spec => []NoThreadLeftStopped
<1>1. Init => StopInv /\ LeftInv
  BY InitTypeOK DEF Init, StopInv, ScanInv, AllStopped, LeftInv
<1>2. (StopInv /\ LeftInv) /\ [Next]_vars => (StopInv /\ LeftInv)'
  BY NextStopInv, NextLeftInv
<1>3. StopInv /\ LeftInv => NoThreadLeftStopped
  BY DEF StopInv, ScanInv, LeftInv, NoThreadLeftStopped
<1> QED BY <1>1, <1>2, <1>3, PTL DEF Spec

-----------------------------------------------------------------------------
(***************************************************************************)
(* What the result of a trigger tells.                                     *)
(***************************************************************************)

\* A call that was not refused finds malloc and the loader quiet, and leaves
\* them so: this is what the apply that follows a revert relies on. Until its
\* entry point has looked it cannot have returned EAGAIN.
QuietInv ==
  /\ lib = "work" => flag = 0
  /\ lib \in {"locked", "work"} => dl_lock = 0
  /\ tool \in {"wait", "returned"} /\ call = "revert" /\ lib = "int3"
        /\ ret \in {"ENONE", "ENOPATCH"} => dl_lock = 0 /\ flag = 0
  /\ tool \in {"wait", "returned"} /\ call = "apply" /\ plan = "both" =>
        /\ lib = "entry" => dl_lock = 0 /\ flag = 0
        /\ lib = "int3" => ret # "EAGAIN"

\* A result of EAGAIN that is still to be dealt with is that of the first call.
BusyInv ==
  /\ tool \in {"restore", "attempt", "idle", "scan", "attach", "hijacked"}
       /\ result = "EAGAIN" /\ plan = "both" => call = "revert"
  /\ tool = "idle" /\ result = "EAGAIN" => retry = 0

ResultInv == QuietInv /\ BusyInv

\* In a call of the tool nothing moves but the main thread.
LEMMA NobodyRuns ==
  ASSUME StopInv, CallInv, tool \in {"wait", "returned"}
  PROVE  Running = {}
<1>1. CASE tool = "wait"
  BY <1>1 DEF StopInv, ScanInv, AllStopped, Running
<1>2. CASE tool = "returned"
  BY <1>2 DEF StopInv, AllStopped, Running
<1> QED BY <1>1, <1>2

\* Every step keeps what the results of a call tell.
LEMMA NextResultInv ==
  ASSUME Undisturbed, UnsafeInv, ResultInv, [Next]_vars
  PROVE  ResultInv'
<1> USE DEF UnsafeInv, CallInv, ResultInv, QuietInv, BusyInv,
            procVars, stackVars, libVars, scanVars, toolVars
<1>0. TypeOK /\ StopInv
  BY DEF StopInv
<1>1. CASE ThreadStep
  <2> PICK t \in Thread :
        \/ EnterCall(t) \/ LeaveCall(t) \/ EnterDl(t) \/ LeaveDl(t)
        \/ Exit(t) \/ \E u \in Thread : Spawn(t, u)
    BY <1>1 DEF ThreadStep
  <2>1. t \in Running
    BY DEF EnterCall, LeaveCall, EnterDl, LeaveDl, Exit, Spawn
  <2>2. tool \notin {"wait", "returned"}
    BY <1>0, <2>1, NobodyRuns
  <2>3. lib \notin {"locked", "work"}
    BY <1>0, <2>2 DEF TypeOK
  <2>4. UNCHANGED <<lib, saved, ret, stopped, tool, retry, plan, call, result>>
    BY DEF EnterCall, LeaveCall, EnterDl, LeaveDl, Exit, Spawn
  <2> QED BY <2>2, <2>3, <2>4
<1>2. CASE LibStep
  <2>1. CASE Trylock
    BY <1>0, <2>1 DEF Trylock, Busy, dl_locks_held, TypeOK
  <2>2. CASE Unlock
    BY <1>0, <2>2 DEF Unlock, TypeOK
  <2>3. CASE Work
    BY <1>0, <2>3 DEF Work, TypeOK
  <2>4. CASE EntryError
    BY <1>0, <2>4 DEF EntryError, TypeOK
  <2>5. CASE Trap
    BY <1>0, <2>5 DEF Trap, InLib, TypeOK
  <2>6. CASE Halt
    BY <1>0, <2>6 DEF Halt
  <2> QED BY <1>2, <2>1, <2>2, <2>3, <2>4, <2>5, <2>6 DEF LibStep
<1>3. CASE Trigger
  BY <1>0, <1>3 DEF Trigger
<1>4. CASE ToolStep
  <2>1. CASE Attempt
    BY <1>0, <2>1 DEF Attempt, Finish
  <2>2. CASE ReadDir \/ ReadEnd \/ Attach
    BY <1>0, <2>2 DEF ReadDir, ReadEnd, Attach
  <2>3. CASE AttachFailed
    BY <1>0, <2>3 DEF AttachFailed, Finish
  <2>4. CASE FirstCall
    BY <1>0, <2>4 DEF FirstCall, Redirect, RedirectFailed
  <2>5. CASE Stopped
    BY <1>0, <2>5 DEF Stopped, Undisturbed
  <2>6. CASE Timeout
    BY <2>6 DEF Timeout, Undisturbed
  <2>7. CASE Returned
    BY <1>0, <2>7 DEF Returned, Redirect, RedirectFailed, TypeOK
  <2>8. CASE \E t \in Thread : RestoreThread(t)
    BY <1>0, <2>8 DEF RestoreThread
  <2>9. CASE Restored
    BY <1>0, <2>9 DEF Restored
  <2>10. CASE GdbReturn
    BY <2>10 DEF GdbReturn
  <2>11. CASE WaitFailed
    BY <2>11 DEF WaitFailed
  <2> QED BY <1>4, <2>1, <2>2, <2>3, <2>4, <2>5, <2>6, <2>7, <2>8, <2>9,
             <2>10, <2>11 DEF ToolStep
<1>5. CASE GdbCall \/ Killed
  BY <1>5 DEF GdbCall, Killed, Undisturbed
<1>6. CASE ToolExit
  BY <1>6 DEF ToolExit
<1>7. CASE UNCHANGED vars
  BY <1>7 DEF vars
<1> QED BY <1>1, <1>2, <1>3, <1>4, <1>5, <1>6, <1>7 DEF Next

\* The results of calls mean what they say in every undisturbed execution.
LEMMA ResultInvariant ==
  ASSUME Undisturbed
  PROVE  Spec => [](UnsafeInv /\ ResultInv)
<1>1. Init => ResultInv
  BY DEF Init, ResultInv, QuietInv, BusyInv
<1>2. (UnsafeInv /\ ResultInv) /\ [Next]_vars => ResultInv'
  BY NextResultInv
<1> QED BY <1>1, <1>2, UnsafeInvariant, PTL DEF Spec

\* In a process that is patched with ulp trigger alone, EAGAIN is the result of a
\* trigger only after its last attempt, and never after patches were reverted:
\* once the revert has found malloc and the loader quiet, the apply behind it
\* does, too, because nothing has moved in between.
THEOREM BusyOnlyAtTheEnd ==
  ASSUME Undisturbed
  PROVE  Spec => []BusyIsRetried
<1>1. UnsafeInv /\ ResultInv => BusyIsRetried
  BY DEF ResultInv, BusyInv, BusyIsRetried
<1> QED BY <1>1, ResultInvariant, PTL

=============================================================================
