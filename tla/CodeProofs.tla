----------------------------- MODULE CodeProofs -----------------------------
(***************************************************************************)
(* The code of the process follows the list of applied patches: the        *)
(* detours agree with the list, the queued writes with the detours, and    *)
(* the memory with what was queued, for every set of patches and functions *)
(* and every size of the instruction queue.                                *)
(***************************************************************************)
EXTENDS LivePatchProofs, WellFoundedInduction

\* The states in which a call is past its checks.
AtWork == {"load", "unit", "ref", "lib", "revert"}

\* The indices of the active detours of a function.
Act(f) == {k \in DOMAIN detours[f] : detours[f][k].active}

\* The list s has patch p in front of patch q, or they are the same.
Above(s, p, q) == \E m, o \in DOMAIN s : m <= o /\ s[m] = p /\ s[o] = q

\* Patch p has a unit for f and, if it is being applied, has come to it.
Reached(p, f) ==
  \E u \in DOMAIN Units[p] :
     Units[p][u] = f /\ (pc = "unit" /\ p = cur => u < i)

-----------------------------------------------------------------------------
(***************************************************************************)
(* The inductive invariant of the detours.                                 *)
(***************************************************************************)

\* The client waits exactly while the redirected thread is in libpulp, and no
\* call gets past its checks while an error is pending.
PhaseInv ==
  /\ client_pc = "wait" <=> pc # "stopped"
  /\ pc \in AtWork => error_state \in {"ENONE", "EINSNQ"}
  /\ client \in {"ulp"} \cup Clients

\* The patch whose units are being applied is the newest of the list.
NewestIsCur == pc = "unit" => patches # <<>> /\ patches[1] = cur

\* An active detour belongs to an applied patch ...
ActiveApplied ==
  \A f \in Fun : \A k \in Act(f) :
     detours[f][k].patch \in Applied /\ Reached(detours[f][k].patch, f)

\* ... every applied patch has one for each of its functions, unless it is
\* being reverted ...
AppliedActive ==
  \A f \in Fun : \A p \in Applied :
     Reached(p, f) /\ ~(pc = "revert" /\ p = cur) =>
        \E k \in Act(f) : detours[f][k].patch = p

\* ... they are in the order of the list ...
ActiveOrdered ==
  \A f \in Fun : \A k, l \in Act(f) :
     k < l => Above(patches, detours[f][k].patch, detours[f][l].patch)

\* ... and a patch has two for a function only if it names the function twice.
ActiveOnce ==
  \A f \in Fun : \A k, l \in Act(f) :
     k < l /\ detours[f][k].patch = detours[f][l].patch =>
        ~NoDuplicates(Units[detours[f][k].patch])

\* The loops of ulp_revert_all_units leave no active detour of the patch in the
\* part they have passed.
RevertProgress ==
  pc = "revert" =>
    \A m \in DOMAIN roots : \A k \in DOMAIN detours[roots[m]] :
       m < i \/ (m = i /\ k < j) =>
          ~(detours[roots[m]][k].active /\ detours[roots[m]][k].patch = cur)

\* A function without the nops has no detours, as the call that gives it one
\* fails.
UnpatchableFree == \A f \in Unpatchable : detours[f] = <<>>

DetourInv ==
  /\ NewestIsCur /\ ActiveApplied /\ AppliedActive /\ ActiveOrdered
  /\ ActiveOnce /\ RevertProgress /\ UnpatchableFree

\* A call that failed half way sets EUNKNOWN; nothing is claimed from then on.
ListInv ==
  /\ IInv /\ PhaseInv /\ RootsCoverDetours
  /\ error_state # "EUNKNOWN" => DetourInv

-----------------------------------------------------------------------------
(***************************************************************************)
(* What the type invariant says of the variables and of the cursors.       *)
(***************************************************************************)

\* The types of the lists, of the queue and of the memory.
LEMMA Types ==
  ASSUME IInv
  PROVE  /\ patches \in Seq(Patch) /\ NoDuplicates(patches)
         /\ Applied \subseteq Patch
         /\ roots \in Seq(Fun) /\ detours \in [Fun -> Seq(Detour)]
         /\ insns \in Seq(Insn) /\ num_insns \in Nat /\ size \in Nat
         /\ mem \in [Loc -> Patch \cup {NoPatch, Torn}] /\ n \in Nat \ {0}
<1>1. /\ patches \in Seq(Patch) /\ NoDuplicates(patches)
      /\ roots \in Seq(Fun) /\ detours \in [Fun -> Seq(Detour)]
      /\ insns \in Seq(Insn) /\ num_insns \in Nat /\ size \in 0..QueueMax
      /\ mem \in [Loc -> Patch \cup {NoPatch, Torn}] /\ n \in Nat \ {0}
  BY DEF IInv, TypeOK, LibTypeOK, ListWellFormed
<1>2. Applied \subseteq Patch
  BY <1>1 DEF Applied
<1>3. size \in Nat
  BY <1>1, LibpulpAssumption
<1> QED BY <1>1, <1>2, <1>3

\* The cursor of the loop over the units.
LEMMA UnitCursor ==
  ASSUME IInv, ApplyUnit
  PROVE  /\ pc = "unit" /\ cur \in Patch /\ Units[cur] \in Seq(Fun)
         /\ i \in DOMAIN Units[cur] /\ i \in Nat /\ Units[cur][i] \in Fun
<1>1. pc = "unit" /\ i <= Len(Units[cur])
  BY DEF ApplyUnit
<1>2. cur \in Patch /\ i \in 1..(Len(Units[cur]) + 1)
  BY <1>1 DEF IInv, TypeOK, LibTypeOK
<1>3. Units[cur] \in Seq(Fun)
  BY <1>2, LibpulpAssumption
<1>4. i \in DOMAIN Units[cur] /\ i \in Nat
  BY <1>1, <1>2, <1>3
<1> QED BY <1>1, <1>2, <1>3, <1>4

\* The cursor of the loop over the references.
LEMMA RefCursor ==
  ASSUME IInv, ApplyRef
  PROVE  /\ pc = "ref" /\ cur \in Patch /\ Refs[cur] \in Seq(Ref)
         /\ i \in DOMAIN Refs[cur] /\ i \in Nat /\ Refs[cur][i] \in Ref
<1>1. pc = "ref" /\ i <= Len(Refs[cur])
  BY DEF ApplyRef
<1>2. cur \in Patch /\ i \in 1..(Len(Refs[cur]) + 1)
  BY <1>1 DEF IInv, TypeOK, LibTypeOK
<1>3. Refs[cur] \in Seq(Ref)
  BY <1>2, LibpulpAssumption
<1>4. i \in DOMAIN Refs[cur] /\ i \in Nat
  BY <1>1, <1>2, <1>3
<1> QED BY <1>1, <1>2, <1>3, <1>4

\* The cursors of the loops over the roots and their detours.
LEMMA DetourCursor ==
  ASSUME IInv, RevertDetour
  PROVE  /\ pc = "revert" /\ i \in DOMAIN roots /\ i \in Nat
         /\ j \in Nat \ {0} /\ roots[i] \in Fun
<1>1. pc = "revert" /\ i <= Len(roots)
  BY DEF RevertDetour
<1>2. roots \in Seq(Fun) /\ i \in 1..(Len(roots) + 1) /\ j \in Nat \ {0}
  BY <1>1 DEF IInv, TypeOK, LibTypeOK
<1>3. i \in DOMAIN roots /\ i \in Nat
  BY <1>1, <1>2
<1> QED BY <1>1, <1>2, <1>3

-----------------------------------------------------------------------------
(***************************************************************************)
(* Phases and errors.                                                      *)
(***************************************************************************)

\* Every step keeps the phases of the call in order.
LEMMA NextPhaseInv ==
  ASSUME PhaseInv, [Next]_vars
  PROVE  PhaseInv'
<1> USE DEF PhaseInv, AtWork
<1>1. ASSUME NEW c \in {"ulp"} \cup Clients, NEW o, NEW a, Call(c, o, a)
      PROVE  PhaseInv'
  BY <1>1 DEF Call
<1>2. CASE SetPatchable
  BY <1>2 DEF SetPatchable, EnableOrDisable, clientVars
<1>3. CASE RunCall
  <2>1. UNCHANGED <<client, client_pc>>
    BY <1>3 DEF RunCall, clientVars
  <2>2. ASSUME NEW x, NEW v, memwrite(x, v)
        PROVE  error_state' \in {error_state, "EINSNQ"}
    BY <2>2 DEF memwrite
  <2>3. pc # "stopped" /\ pc' # "stopped"
    BY <1>3 DEF RunCall, LibStep, Entry, LoadApply, ApplyUnit, UnitsDone,
       ApplyRef, ApplyDone, LoadRevert, RevertDetour, RevertDone, RevertLib,
       RevertLibDone, Return, Fail, StartRevert
  <2>4. pc' \in AtWork => error_state' \in {"ENONE", "EINSNQ"}
    <3>1. CASE Entry
      BY <3>1 DEF Entry, Return
    <3>2. CASE LoadApply \/ LoadRevert \/ RevertDone \/ RevertLib
               \/ RevertLibDone \/ ApplyDone
      BY <3>2 DEF LoadApply, LoadRevert, RevertDone, RevertLib, RevertLibDone,
                  ApplyDone, Return
    <3>3. CASE UnitsDone
      BY <3>3 DEF UnitsDone, Fail, Return
    <3>4. CASE ApplyUnit
      BY <2>2, <3>4 DEF ApplyUnit, Fail, Return
    <3>5. CASE ApplyRef
      BY <2>2, <3>5 DEF ApplyRef, Fail, Return
    <3>6. CASE RevertDetour
      BY <2>2, <3>6 DEF RevertDetour
    <3> QED BY <1>3, <3>1, <3>2, <3>3, <3>4, <3>5, <3>6 DEF RunCall, LibStep
  <2> QED BY <2>1, <2>3, <2>4
<1>4. CASE CallReturned
  BY <1>4 DEF CallReturned, Report
<1>5. CASE Interpret \/ InterpretDone \/ Reset
  BY <1>5 DEF Interpret, InterpretFailed, InterpretDone, Reset, Report, libVars
<1>6. CASE UNCHANGED vars
  BY <1>6 DEF vars, libVars, clientVars
<1> QED BY <1>1, <1>2, <1>3, <1>4, <1>5, <1>6
           DEF Next, UlpTrigger, UlpRevertLib, GdbCall, ClientStep

\* No step leaves the state EUNKNOWN.
LEMMA UnknownStays ==
  ASSUME PhaseInv, [Next]_vars, error_state = "EUNKNOWN"
  PROVE  error_state' = "EUNKNOWN"
<1>1. CASE RunCall
  <2>1. pc \notin AtWork
    BY DEF PhaseInv
  <2> QED BY <1>1, <2>1 DEF AtWork, RunCall, LibStep, Entry, LoadApply,
             ApplyUnit, UnitsDone, ApplyRef, ApplyDone, LoadRevert,
             RevertDetour, RevertDone, RevertLib, RevertLibDone
<1>2. CASE SetPatchable
  BY <1>2 DEF SetPatchable, EnableOrDisable
<1>3. CASE ClientStep
  BY <1>3 DEF ClientStep, CallReturned, Interpret, InterpretDone, Reset, libVars
<1> QED BY <1>1, <1>2, <1>3 DEF Next, UlpTrigger, UlpRevertLib, GdbCall, Call,
           vars, libVars

-----------------------------------------------------------------------------
(***************************************************************************)
(* The roots.                                                              *)
(***************************************************************************)

\* push_new_root gives f a root, keeps the others, and makes no second one.
LEMMA PushRoot ==
  ASSUME roots \in Seq(Fun), NoDuplicates(roots), NEW f \in Fun
  PROVE  LET s == push_new_root(f) IN
         /\ NoDuplicates(s)
         /\ \E k \in DOMAIN s : s[k] = f
         /\ \A m \in DOMAIN roots : \E k \in DOMAIN s : s[k] = roots[m]
<1>1. CASE \E k \in DOMAIN roots : roots[k] = f
  BY <1>1 DEF push_new_root
<1>2. CASE ~\E k \in DOMAIN roots : roots[k] = f
  <2> DEFINE s == <<f>> \o roots
  <2>1. /\ Len(roots) \in Nat /\ DOMAIN roots = 1..Len(roots)
        /\ DOMAIN s = 1..(Len(roots) + 1)
        /\ s[1] = f
        /\ \A k \in 2..(Len(roots) + 1) : s[k] = roots[k - 1]
    OBVIOUS
  <2>2. push_new_root(f) = s
    BY <1>2 DEF push_new_root
  <2> HIDE DEF s
  <2>3. NoDuplicates(s)
    BY <1>2, <2>1 DEF NoDuplicates
  <2>4. \A m \in DOMAIN roots : m + 1 \in DOMAIN s /\ s[m + 1] = roots[m]
    BY <2>1
  <2> QED BY <2>1, <2>2, <2>3, <2>4
<1> QED BY <1>1, <1>2

\* Every step keeps the roots complete.
LEMMA NextRoots ==
  ASSUME IInv, RootsCoverDetours, [Next]_vars
  PROVE  RootsCoverDetours'
<1> USE DEF RootsCoverDetours
<1>1. CASE UNCHANGED <<roots, detours>>
  BY <1>1 DEF NoDuplicates
<1>2. CASE ApplyUnit
  <2> DEFINE f == Units[cur][i]
             s == push_new_root(f)
  <2>1. /\ f \in Fun /\ roots \in Seq(Fun) /\ detours \in [Fun -> Seq(Detour)]
    BY <1>2, Types, UnitCursor
  <2>2. /\ NoDuplicates(s)
        /\ \E k \in DOMAIN s : s[k] = f
        /\ \A m \in DOMAIN roots : \E k \in DOMAIN s : s[k] = roots[m]
    BY <2>1, PushRoot
  <2>3. /\ roots' \in {roots, s}
        /\ detours' = detours \/ (roots' = s /\ detours' = push_new_detour(f, cur))
    BY <1>2 DEF ApplyUnit
  <2> HIDE DEF s, f
  <2>4. \A g \in Fun \ {f} : push_new_detour(f, cur)[g] = detours[g]
    BY <2>1 DEF push_new_detour
  <2>5. NoDuplicates(roots)'
    BY <2>2, <2>3 DEF NoDuplicates
  <2>6. ASSUME NEW g \in Fun, detours'[g] # <<>>
        PROVE  \E k \in DOMAIN roots' : roots'[k] = g
    <3>1. CASE g = f /\ roots' = s
      BY <2>2, <3>1
    <3>2. CASE ~(g = f /\ roots' = s)
      <4>1. detours[g] # <<>>
        BY <2>3, <2>4, <2>6, <3>2
      <4>2. PICK m \in DOMAIN roots : roots[m] = g
        BY <4>1
      <4> QED BY <2>2, <2>3, <4>2
    <3> QED BY <3>1, <3>2
  <2> QED BY <2>5, <2>6
<1>3. CASE RevertDetour
  <2>1. detours \in [Fun -> Seq(Detour)] /\ roots' = roots
    BY <1>3, Types DEF RevertDetour
  <2>2. \A g \in Fun : detours[g] = <<>> => detours'[g] = <<>>
    <3>1. CASE detours' = detours
      BY <3>1
    <3>2. CASE detours' # detours
      <4>1. /\ j <= Len(detours[roots[i]]) /\ j \in Nat \ {0}
            /\ i \in DOMAIN roots
            /\ detours' = [detours EXCEPT ![roots[i]] =
                             [detours[roots[i]] EXCEPT ![j].active = FALSE]]
        BY <1>3, <3>2, DetourCursor DEF RevertDetour
      <4>2. detours[roots[i]] # <<>>
        BY <4>1
      <4> QED BY <2>1, <4>1, <4>2
    <3> QED BY <3>1, <3>2
  <2> QED BY <2>1, <2>2 DEF NoDuplicates
<1>4. CASE ~(ApplyUnit \/ RevertDetour)
  <2>1. UNCHANGED <<roots, detours>>
    BY <1>4 DEF Next, UlpTrigger, UlpRevertLib, GdbCall, Call, SetPatchable,
       EnableOrDisable, RunCall, LibStep, Entry, LoadApply, UnitsDone, ApplyRef,
       ApplyDone, LoadRevert, RevertDone, RevertLib, RevertLibDone, ClientStep,
       CallReturned, Interpret, InterpretDone, Reset, listVars, libVars, vars
  <2> QED BY <1>1, <2>1
<1> QED BY <1>2, <1>3, <1>4

-----------------------------------------------------------------------------
(***************************************************************************)
(* The detours, step by step.                                              *)
(***************************************************************************)

\* What push_new_detour makes of the detours of f, and of the others.
LEMMA PushedDetour ==
  ASSUME detours \in [Fun -> Seq(Detour)], NEW f \in Fun, NEW p \in Patch
  PROVE  LET D == push_new_detour(f, p) IN
         /\ \A g \in Fun \ {f} : D[g] = detours[g]
         /\ Len(detours[f]) \in Nat
         /\ DOMAIN detours[f] = 1..Len(detours[f])
         /\ DOMAIN D[f] = 1..(Len(detours[f]) + 1)
         /\ D[f][1].patch = p /\ D[f][1].active
         /\ \A k \in 1..Len(detours[f]) : D[f][k + 1] = detours[f][k]
<1> DEFINE d == [patch |-> p, active |-> TRUE]
<1>1. d.patch = p /\ d.active /\ d \in Detour
  BY DEF Detour
<1>2. detours[f] \in Seq(Detour)
  OBVIOUS
<1>3. push_new_detour(f, p) = [detours EXCEPT ![f] = <<d>> \o detours[f]]
  BY DEF push_new_detour
<1> HIDE DEF d
<1> QED BY <1>1, <1>2, <1>3

\* What deactivating detour k of the list ds does to it.
LEMMA Deactivate ==
  ASSUME NEW ds \in Seq(Detour), NEW k \in DOMAIN ds
  PROVE  LET off == [ds EXCEPT ![k].active = FALSE] IN
         /\ off \in Seq(Detour)
         /\ DOMAIN off = DOMAIN ds
         /\ \A m \in DOMAIN ds :
              /\ off[m].patch = ds[m].patch
              /\ m # k => off[m] = ds[m]
              /\ off[m].active => ds[m].active
         /\ ~off[k].active
<1> DEFINE d == [ds[k] EXCEPT !.active = FALSE]
           off == [ds EXCEPT ![k].active = FALSE]
<1>1. ds[k] \in Detour
  OBVIOUS
<1>2. d \in Detour /\ d.patch = ds[k].patch /\ ~d.active
  BY <1>1 DEF Detour
<1>3. off = [ds EXCEPT ![k] = d]
  OBVIOUS
<1> HIDE DEF d, off
<1>4. off \in Seq(Detour)
  BY <1>2, <1>3, SeqUpdate
<1> QED BY <1>2, <1>3, <1>4 DEF off

\* A step that leaves the list and the detours alone and does not change which
\* units count as applied keeps the invariant.
LEMMA DetourKept ==
  ASSUME DetourInv, patches' = patches, detours' = detours,
         pc = "revert" => pc' = "revert" /\ cur' = cur,
         \A f \in Fun, p \in Applied : Reached(p, f)' <=> Reached(p, f),
         NewestIsCur', RevertProgress'
  PROVE  DetourInv'
<1> USE DEF DetourInv
<1>1. Applied' = Applied
  BY DEF Applied
<1>2. ActiveApplied'
  BY <1>1 DEF ActiveApplied, Act
<1>3. AppliedActive'
  BY <1>1 DEF AppliedActive, Act
<1>4. ActiveOrdered'
  BY DEF ActiveOrdered, Act
<1>5. ActiveOnce' /\ UnpatchableFree'
  BY DEF ActiveOnce, UnpatchableFree, Act
<1> QED BY <1>2, <1>3, <1>4, <1>5

\* The same for a step outside the loops over units and over detours.
LEMMA DetourFrame ==
  ASSUME DetourInv, patches' = patches, detours' = detours,
         pc \notin {"unit", "revert"}, pc' \notin {"unit", "revert"}
  PROVE  DetourInv'
<1>1. \A f \in Fun, p \in Applied : Reached(p, f)' <=> Reached(p, f)
  BY DEF Reached
<1>2. NewestIsCur' /\ RevertProgress'
  BY DEF NewestIsCur, RevertProgress
<1> QED BY <1>1, <1>2, DetourKept

\* The loops of a revert start with nothing passed.
LEMMA DetourStartRevert ==
  ASSUME IInv, DetourInv, patches' = patches, detours' = detours,
         roots' = roots, pc \notin {"unit", "revert"}, pc' = "revert",
         i' = 1, j' = 1
  PROVE  DetourInv'
<1>1. \A f \in Fun, p \in Applied : Reached(p, f)' <=> Reached(p, f)
  BY DEF Reached
<1>2. NewestIsCur'
  BY DEF NewestIsCur
<1>3. RevertProgress'
  <2> SUFFICES ASSUME NEW m \in DOMAIN roots, NEW k \in DOMAIN detours[roots[m]],
                      m < 1 \/ (m = 1 /\ k < 1)
               PROVE  FALSE
    BY DEF RevertProgress
  <2>1. roots \in Seq(Fun) /\ detours \in [Fun -> Seq(Detour)]
    BY DEF IInv, TypeOK, LibTypeOK
  <2> QED BY <2>1
<1> QED BY <1>1, <1>2, <1>3, DetourKept

\* Once all units are applied, they all count.
LEMMA UnitsDoneDetours ==
  ASSUME IInv, DetourInv, UnitsDone, error_state' # "EUNKNOWN"
  PROVE  DetourInv'
<1>1. /\ pc = "unit" /\ pc' = "ref" /\ i > Len(Units[cur])
      /\ patches' = patches /\ detours' = detours
  BY DEF UnitsDone, Fail, listVars
<1>2. /\ cur \in Patch /\ i \in Nat /\ Units[cur] \in Seq(Fun)
      /\ Applied \subseteq Patch
  BY <1>1, LibpulpAssumption DEF IInv, TypeOK, LibTypeOK, Applied
<1>3. \A u \in DOMAIN Units[cur] : u < i
  BY <1>1, <1>2
<1>4. \A f \in Fun, p \in Applied : Reached(p, f)' <=> Reached(p, f)
  BY <1>1, <1>3 DEF Reached
<1>5. NewestIsCur' /\ RevertProgress'
  BY <1>1 DEF NewestIsCur, RevertProgress
<1> QED BY <1>1, <1>4, <1>5, DetourKept

\* A patch that passed the sanity checks is pushed; none of its units counts.
LEMMA LoadApplyDetours ==
  ASSUME IInv, DetourInv, LoadApply, patches' # patches
  PROVE  DetourInv'
<1> USE DEF DetourInv
<1>1. /\ pc = "load" /\ pc' = "unit" /\ cur' = arg /\ i' = 1
      /\ patches' = <<arg>> \o patches /\ detours' = detours
      /\ check_patch_sanity(arg) = "ENONE"
  BY DEF LoadApply, listVars
<1>2. arg \in Patch /\ patches \in Seq(Patch) /\ Units[arg] \in Seq(Fun)
  BY <1>1, LibpulpAssumption DEF IInv, TypeOK, LibTypeOK
<1>3. arg \notin Applied
  BY <1>1 DEF check_patch_sanity
<1>4. /\ Len(patches) \in Nat /\ DOMAIN patches = 1..Len(patches)
      /\ DOMAIN patches' = 1..(Len(patches) + 1)
      /\ patches'[1] = arg /\ patches' # <<>>
      /\ \A k \in DOMAIN patches : patches'[k + 1] = patches[k]
  BY <1>1, <1>2
<1>5. Applied' = Applied \cup {arg}
  <2>1. \A k \in DOMAIN patches' : patches'[k] \in Applied \cup {arg}
    <3> SUFFICES ASSUME NEW k \in DOMAIN patches'
                 PROVE  patches'[k] \in Applied \cup {arg}
      OBVIOUS
    <3>1. k = 1 \/ (k - 1 \in DOMAIN patches /\ patches'[k] = patches[k - 1])
      BY <1>4
    <3> QED BY <1>4, <3>1 DEF Applied
  <2>2. \A k \in DOMAIN patches : k + 1 \in DOMAIN patches'
    BY <1>4
  <2> QED BY <1>4, <2>1, <2>2 DEF Applied
<1>6. ASSUME NEW p \in Applied, NEW f \in Fun
      PROVE  Reached(p, f)' <=> Reached(p, f)
  BY <1>1, <1>3 DEF Reached
<1>7. ASSUME NEW p, p = arg, NEW f \in Fun
      PROVE  ~Reached(p, f)'
  BY <1>1, <1>2, <1>7 DEF Reached
<1>8. ASSUME NEW p, NEW q, Above(patches, p, q)
      PROVE  Above(patches', p, q)
  <2>1. PICK m, o \in DOMAIN patches :
               m <= o /\ patches[m] = p /\ patches[o] = q
    BY <1>8 DEF Above
  <2>2. /\ m + 1 \in DOMAIN patches' /\ o + 1 \in DOMAIN patches'
        /\ m + 1 <= o + 1 /\ patches'[m + 1] = p /\ patches'[o + 1] = q
    BY <1>4, <2>1
  <2> QED BY <2>2 DEF Above
<1>9. NewestIsCur' /\ RevertProgress' /\ UnpatchableFree'
  BY <1>1, <1>4 DEF NewestIsCur, RevertProgress, UnpatchableFree
<1>10. ActiveApplied'
  BY <1>1, <1>3, <1>5 DEF ActiveApplied, Act, Reached
<1>11. AppliedActive'
  <2> SUFFICES ASSUME NEW f \in Fun, NEW p \in Applied \cup {arg},
                      Reached(p, f)'
               PROVE  \E k \in Act(f) : detours[f][k].patch = p
    BY <1>1, <1>5 DEF AppliedActive, Act
  <2>1. p # arg
    BY <1>7
  <2>2. Reached(p, f)
    BY <1>6, <2>1
  <2> QED BY <1>1, <2>1, <2>2 DEF AppliedActive
<1>12. ActiveOrdered'
  BY <1>1, <1>8 DEF ActiveOrdered, Act
<1>13. ActiveOnce'
  BY <1>1 DEF ActiveOnce, Act
<1> QED BY <1>9, <1>10, <1>11, <1>12, <1>13

\* A unit that is applied puts a detour of the newest patch in front.
LEMMA ApplyUnitDetours ==
  ASSUME IInv, DetourInv, ApplyUnit, error_state' # "EUNKNOWN"
  PROVE  DetourInv'
<1> USE DEF DetourInv
<1>0. /\ cur \in Patch /\ i \in DOMAIN Units[cur] /\ i \in Nat
      /\ Units[cur] \in Seq(Fun) /\ Units[cur][i] \in Fun
      /\ detours \in [Fun -> Seq(Detour)] /\ patches \in Seq(Patch)
  BY Types, UnitCursor
<1>a. PICK f \in Fun : f = Units[cur][i]
  BY <1>0
<1>b. PICK c \in Patch : c = cur
  BY <1>0
<1>1. /\ pc = "unit" /\ pc' = "unit" /\ i' = i + 1
      /\ cur' = cur /\ patches' = patches /\ f \notin Unpatchable
      /\ detours' = push_new_detour(f, c)
  BY <1>a, <1>b DEF ApplyUnit, Fail
<1>3. /\ \A g \in Fun \ {f} : detours'[g] = detours[g]
      /\ Len(detours[f]) \in Nat
      /\ DOMAIN detours[f] = 1..Len(detours[f])
      /\ DOMAIN detours'[f] = 1..(Len(detours[f]) + 1)
      /\ detours'[f][1].patch = c /\ detours'[f][1].active
      /\ \A k \in 1..Len(detours[f]) : detours'[f][k + 1] = detours[f][k]
  <2> DEFINE D == push_new_detour(f, c)
  <2>1. /\ \A g \in Fun \ {f} : D[g] = detours[g]
        /\ Len(detours[f]) \in Nat
        /\ DOMAIN detours[f] = 1..Len(detours[f])
        /\ DOMAIN D[f] = 1..(Len(detours[f]) + 1)
        /\ D[f][1].patch = c /\ D[f][1].active
        /\ \A k \in 1..Len(detours[f]) : D[f][k + 1] = detours[f][k]
    BY <1>0, PushedDetour
  <2>2. detours' = D
    BY <1>1
  <2> HIDE DEF D
  <2> QED BY <2>1, <2>2
<1>4. /\ Applied' = Applied /\ c \in Applied
      /\ 1 \in DOMAIN patches /\ patches[1] = c
  BY <1>0, <1>1, <1>b DEF Applied, NewestIsCur
<1>5. \A u \in DOMAIN Units[c] : u < i + 1 <=> u < i \/ u = i
  <2>1. \A u \in DOMAIN Units[c] : u \in Nat
    BY LibpulpAssumption
  <2>2. i \in Nat
    BY <1>0
  <2> QED BY <2>1, <2>2
<1>6. Reached(c, f)'
  BY <1>0, <1>1, <1>5, <1>a, <1>b DEF Reached
<1>7. \A p, g : Reached(p, g) => Reached(p, g)'
  BY <1>1, <1>5, <1>b DEF Reached
<1>8. \A p, g : Reached(p, g)' => Reached(p, g) \/ (p = c /\ g = f)
  BY <1>1, <1>5, <1>a, <1>b DEF Reached
<1>9. ASSUME NEW k \in DOMAIN detours'[f], detours'[f][k].active, k # 1
      PROVE  /\ k - 1 \in Act(f) /\ detours'[f][k] = detours[f][k - 1]
             /\ k > 1 /\ k \in Nat
  <2>1. k - 1 \in DOMAIN detours[f] /\ k > 1 /\ k \in Nat /\ (k - 1) + 1 = k
    BY <1>3, <1>9
  <2>2. detours'[f][k] = detours[f][k - 1]
    BY <1>3, <2>1
  <2> QED BY <1>9, <2>1, <2>2 DEF Act
<1>10. \A k \in Act(f) : k + 1 \in DOMAIN detours'[f]
                         /\ detours'[f][k + 1] = detours[f][k]
  BY <1>3 DEF Act
<1>11. NewestIsCur' /\ RevertProgress' /\ UnpatchableFree'
  <2>1. NewestIsCur' /\ RevertProgress'
    BY <1>1 DEF NewestIsCur, RevertProgress
  <2>2. UnpatchableFree'
    BY <1>1, <1>3, LibpulpAssumption DEF UnpatchableFree
  <2> QED BY <2>1, <2>2
<1>12. ActiveApplied'
  <2> SUFFICES ASSUME NEW g \in Fun, NEW k \in DOMAIN detours'[g],
                      detours'[g][k].active, NEW p, p = detours'[g][k].patch
               PROVE  p \in Applied /\ Reached(p, g)'
    BY <1>4 DEF ActiveApplied, Act, Reached
  <2>1. CASE g # f
    <3>1. k \in Act(g) /\ p = detours[g][k].patch
      BY <1>3, <2>1 DEF Act
    <3>2. p \in Applied /\ Reached(p, g)
      BY <3>1 DEF ActiveApplied
    <3> QED BY <1>7, <3>2
  <2>2. CASE g = f /\ k = 1
    BY <1>3, <1>4, <1>6, <2>2
  <2>3. CASE g = f /\ k # 1
    <3>1. k - 1 \in Act(f) /\ p = detours[f][k - 1].patch
      BY <1>9, <2>3
    <3>2. p \in Applied /\ Reached(p, f)
      BY <3>1 DEF ActiveApplied
    <3> QED BY <1>7, <2>3, <3>2
  <2> QED BY <2>1, <2>2, <2>3
<1>13. AppliedActive'
  <2> SUFFICES ASSUME NEW g \in Fun, NEW p \in Applied, Reached(p, g)'
               PROVE  \E k \in DOMAIN detours'[g] :
                         detours'[g][k].active /\ detours'[g][k].patch = p
    BY <1>4 DEF AppliedActive, Act
  <2>1. CASE p = c /\ g = f
    <3>1. 1 \in DOMAIN detours'[f]
      BY <1>3
    <3> QED BY <1>3, <2>1, <3>1
  <2>2. CASE ~(p = c /\ g = f)
    <3>1. Reached(p, g)
      BY <1>8, <2>2
    <3>2. PICK k \in Act(g) : detours[g][k].patch = p
      BY <1>1, <3>1 DEF AppliedActive
    <3>3. CASE g # f
      BY <1>3, <3>2, <3>3 DEF Act
    <3>4. CASE g = f
      BY <1>10, <3>2, <3>4 DEF Act
    <3> QED BY <3>3, <3>4
  <2> QED BY <2>1, <2>2
<1>14. ActiveOrdered'
  <2> SUFFICES ASSUME NEW g \in Fun,
                      NEW k \in DOMAIN detours'[g], detours'[g][k].active,
                      NEW l \in DOMAIN detours'[g], detours'[g][l].active, k < l
               PROVE  Above(patches, detours'[g][k].patch, detours'[g][l].patch)
    BY <1>1 DEF ActiveOrdered, Act
  <2>1. CASE g # f
    BY <1>3, <2>1 DEF ActiveOrdered, Act
  <2>2. CASE g = f /\ k = 1
    <3>1. l - 1 \in Act(f) /\ detours'[f][l] = detours[f][l - 1]
      BY <1>3, <1>9, <2>2
    <3>2. detours[f][l - 1].patch \in Applied
      BY <3>1 DEF ActiveApplied
    <3>3. PICK o \in DOMAIN patches : patches[o] = detours[f][l - 1].patch
      BY <3>2 DEF Applied
    <3>4. 1 <= o
      BY <1>0, <3>3
    <3> QED BY <1>3, <1>4, <2>2, <3>1, <3>3, <3>4 DEF Above
  <2>3. CASE g = f /\ k # 1
    <3>1. /\ k - 1 \in Act(f) /\ detours'[f][k] = detours[f][k - 1]
          /\ k > 1 /\ k \in Nat
      BY <1>9, <2>3
    <3>2. l # 1 /\ l \in Nat
      BY <1>3, <2>3, <3>1
    <3>3. l - 1 \in Act(f) /\ detours'[f][l] = detours[f][l - 1]
      BY <1>9, <2>3, <3>2
    <3>4. k - 1 < l - 1
      BY <3>1, <3>2
    <3> QED BY <2>3, <3>1, <3>3, <3>4 DEF ActiveOrdered
  <2> QED BY <2>1, <2>2, <2>3
<1>15. ActiveOnce'
  <2> SUFFICES ASSUME NEW g \in Fun,
                      NEW k \in DOMAIN detours'[g], detours'[g][k].active,
                      NEW l \in DOMAIN detours'[g], detours'[g][l].active,
                      k < l, detours'[g][k].patch = detours'[g][l].patch
               PROVE  ~NoDuplicates(Units[detours'[g][k].patch])
    BY DEF ActiveOnce, Act, NoDuplicates
  <2>1. CASE g # f
    BY <1>3, <2>1 DEF ActiveOnce, Act
  <2>2. CASE g = f /\ k = 1
    <3>1. l - 1 \in Act(f) /\ detours'[f][l] = detours[f][l - 1]
      BY <1>3, <1>9, <2>2
    <3>2. detours[f][l - 1].patch = c
      BY <1>3, <2>2, <3>1
    <3>3. Reached(c, f)
      BY <3>1, <3>2 DEF ActiveApplied, Reached
    <3>4. PICK u \in DOMAIN Units[c] : Units[c][u] = f /\ u < i
      BY <1>1, <1>b, <3>3 DEF Reached
    <3>5. u # i /\ i \in DOMAIN Units[c] /\ Units[c][i] = f
      BY <1>0, <1>a, <1>b, <3>4
    <3>6. ~NoDuplicates(Units[c])
      BY <3>4, <3>5 DEF NoDuplicates
    <3> QED BY <1>3, <2>2, <3>6
  <2>3. CASE g = f /\ k # 1
    <3>1. /\ k - 1 \in Act(f) /\ detours'[f][k] = detours[f][k - 1]
          /\ k > 1 /\ k \in Nat
      BY <1>9, <2>3
    <3>2. l # 1 /\ l \in Nat
      BY <1>3, <2>3, <3>1
    <3>3. l - 1 \in Act(f) /\ detours'[f][l] = detours[f][l - 1]
      BY <1>9, <2>3, <3>2
    <3>4. k - 1 < l - 1
      BY <3>1, <3>2
    <3> QED BY <2>3, <3>1, <3>3, <3>4 DEF ActiveOnce
  <2> QED BY <2>1, <2>2, <2>3
<1> QED BY <1>11, <1>12, <1>13, <1>14, <1>15

\* The loops over roots and detours deactivate the detours they pass.
LEMMA RevertDetourDetours ==
  ASSUME IInv, DetourInv, RevertDetour
  PROVE  DetourInv'
<1> USE DEF DetourInv
<1>0. /\ roots \in Seq(Fun) /\ detours \in [Fun -> Seq(Detour)]
      /\ i \in DOMAIN roots /\ i \in Nat /\ j \in Nat \ {0} /\ roots[i] \in Fun
      /\ pc = "revert"
  BY Types, DetourCursor
<1>a. PICK f \in Fun : f = roots[i]
  BY <1>0
<1>b. detours[f] \in Seq(Detour) /\ Len(detours[f]) \in Nat
      /\ DOMAIN detours[f] = 1..Len(detours[f])
  BY <1>0
<1>1. /\ patches' = patches /\ roots' = roots /\ pc' = "revert" /\ cur' = cur
      /\ pc = "revert"
  BY DEF RevertDetour
<1>2. \A g \in Fun, p \in Applied : Reached(p, g)' <=> Reached(p, g)
  BY <1>1 DEF Reached
<1>3. NewestIsCur'
  BY <1>1 DEF NewestIsCur
<1>4. CASE j > Len(detours[f])
  <2>1. i' = i + 1 /\ j' = 1 /\ detours' = detours
    BY <1>4, <1>0, <1>a, <1>b DEF RevertDetour
  <2>2. RevertProgress'
    <3> SUFFICES ASSUME NEW m \in DOMAIN roots, NEW k \in DOMAIN detours[roots[m]],
                        m < i + 1 \/ (m = i + 1 /\ k < 1)
                 PROVE  m < i \/ (m = i /\ k < j)
      BY <1>1, <2>1 DEF RevertProgress
    <3>1. roots[m] \in Fun /\ m \in Nat
      BY <1>0
    <3>2. k \in Nat /\ k >= 1 /\ k <= Len(detours[roots[m]])
          /\ Len(detours[roots[m]]) \in Nat
      BY <1>0, <3>1
    <3> QED BY <1>0, <1>4, <1>a, <3>1, <3>2
  <2> QED BY <1>1, <1>2, <1>3, <2>1, <2>2, DetourKept
<1>5. CASE j <= Len(detours[f]) /\ detours[f][j].patch # cur
  <2>1. i' = i /\ j' = j + 1 /\ detours' = detours
    BY <1>5, <1>0, <1>a, <1>b DEF RevertDetour
  <2>2. RevertProgress'
    <3> SUFFICES ASSUME NEW m \in DOMAIN roots, NEW k \in DOMAIN detours[roots[m]],
                        m < i \/ (m = i /\ k < j + 1)
                 PROVE  \/ m < i \/ (m = i /\ k < j)
                        \/ detours[roots[m]][k].patch # cur
      BY <1>1, <2>1 DEF RevertProgress
    <3>1. roots[m] \in Fun /\ m \in Nat
      BY <1>0
    <3>2. k \in Nat
      BY <1>0, <3>1
    <3> QED BY <1>0, <1>5, <1>a, <3>1, <3>2
  <2> QED BY <1>1, <1>2, <1>3, <2>1, <2>2, DetourKept
<1>6. CASE j <= Len(detours[f]) /\ detours[f][j].patch = cur
  <2> DEFINE off == [detours[f] EXCEPT ![j].active = FALSE]
  <2>1. i' = i /\ j' = j + 1 /\ detours' = [detours EXCEPT ![f] = off]
    BY <1>6, <1>0, <1>a, <1>b DEF RevertDetour
  <2>2. j \in DOMAIN detours[f]
    BY <1>0, <1>6, <1>b
  <2>3. /\ DOMAIN off = DOMAIN detours[f]
        /\ \A m \in DOMAIN detours[f] :
             /\ off[m].patch = detours[f][m].patch
             /\ m # j => off[m] = detours[f][m]
             /\ off[m].active => detours[f][m].active
        /\ ~off[j].active
    BY <1>b, <2>2, Deactivate
  <2> HIDE DEF off
  <2>4. /\ detours'[f] = off
        /\ \A g \in Fun \ {f} : detours'[g] = detours[g]
    BY <1>0, <2>1
  <2>5. \A g \in Fun :
          /\ DOMAIN detours'[g] = DOMAIN detours[g]
          /\ \A k \in DOMAIN detours[g] :
               /\ detours'[g][k].patch = detours[g][k].patch
               /\ detours'[g][k].active => detours[g][k].active
               /\ detours[g][k].active /\ detours[g][k].patch # cur
                    => detours'[g][k].active
    BY <1>6, <2>3, <2>4
  <2>6. Applied' = Applied
    BY <1>1 DEF Applied
  <2>7. ActiveApplied'
    <3> SUFFICES ASSUME NEW g \in Fun, NEW k \in DOMAIN detours[g],
                        detours[g][k].active, NEW p, p = detours[g][k].patch
                 PROVE  p \in Applied /\ Reached(p, g)'
      BY <2>5, <2>6 DEF ActiveApplied, Act, Reached
    <3>1. p \in Applied /\ Reached(p, g)
      BY DEF ActiveApplied, Act
    <3> QED BY <1>2, <3>1
  <2>8. AppliedActive'
    <3> SUFFICES ASSUME NEW g \in Fun, NEW p \in Applied, Reached(p, g)', p # cur
                 PROVE  \E k \in DOMAIN detours'[g] :
                          detours'[g][k].active /\ detours'[g][k].patch = p
      BY <1>1, <2>6 DEF AppliedActive, Act
    <3>1. Reached(p, g)
      BY <1>2
    <3>2. PICK k \in Act(g) : detours[g][k].patch = p
      BY <3>1 DEF AppliedActive
    <3> QED BY <2>5, <3>2 DEF Act
  <2>9. ActiveOrdered'
    BY <1>1, <2>5 DEF ActiveOrdered, Act
  <2>10. ActiveOnce'
    BY <2>5 DEF ActiveOnce, Act
  <2>11. UnpatchableFree'
    <3> SUFFICES ASSUME NEW g \in Unpatchable PROVE detours'[g] = <<>>
      BY DEF UnpatchableFree
    <3>1. g # f
      BY <1>b, <2>2 DEF UnpatchableFree
    <3> QED BY <2>4, <3>1, LibpulpAssumption DEF UnpatchableFree
  <2>12. RevertProgress'
    <3> SUFFICES ASSUME NEW m \in DOMAIN roots, NEW k \in DOMAIN detours[roots[m]],
                        m < i \/ (m = i /\ k < j + 1),
                        detours'[roots[m]][k].active
                 PROVE  detours[roots[m]][k].patch # cur
      <4>1. \A m \in DOMAIN roots : roots[m] \in Fun
        BY <1>0
      <4> QED BY <1>1, <2>1, <2>5, <4>1 DEF RevertProgress
    <3>1. roots[m] \in Fun /\ m \in Nat
      BY <1>0
    <3>2. k \in Nat /\ detours[roots[m]][k].active
      BY <1>0, <2>5, <3>1
    <3>3. CASE m = i /\ k = j
      BY <1>a, <2>3, <2>4, <3>3
    <3>4. CASE ~(m = i /\ k = j)
      <4>1. m < i \/ (m = i /\ k < j)
        BY <1>0, <3>1, <3>2, <3>4
      <4> QED BY <1>1, <3>2, <4>1 DEF RevertProgress
    <3> QED BY <3>3, <3>4
  <2> QED BY <1>3, <2>7, <2>8, <2>9, <2>10, <2>11, <2>12
<1> QED BY <1>0, <1>4, <1>5, <1>6, <1>b

\* Removing a patch from the list removes that patch only, and keeps the order
\* of the others.
LEMMA RemovedList ==
  ASSUME patches \in Seq(Patch), NoDuplicates(patches), NEW p \in Applied
  PROVE  LET s == ulp_state_remove(p) IN
         /\ {s[k] : k \in DOMAIN s} = Applied \ {p}
         /\ \A q, r : Above(patches, q, r) /\ q # p /\ r # p => Above(s, q, r)
<1> DEFINE s == ulp_state_remove(p)
           P == Pos(p)
<1>1. P \in 1..Len(patches) /\ patches[P] = p /\ Len(patches) \in Nat
      /\ DOMAIN patches = 1..Len(patches)
  BY PosInList
<1>2. /\ DOMAIN s = 1..(Len(patches) - 1)
      /\ \A k \in 1..(Len(patches) - 1) :
            s[k] = IF k < P THEN patches[k] ELSE patches[k + 1]
  BY DEF ulp_state_remove
<1> HIDE DEF s, P
<1>3. ASSUME NEW k \in DOMAIN s
      PROVE  s[k] \in Applied \ {p}
  <2> DEFINE k0 == IF k < P THEN k ELSE k + 1
  <2>1. k0 \in DOMAIN patches /\ s[k] = patches[k0] /\ k0 # P
    BY <1>1, <1>2
  <2>2. patches[k0] # p
    BY <1>1, <2>1 DEF NoDuplicates
  <2> QED BY <2>1, <2>2 DEF Applied
<1>4. ASSUME NEW m \in DOMAIN patches, patches[m] # p
      PROVE  LET m0 == IF m < P THEN m ELSE m - 1
             IN m0 \in DOMAIN s /\ s[m0] = patches[m]
  <2>1. m # P
    BY <1>1, <1>4
  <2>2. CASE m < P
    BY <1>1, <1>2, <2>2
  <2>3. CASE m > P
    BY <1>1, <1>2, <2>3
  <2> QED BY <1>1, <2>1, <2>2, <2>3
<1>5. ASSUME NEW q \in Applied \ {p}
      PROVE  \E k \in DOMAIN s : s[k] = q
  <2>1. PICK m \in DOMAIN patches : patches[m] = q
    BY DEF Applied
  <2> QED BY <1>4, <2>1
<1>6. ASSUME NEW q, NEW r, Above(patches, q, r), q # p, r # p
      PROVE  Above(s, q, r)
  <2>1. PICK m, o \in DOMAIN patches :
               m <= o /\ patches[m] = q /\ patches[o] = r
    BY <1>6 DEF Above
  <2> DEFINE m0 == IF m < P THEN m ELSE m - 1
             o0 == IF o < P THEN o ELSE o - 1
  <2>2. m0 \in DOMAIN s /\ s[m0] = q
    BY <1>4, <1>6, <2>1
  <2>3. o0 \in DOMAIN s /\ s[o0] = r
    BY <1>4, <1>6, <2>1
  <2>4. m0 <= o0
    <3>1. m # P
      BY <1>1, <1>6, <2>1
    <3> QED BY <1>1, <2>1, <3>1
  <2> HIDE DEF m0, o0
  <2> QED BY <2>2, <2>3, <2>4 DEF Above
<1>7. {s[k] : k \in DOMAIN s} = Applied \ {p}
  BY <1>3, <1>5
<1> QED BY <1>6, <1>7 DEF s

\* When the loops are through, the reverted patch has no active detour left.
LEMMA RevertDoneDetours ==
  ASSUME IInv, RootsCoverDetours, DetourInv, RevertDone
  PROVE  DetourInv'
<1> USE DEF DetourInv
<1>0. /\ roots \in Seq(Fun) /\ detours \in [Fun -> Seq(Detour)]
      /\ i \in Nat /\ i > Len(roots) /\ pc = "revert"
      /\ patches \in Seq(Patch) /\ NoDuplicates(patches) /\ cur \in Applied
  BY DEF RevertDone, IInv, TypeOK, LibTypeOK, ListWellFormed, WalkInList
<1>1. /\ pc' \in {"lib", "done"} /\ detours' = detours
      /\ patches' = ulp_state_remove(cur)
  BY <1>0 DEF RevertDone
<1>2. /\ Applied' = Applied \ {cur}
      /\ \A q, r : Above(patches, q, r) /\ q # cur /\ r # cur
                     => Above(patches', q, r)
  BY <1>0, <1>1, RemovedList DEF Applied
<1>3. ASSUME NEW f \in Fun, NEW k \in Act(f)
      PROVE  detours[f][k].patch # cur
  <2>1. k \in DOMAIN detours[f] /\ detours[f][k].active
    BY DEF Act
  <2>2. detours[f] # <<>>
    BY <2>1
  <2>3. PICK m \in DOMAIN roots : roots[m] = f
    BY <2>2 DEF RootsCoverDetours
  <2>4. m < i
    BY <1>0, <2>3
  <2> QED BY <1>0, <2>1, <2>3, <2>4 DEF RevertProgress
<1>4. NewestIsCur' /\ RevertProgress' /\ UnpatchableFree'
  BY <1>1 DEF NewestIsCur, RevertProgress, UnpatchableFree
<1>5. \A f \in Fun, p \in Applied : Reached(p, f)' <=> Reached(p, f)
  BY <1>0, <1>1 DEF Reached
<1>6. ActiveApplied'
  BY <1>0, <1>1, <1>2, <1>3 DEF ActiveApplied, Act, Reached
<1>7. AppliedActive'
  BY <1>1, <1>2, <1>5 DEF AppliedActive, Act
<1>8. ActiveOrdered'
  BY <1>1, <1>2, <1>3 DEF ActiveOrdered, Act
<1>9. ActiveOnce'
  BY <1>1 DEF ActiveOnce, Act
<1> QED BY <1>4, <1>6, <1>7, <1>8, <1>9

\* Every step keeps the detours in agreement with the list.
LEMMA NextDetourInv ==
  ASSUME IInv, PhaseInv, RootsCoverDetours, DetourInv, [Next]_vars,
         error_state' # "EUNKNOWN"
  PROVE  DetourInv'
<1>1. ASSUME NEW c, NEW o, NEW a, Call(c, o, a)
      PROVE  DetourInv'
  <2>1. pc = "stopped" /\ pc' = "entry" /\ patches' = patches /\ detours' = detours
    BY <1>1 DEF Call, PhaseInv, listVars, IInv, TypeOK
  <2> QED BY <2>1, DetourFrame
<1>2. CASE SetPatchable
  <2>1. pc = "stopped" /\ pc' = "stopped" /\ patches' = patches /\ detours' = detours
    BY <1>2 DEF SetPatchable, EnableOrDisable, listVars
  <2> QED BY <2>1, DetourFrame
<1>3. CASE Entry \/ ApplyRef \/ ApplyDone \/ RevertLibDone
  <2>1. /\ pc \notin {"unit", "revert"} /\ pc' \notin {"unit", "revert"}
        /\ patches' = patches /\ detours' = detours
    BY <1>3 DEF Entry, ApplyRef, ApplyDone, RevertLibDone, Return, Fail, listVars
  <2> QED BY <2>1, DetourFrame
<1>4. CASE LoadApply
  <2>1. CASE patches' # patches
    BY <1>4, <2>1, LoadApplyDetours
  <2>2. CASE patches' = patches
    <3>1. pc = "load" /\ pc' = "done" /\ detours' = detours
      <4>1. patches # <<arg>> \o patches
        BY <1>4 DEF LoadApply, IInv, TypeOK, LibTypeOK
      <4> QED BY <1>4, <2>2, <4>1 DEF LoadApply, Return, listVars
    <3> QED BY <2>2, <3>1, DetourFrame
  <2> QED BY <2>1, <2>2
<1>5. CASE LoadRevert \/ RevertLib
  <2>1. /\ patches' = patches /\ detours' = detours /\ roots' = roots
        /\ pc \notin {"unit", "revert"}
        /\ \/ pc' \notin {"unit", "revert"}
           \/ pc' = "revert" /\ i' = 1 /\ j' = 1
    BY <1>5 DEF LoadRevert, RevertLib, Return, StartRevert
  <2> QED BY <2>1, DetourFrame, DetourStartRevert
<1>6. CASE CallReturned
  <2>1. /\ pc = "done" /\ pc' = "stopped"
        /\ patches' = patches /\ detours' = detours
    BY <1>6 DEF CallReturned, listVars
  <2> QED BY <2>1, DetourFrame
<1>7. CASE Interpret \/ InterpretDone \/ Reset
  <2>1. /\ pc = "stopped" /\ pc' = "stopped"
        /\ patches' = patches /\ detours' = detours
    BY <1>7 DEF Interpret, InterpretDone, Reset, PhaseInv, listVars, libVars
  <2> QED BY <2>1, DetourFrame
<1>8. CASE UNCHANGED vars
  <2>1. UNCHANGED <<patches, detours, roots, pc, cur, i, j>>
    BY <1>8 DEF vars, libVars, listVars, callVars
  <2>2. \A f \in Fun, p \in Applied : Reached(p, f)' <=> Reached(p, f)
    BY <2>1 DEF Reached
  <2>3. NewestIsCur' /\ RevertProgress'
    BY <2>1 DEF DetourInv, NewestIsCur, RevertProgress
  <2> QED BY <2>1, <2>2, <2>3, DetourKept
<1> QED BY <1>1, <1>2, <1>3, <1>4, <1>5, <1>6, <1>7, <1>8, ApplyUnitDetours,
           UnitsDoneDetours, RevertDetourDetours, RevertDoneDetours
           DEF Next, UlpTrigger, UlpRevertLib, GdbCall, RunCall, LibStep,
               ClientStep

\* The invariant of the lists is inductive.
LEMMA NextListInv == ListInv /\ [Next]_vars => ListInv'
<1> SUFFICES ASSUME ListInv, [Next]_vars PROVE ListInv'
  OBVIOUS
<1>1. IInv' /\ PhaseInv' /\ RootsCoverDetours'
  BY NextIInv, NextPhaseInv, NextRoots DEF ListInv
<1>2. error_state' # "EUNKNOWN" => DetourInv'
  BY NextDetourInv, UnknownStays DEF ListInv
<1> QED BY <1>1, <1>2 DEF ListInv

\* It holds in a process that has just started.
LEMMA InitListInv == Init => ListInv
<1> SUFFICES ASSUME Init PROVE ListInv
  OBVIOUS
<1>1. IInv
  BY InitIInv
<1> USE DEF Init, LibInit
<1>2. PhaseInv
  BY DEF PhaseInv, AtWork
<1>3. RootsCoverDetours
  BY DEF RootsCoverDetours, NoDuplicates
<1>4. DetourInv
  BY LibpulpAssumption DEF DetourInv, NewestIsCur, ActiveApplied, AppliedActive,
     ActiveOrdered, ActiveOnce, RevertProgress, UnpatchableFree, Act, Applied
<1> QED BY <1>1, <1>2, <1>3, <1>4 DEF ListInv

\* It holds in every state of the process.
LEMMA ListInvariant == Spec => []ListInv
BY InitListInv, NextListInv, PTL DEF Spec

\* A function has one root at most, and has one if it has detours, whatever
\* happens: also when a call fails in the middle.
THEOREM RootsComplete == Spec => []RootsCoverDetours
<1>1. ListInv => RootsCoverDetours
  BY DEF ListInv
<1> QED BY <1>1, ListInvariant, PTL

\* Between calls, unless one was abandoned in the middle, the active detours of
\* every function are those of the applied patches, in the order of the list.
THEOREM DetoursCorrect == Spec => []DetoursMatchList
<1>1. ListInv => DetoursMatchList
  <2> SUFFICES ASSUME ListInv, pc = "stopped", error_state # "EUNKNOWN",
                      NEW f \in Fun
               PROVE  LET ds  == detours[f]
                          act == {k \in DOMAIN ds : ds[k].active}
                          on  == {m \in DOMAIN patches : Replaces(patches[m], f)}
                      IN /\ \A k \in act : \E m \in on : ds[k].patch = patches[m]
                         /\ \A m \in on : \E k \in act : ds[k].patch = patches[m]
                         /\ \A k, l \in act : \A m, o \in on :
                              ds[k].patch = patches[m] /\ ds[l].patch = patches[o]
                                /\ k < l =>
                                m < o \/ (m = o /\ ~NoDuplicates(Units[patches[m]]))
    BY DEF DetoursMatchList
  <2>1. /\ ActiveApplied /\ AppliedActive /\ ActiveOrdered /\ ActiveOnce
        /\ NoDuplicates(patches) /\ patches \in Seq(Patch)
    BY DEF ListInv, DetourInv, IInv, ListWellFormed, TypeOK, LibTypeOK
  <2>2. \A p : Reached(p, f) <=> Replaces(p, f)
    BY DEF Reached, Replaces
  <2>3. ASSUME NEW k \in Act(f)
        PROVE  \E m \in DOMAIN patches :
                  Replaces(patches[m], f) /\ detours[f][k].patch = patches[m]
    <3>1. detours[f][k].patch \in Applied /\ Reached(detours[f][k].patch, f)
      BY <2>1 DEF ActiveApplied
    <3>2. Replaces(detours[f][k].patch, f)
      BY <3>1 DEF Reached, Replaces
    <3> QED BY <3>1, <3>2 DEF Applied
  <2>4. ASSUME NEW m \in DOMAIN patches, Replaces(patches[m], f)
        PROVE  \E k \in Act(f) : detours[f][k].patch = patches[m]
    <3>1. patches[m] \in Applied /\ Reached(patches[m], f)
      BY <2>4 DEF Applied, Reached, Replaces
    <3> QED BY <2>1, <3>1 DEF AppliedActive
  <2>5. ASSUME NEW k \in Act(f), NEW l \in Act(f),
               NEW m \in DOMAIN patches, NEW o \in DOMAIN patches,
               detours[f][k].patch = patches[m], detours[f][l].patch = patches[o],
               k < l
        PROVE  m < o \/ (m = o /\ ~NoDuplicates(Units[patches[m]]))
    <3>1. PICK m1, o1 \in DOMAIN patches :
                 m1 <= o1 /\ patches[m1] = patches[m] /\ patches[o1] = patches[o]
      BY <2>1, <2>5 DEF ActiveOrdered, Above
    <3>2. m1 = m /\ o1 = o
      BY <2>1, <3>1 DEF NoDuplicates
    <3>3. m <= o /\ m \in Nat /\ o \in Nat
      BY <2>1, <3>1, <3>2
    <3>4. m = o => ~NoDuplicates(Units[patches[m]])
      BY <2>1, <2>5 DEF ActiveOnce
    <3> QED BY <3>3, <3>4
  <2> QED BY <2>3, <2>4, <2>5 DEF Act
<1> QED BY <1>1, ListInvariant, PTL

-----------------------------------------------------------------------------
(***************************************************************************)
(* The version that the detours select.                                    *)
(***************************************************************************)

\* Every non-empty set of natural numbers has a least element. The induction
\* over lists that the proofs need is done by taking a first index.
LEMMA LeastNatural ==
  ASSUME NEW S, S \subseteq Nat, S # {}
  PROVE  \E x \in S : \A y \in S : x <= y
<1> DEFINE R == OpToRel(<, Nat)
<1>1. IsWellFoundedOn(R, Nat)
  BY NatLessThanWellFounded
<1>2. \A x, y \in Nat : x < y => <<x, y>> \in R
  BY DEF OpToRel
<1> HIDE DEF R
<1>3. PICK x \in S : \A y \in S : ~(<<y, x>> \in R)
  BY <1>1, WFMin
<1>4. ASSUME NEW y \in S PROVE x <= y
  <2>1. x \in Nat /\ y \in Nat
    OBVIOUS
  <2>2. ~(y < x)
    BY <1>2, <1>3, <2>1
  <2> QED BY <2>1, <2>2
<1> QED BY <1>4

\* The first active detour of a list is the one that is selected.
LEMMA NewestActiveIs ==
  ASSUME NEW ds \in Seq(Detour), NEW k \in DOMAIN ds, ds[k].active,
         \A m \in DOMAIN ds : ds[m].active => k <= m
  PROVE  NewestActive(ds) = ds[k].patch
<1>1. DOMAIN ds = 1..Len(ds) /\ Len(ds) \in Nat
  OBVIOUS
<1>2. IsNewestActive(ds, k)
  BY <1>1 DEF IsNewestActive
<1>3. ASSUME NEW m \in DOMAIN ds, IsNewestActive(ds, m)
      PROVE  m = k
  BY <1>1, <1>3 DEF IsNewestActive
<1>4. (CHOOSE m \in DOMAIN ds : IsNewestActive(ds, m)) = k
  BY <1>2, <1>3
<1> QED BY <1>2, <1>4 DEF NewestActive

\* A list without active detours selects the original function.
LEMMA NewestActiveNone ==
  ASSUME NEW ds, \A m \in DOMAIN ds : ~ds[m].active
  PROVE  NewestActive(ds) = NoPatch
BY DEF NewestActive, IsNewestActive

\* Outside the loops of a call the detours of a function select the newest
\* applied patch that replaces it.
LEMMA NewestEffective ==
  ASSUME ListInv, error_state # "EUNKNOWN", pc = "stopped", NEW f \in Fun
  PROVE  /\ NewestActive(detours[f]) = Effective(f)
         /\ Effective(f) \in Applied \cup {NoPatch}
<1> DEFINE on == {k \in DOMAIN patches : Replaces(patches[k], f)}
           ds == detours[f]
<1>1. /\ ActiveApplied /\ AppliedActive /\ ActiveOrdered
      /\ NoDuplicates(patches) /\ patches \in Seq(Patch)
      /\ ds \in Seq(Detour)
  BY DEF ListInv, DetourInv, IInv, ListWellFormed, TypeOK, LibTypeOK
<1>2. DOMAIN ds \subseteq Nat /\ DOMAIN patches \subseteq Nat
  BY <1>1
<1>3. \A k \in on : \E l \in Act(f) : ds[l].patch = patches[k]
  <2> SUFFICES ASSUME NEW k \in on
               PROVE  \E l \in Act(f) : ds[l].patch = patches[k]
    OBVIOUS
  <2>1. patches[k] \in Applied /\ Reached(patches[k], f)
    BY DEF Applied, Reached, Replaces
  <2> QED BY <1>1, <2>1 DEF AppliedActive
<1>4. CASE Act(f) = {}
  <2>1. NewestActive(ds) = NoPatch
    BY <1>4, NewestActiveNone DEF Act
  <2>2. on = {}
    BY <1>3, <1>4
  <2>3. Effective(f) = NoPatch
    BY <2>2 DEF Effective
  <2> QED BY <2>1, <2>3
<1>5. CASE Act(f) # {}
  <2>1. PICK k \in Act(f) : \A l \in Act(f) : k <= l
    <3>1. Act(f) \subseteq Nat
      BY <1>2 DEF Act
    <3> QED BY <1>5, <3>1, LeastNatural
  <2>2. NewestActive(ds) = ds[k].patch
    <3>1. /\ k \in DOMAIN ds /\ ds[k].active
          /\ \A m \in DOMAIN ds : ds[m].active => k <= m
      BY <2>1 DEF Act
    <3> HIDE DEF ds
    <3> QED BY <1>1, <3>1, NewestActiveIs
  <2>3. PICK m \in DOMAIN patches : patches[m] = ds[k].patch
    BY <1>1 DEF ActiveApplied, Applied
  <2>4. m \in on
    <3>1. Reached(ds[k].patch, f)
      BY <1>1 DEF ActiveApplied, Reached
    <3> QED BY <2>3, <3>1 DEF Reached, Replaces
  <2>5. ASSUME NEW o \in on PROVE m <= o
    <3>1. PICK l \in Act(f) : ds[l].patch = patches[o]
      BY <1>3
    <3>2. CASE k = l
      BY <1>1, <1>2, <2>3, <3>1, <3>2 DEF NoDuplicates
    <3>3. CASE k < l
      <4>1. PICK m1, o1 \in DOMAIN patches :
                   m1 <= o1 /\ patches[m1] = patches[m] /\ patches[o1] = patches[o]
        BY <1>1, <2>3, <3>1, <3>3 DEF ActiveOrdered, Above
      <4>2. m1 = m /\ o1 = o
        BY <1>1, <4>1 DEF NoDuplicates
      <4> QED BY <4>1, <4>2
    <3>4. k <= l /\ k \in Nat /\ l \in Nat
      BY <1>2, <2>1 DEF Act
    <3> QED BY <3>2, <3>3, <3>4
  <2>6. (CHOOSE x \in on : \A y \in on : x <= y) = m
    <3>1. \A x \in on : (\A y \in on : x <= y) => x = m
      BY <1>2, <2>4, <2>5
    <3> HIDE DEF on
    <3> QED BY <2>4, <2>5, <3>1
  <2>7. Effective(f) = patches[m]
    BY <2>4, <2>6 DEF Effective
  <2> QED BY <2>2, <2>3, <2>7 DEF Applied
<1> QED BY <1>4, <1>5

-----------------------------------------------------------------------------
(***************************************************************************)
(* The inductive invariant of the queue and the memory.                    *)
(***************************************************************************)

\* The counters of the queue agree with its contents, unless the second of the
\* two writes that reset them failed; a call finds it empty.
QueueInv ==
  /\ num_insns = Len(insns) \/ (insns = <<>> /\ size = 0)
  /\ insns # <<>> => size > 0
  /\ pc \in AtWork => num_insns = Len(insns)
  /\ pc = "load" => insns = <<>>

\* Instruction m is the last one of the queue that writes to x.
LastWrite(x, m) ==
  /\ m \in DOMAIN insns /\ insns[m].dest = x
  /\ \A k \in DOMAIN insns : k > m => insns[k].dest # x

\* The last of the executed instructions that write to x was executed last.
Executed(x) ==
  \/ \A m \in DOMAIN insns : m < n => insns[m].dest # x
  \/ \E m \in DOMAIN insns :
        /\ m < n /\ insns[m].dest = x /\ mem[x] = insns[m].val
        /\ \A k \in DOMAIN insns : m < k /\ k < n => insns[k].dest # x

\* The interpreter has executed the instructions in front of its counter.
ExecInv ==
  /\ client_pc \in {"interp", "reset"} => \A x \in Loc : Executed(x)
  /\ client_pc = "reset" => \A m \in DOMAIN insns : m < n

\* Once the queue is executed, every function is what its detours say; this
\* does not depend on how much of it was executed already, and how often.
PendingInv ==
  \A f \in Fun :
    /\ \A m \in DOMAIN insns :
          LastWrite(f, m) => insns[m].val = NewestActive(detours[f])
    /\ (\A m \in DOMAIN insns : insns[m].dest # f) =>
          mem[f] = NewestActive(detours[f])

\* The patch that is being applied has not come to its reference k.
ToWrite(p, k) == p = cur /\ (pc = "unit" \/ (pc = "ref" /\ k >= i))

\* The queue holds a write to x.
HasWrite(x) == \E m \in DOMAIN insns : insns[m].dest = x

\* The references of the applied patches are written or queued.
RefInv ==
  \A p \in Applied : \A k \in DOMAIN Refs[p] :
    ~ToWrite(p, k) => mem[Refs[p][k]] = p \/ HasWrite(Refs[p][k])

\* Only the patch itself writes to its references.
RefValues ==
  \A m \in DOMAIN insns : \A p \in Patch : \A k \in DOMAIN Refs[p] :
     insns[m].dest = Refs[p][k] => insns[m].val = p

CodeInv ==
  /\ QueueInv /\ ExecInv /\ RefValues
  /\ error_state \notin RealError => PendingInv /\ RefInv

-----------------------------------------------------------------------------
(***************************************************************************)
(* The queue.                                                              *)
(***************************************************************************)

\* The step appended a write to the queue.
Queued(x, v) ==
  /\ Len(insns') = Len(insns) + 1
  /\ DOMAIN insns' = 1..(Len(insns) + 1)
  /\ insns'[Len(insns) + 1].dest = x
  /\ insns'[Len(insns) + 1].val = v
  /\ \A m \in DOMAIN insns : insns'[m] = insns[m]

\* memwrite appends to the queue or raises EINSNQ.
LEMMA MemwriteQueues ==
  ASSUME insns \in Seq(Insn), size \in Nat, NEW x, NEW v, memwrite(x, v)
  PROVE  \/ /\ Queued(x, v)
            /\ num_insns' = num_insns + 1 /\ size' > 0 /\ error_state' = error_state
         \/ UNCHANGED queueVars /\ error_state' = "EINSNQ"
<1> DEFINE e == [dest |-> x, val |-> v]
<1>1. e.dest = x /\ e.val = v
  OBVIOUS
<1>2. InsnWords(x, v) \in {3, 4}
  BY DEF InsnWords
<1> HIDE DEF e
<1>4. CASE size + InsnWords(x, v) > QueueMax
  BY <1>4 DEF memwrite
<1>5. CASE ~(size + InsnWords(x, v) > QueueMax)
  <2>1. /\ insns' = Append(insns, e) /\ num_insns' = num_insns + 1
        /\ size' = size + InsnWords(x, v) /\ error_state' = error_state
    BY <1>5 DEF memwrite, e
  <2> QED BY <1>1, <1>2, <2>1 DEF Queued
<1> QED BY <1>4, <1>5

\* What a step of libpulp does to the queue.
LEMMA LibStepQueue ==
  ASSUME IInv, LibStep
  PROVE  \/ UNCHANGED queueVars
         \/ /\ \E x, v : Queued(x, v)
            /\ pc \in {"unit", "ref", "revert"} /\ pc' = pc
            /\ num_insns' = num_insns + 1 /\ size' > 0
<1>1. insns \in Seq(Insn) /\ size \in Nat
  BY Types
<1>2. CASE ApplyUnit
  <2>1. \/ UNCHANGED queueVars
        \/ memwrite(Units[cur][i], cur) /\ pc = "unit" /\ pc' = pc
    BY <1>2 DEF ApplyUnit
  <2> QED BY <1>1, <2>1, MemwriteQueues
<1>3. CASE ApplyRef
  <2>1. \/ UNCHANGED queueVars
        \/ memwrite(Refs[cur][i], cur) /\ pc = "ref" /\ pc' = pc
    BY <1>3 DEF ApplyRef
  <2> QED BY <1>1, <2>1, MemwriteQueues
<1>4. CASE RevertDetour
  <2>1. \/ UNCHANGED queueVars
        \/ (\E x, v : memwrite(x, v)) /\ pc = "revert" /\ pc' = pc
    BY <1>4 DEF RevertDetour
  <2> QED BY <1>1, <2>1, MemwriteQueues
<1>5. CASE Entry \/ LoadApply \/ UnitsDone \/ ApplyDone \/ LoadRevert
           \/ RevertDone \/ RevertLib \/ RevertLibDone
  BY <1>5 DEF Entry, LoadApply, UnitsDone, ApplyDone, LoadRevert, RevertDone,
              RevertLib, RevertLibDone
<1> QED BY <1>2, <1>3, <1>4, <1>5 DEF LibStep

\* A call gets past its checks only with an empty queue.
LEMMA EntersEmpty ==
  ASSUME QueueInv, IInv, LibStep, pc' \in AtWork, pc \notin AtWork
  PROVE  num_insns = 0 /\ insns = <<>>
<1>1. Entry
  BY DEF LibStep, AtWork, Entry, LoadApply, ApplyUnit, UnitsDone, ApplyRef,
     ApplyDone, LoadRevert, RevertDetour, RevertDone, RevertLib, RevertLibDone
<1>2. num_insns = 0 /\ size = 0
  BY <1>1 DEF Entry, Return, AtWork
<1> QED BY <1>2 DEF QueueInv

\* Every step keeps the counters and the contents of the queue together.
LEMMA NextQueueInv ==
  ASSUME IInv, PhaseInv, QueueInv, [Next]_vars
  PROVE  QueueInv'
<1>1. insns \in Seq(Insn) /\ num_insns \in Nat /\ size \in Nat
  BY Types
<1>2. CASE RunCall
  <2>1. LibStep
    BY <1>2 DEF RunCall
  <2>2. pc' = "load" => pc = "entry"
    BY <2>1 DEF LibStep, Entry, LoadApply, ApplyUnit, UnitsDone, ApplyRef,
       ApplyDone, LoadRevert, RevertDetour, RevertDone, RevertLib,
       RevertLibDone, Return, Fail, StartRevert
  <2>3. CASE UNCHANGED queueVars
    <3>1. insns' = insns /\ num_insns' = num_insns /\ size' = size
      BY <2>3 DEF queueVars
    <3>2. pc' \in AtWork => num_insns = Len(insns)
      BY <1>1, <2>1, EntersEmpty DEF QueueInv
    <3>3. pc' = "load" => insns = <<>>
      BY <2>1, <2>2, EntersEmpty DEF AtWork
    <3> QED BY <3>1, <3>2, <3>3 DEF QueueInv
  <2>4. CASE ~(UNCHANGED queueVars)
    <3>1. /\ \E x, v : Queued(x, v)
          /\ pc \in {"unit", "ref", "revert"} /\ pc' = pc
          /\ num_insns' = num_insns + 1 /\ size' > 0
      BY <2>1, <2>4, LibStepQueue
    <3>2. num_insns = Len(insns)
      BY <3>1 DEF QueueInv, AtWork
    <3>3. Len(insns') = Len(insns) + 1
      BY <3>1 DEF Queued
    <3> QED BY <3>1, <3>2, <3>3 DEF QueueInv
  <2> QED BY <2>3, <2>4
<1>3. CASE Interpret \/ Reset
  <2>1. pc = "stopped" /\ pc' = "stopped"
    BY <1>3 DEF Interpret, Reset, PhaseInv
  <2>2. \/ UNCHANGED queueVars
        \/ insns' = <<>> /\ size' = 0
    BY <1>3 DEF Interpret, InterpretFailed, Reset, ClearQueue, queueVars
  <2> QED BY <2>1, <2>2 DEF QueueInv, queueVars, AtWork
<1>4. CASE ~(RunCall \/ Interpret \/ Reset)
  <2>1. /\ UNCHANGED queueVars
        /\ pc' = pc \/ pc' \in {"stopped", "entry"}
    BY <1>4 DEF Next, UlpTrigger, UlpRevertLib, GdbCall, Call, SetPatchable,
       EnableOrDisable, ClientStep, CallReturned, InterpretDone, libVars, vars
  <2> QED BY <2>1 DEF QueueInv, queueVars, AtWork
<1> QED BY <1>2, <1>3, <1>4

\* Every step keeps track of what was executed.
LEMMA NextExecInv ==
  ASSUME IInv, PhaseInv, QueueInv, ExecInv, [Next]_vars
  PROVE  ExecInv'
<1>1. insns \in Seq(Insn) /\ num_insns \in Nat /\ n \in Nat \ {0}
      /\ mem \in [Loc -> Patch \cup {NoPatch, Torn}]
  BY Types
<1>2. CASE CallReturned
  <2>1. insns' = insns /\ mem' = mem /\ client_pc' \in {"idle", "interp"}
        /\ (client_pc' = "interp" => n' = 1)
    BY <1>2 DEF CallReturned, Report, queueVars
  <2> QED BY <1>1, <2>1 DEF ExecInv, Executed
<1>3. CASE Interpret /\ client_pc' = "interp"
  <2>1. /\ n <= Len(insns) /\ n' = n + 1 /\ insns' = insns
        /\ mem' = [mem EXCEPT ![insns[n].dest] = insns[n].val]
        /\ client_pc = "interp"
    BY <1>3 DEF Interpret, InterpretFailed, Report, queueVars
  <2>2. n \in DOMAIN insns /\ DOMAIN insns \subseteq Nat
    BY <1>1, <2>1
  <2>3. insns[n] \in Insn
    BY <1>1, <2>2
  <2>4. ASSUME NEW x \in Loc PROVE Executed(x)'
    <3>1. CASE x = insns[n].dest
      <4>1. mem'[x] = insns[n].val
        BY <1>1, <2>1, <3>1
      <4>2. n < n + 1 /\ \A k \in DOMAIN insns : ~(n < k /\ k < n + 1)
        BY <2>2
      <4> QED BY <2>1, <2>2, <3>1, <4>1, <4>2 DEF Executed
    <3>2. CASE x # insns[n].dest
      <4>1. mem'[x] = mem[x]
        BY <1>1, <2>1, <3>2
      <4>2. \A m \in DOMAIN insns : m < n + 1 /\ insns[m].dest = x => m < n
        BY <2>2, <3>2
      <4>3. \A m \in DOMAIN insns : m < n => m < n + 1
        BY <2>2
      <4>4. Executed(x)
        BY <2>1 DEF ExecInv
      <4> QED BY <2>1, <4>1, <4>2, <4>3, <4>4 DEF Executed
    <3> QED BY <3>1, <3>2
  <2> QED BY <1>3, <2>4 DEF ExecInv
<1>4. CASE InterpretDone
  <2>1. /\ UNCHANGED <<insns, mem, n>> /\ n > num_insns
        /\ client_pc = "interp" /\ client_pc' = "reset"
    BY <1>4 DEF InterpretDone, libVars, queueVars
  <2>2. \A m \in DOMAIN insns : m < n
    BY <1>1, <2>1 DEF QueueInv
  <2> QED BY <2>1, <2>2 DEF ExecInv, Executed
<1>5. CASE UNCHANGED vars
  BY <1>5 DEF vars, libVars, clientVars, queueVars, ExecInv, Executed
<1>6. CASE client_pc' \in {"idle", "wait"}
  BY <1>6 DEF ExecInv
<1>7. CASE ~(CallReturned \/ Interpret \/ InterpretDone \/ UNCHANGED vars)
  <2>1. client_pc' \in {"idle", "wait"}
    <3>1. CASE RunCall
      <4>1. pc # "stopped"
        BY <3>1 DEF RunCall, LibStep, Entry, LoadApply, ApplyUnit, UnitsDone,
           ApplyRef, ApplyDone, LoadRevert, RevertDetour, RevertDone, RevertLib,
           RevertLibDone
      <4> QED BY <3>1, <4>1 DEF RunCall, PhaseInv, clientVars
    <3> QED BY <1>7, <3>1 DEF Next, UlpTrigger, UlpRevertLib, GdbCall, Call,
               SetPatchable, ClientStep, Reset, Report, clientVars
  <2> QED BY <1>6, <2>1
<1>8. Interpret => client_pc' \in {"idle", "interp"}
  BY DEF Interpret, InterpretFailed, Report
<1> QED BY <1>2, <1>3, <1>4, <1>5, <1>6, <1>7, <1>8

-----------------------------------------------------------------------------
(***************************************************************************)
(* The code of the functions.                                              *)
(***************************************************************************)

\* Queueing what the detours of f select now, whatever was queued for f before.
LEMMA PendingQueued ==
  ASSUME insns \in Seq(Insn), PendingInv, NEW f \in Fun, NEW v, Queued(f, v),
         mem' = mem, \A g \in Fun \ {f} : detours'[g] = detours[g],
         v = NewestActive(detours'[f])
  PROVE  PendingInv'
<1> DEFINE L == Len(insns) + 1
<1>1. /\ DOMAIN insns = 1..Len(insns) /\ Len(insns) \in Nat
      /\ DOMAIN insns' = 1..L /\ L \in DOMAIN insns' /\ L \in Nat
      /\ insns'[L].dest = f /\ insns'[L].val = v
      /\ \A m \in DOMAIN insns : insns'[m] = insns[m] /\ m \in DOMAIN insns' /\ m < L
      /\ \A m \in DOMAIN insns' : m = L \/ m \in DOMAIN insns
  BY DEF Queued
<1> HIDE DEF L
<1> SUFFICES ASSUME NEW g \in Fun
             PROVE  /\ \A m \in DOMAIN insns' :
                         LastWrite(g, m)' => insns'[m].val = NewestActive(detours'[g])
                    /\ (\A m \in DOMAIN insns' : insns'[m].dest # g) =>
                         mem'[g] = NewestActive(detours'[g])
  BY DEF PendingInv
<1>2. CASE g = f
  <2>1. ASSUME NEW m \in DOMAIN insns', LastWrite(g, m)'
        PROVE  m = L
    BY <1>1, <1>2, <2>1 DEF LastWrite
  <2> QED BY <1>1, <1>2, <2>1
<1>3. CASE g # f
  <2>1. ASSUME NEW m \in DOMAIN insns', LastWrite(g, m)'
        PROVE  insns'[m].val = NewestActive(detours'[g])
    <3>1. m \in DOMAIN insns
      BY <1>1, <1>3, <2>1 DEF LastWrite
    <3>2. LastWrite(g, m)
      BY <1>1, <2>1, <3>1 DEF LastWrite
    <3> QED BY <1>1, <1>3, <3>1, <3>2 DEF PendingInv
  <2>2. ASSUME \A m \in DOMAIN insns' : insns'[m].dest # g
        PROVE  mem'[g] = NewestActive(detours'[g])
    <3>1. \A m \in DOMAIN insns : insns[m].dest # g
      BY <1>1, <2>2
    <3> QED BY <1>3, <3>1 DEF PendingInv
  <2> QED BY <2>1, <2>2
<1> QED BY <1>2, <1>3

\* Queueing a write to something that is not a function.
LEMMA PendingQueuedRef ==
  ASSUME insns \in Seq(Insn), PendingInv, NEW x, x \notin Fun, NEW v,
         Queued(x, v), mem' = mem, detours' = detours
  PROVE  PendingInv'
<1> DEFINE L == Len(insns) + 1
<1>1. /\ DOMAIN insns = 1..Len(insns) /\ Len(insns) \in Nat
      /\ DOMAIN insns' = 1..L /\ L \in DOMAIN insns'
      /\ insns'[L].dest = x
      /\ \A m \in DOMAIN insns : insns'[m] = insns[m] /\ m \in DOMAIN insns'
      /\ \A m \in DOMAIN insns' : m = L \/ m \in DOMAIN insns
  BY DEF Queued
<1> HIDE DEF L
<1> SUFFICES ASSUME NEW g \in Fun
             PROVE  /\ \A m \in DOMAIN insns' :
                         LastWrite(g, m)' => insns'[m].val = NewestActive(detours[g])
                    /\ (\A m \in DOMAIN insns' : insns'[m].dest # g) =>
                         mem[g] = NewestActive(detours[g])
  BY DEF PendingInv
<1>2. ASSUME NEW m \in DOMAIN insns', LastWrite(g, m)'
      PROVE  insns'[m].val = NewestActive(detours[g])
  <2>1. m \in DOMAIN insns
    BY <1>1, <1>2 DEF LastWrite
  <2>2. LastWrite(g, m)
    BY <1>1, <1>2, <2>1 DEF LastWrite
  <2> QED BY <1>1, <2>1, <2>2 DEF PendingInv
<1>3. ASSUME \A m \in DOMAIN insns' : insns'[m].dest # g
      PROVE  mem[g] = NewestActive(detours[g])
  <2>1. \A m \in DOMAIN insns : insns[m].dest # g
    BY <1>1, <1>3
  <2> QED BY <2>1 DEF PendingInv
<1> QED BY <1>2, <1>3

\* Executing queued writes changes only what has a queued write.
LEMMA PendingExecuted ==
  ASSUME PendingInv, insns' = insns, detours' = detours,
         \A f \in Fun : \/ mem'[f] = mem[f]
                        \/ \E m \in DOMAIN insns : insns[m].dest = f
  PROVE  PendingInv'
BY DEF PendingInv, LastWrite

\* When the whole queue was executed, what was executed last is in memory.
LEMMA AllExecuted ==
  ASSUME IInv, ExecInv, client_pc = "reset"
  PROVE  /\ PendingInv => \A f \in Fun : mem[f] = NewestActive(detours[f])
         /\ RefValues => \A p \in Patch : \A k \in DOMAIN Refs[p] :
              \/ mem[Refs[p][k]] = p
              \/ \A m \in DOMAIN insns : insns[m].dest # Refs[p][k]
<1>1. /\ \A x \in Loc : Executed(x)
      /\ \A m \in DOMAIN insns : m < n
  BY DEF ExecInv
<1>2. ASSUME NEW x \in Loc
      PROVE  \/ \A m \in DOMAIN insns : insns[m].dest # x
             \/ \E m \in DOMAIN insns : LastWrite(x, m) /\ mem[x] = insns[m].val
  BY <1>1 DEF Executed, LastWrite
<1>3. ASSUME PendingInv, NEW f \in Fun
      PROVE  mem[f] = NewestActive(detours[f])
  <2>1. f \in Loc
    BY DEF Loc
  <2> QED BY <1>2, <1>3, <2>1 DEF PendingInv
<1>4. ASSUME RefValues, NEW p \in Patch, NEW k \in DOMAIN Refs[p]
      PROVE  \/ mem[Refs[p][k]] = p
             \/ \A m \in DOMAIN insns : insns[m].dest # Refs[p][k]
  <2>1. Refs[p][k] \in Loc
    BY LibpulpAssumption DEF Loc
  <2> QED BY <1>2, <1>4, <2>1 DEF RefValues, LastWrite
<1> QED BY <1>3, <1>4

\* A detour that is pushed is the one that is selected.
LEMMA NewestPushed ==
  ASSUME detours \in [Fun -> Seq(Detour)], NEW f \in Fun, NEW p \in Patch
  PROVE  NewestActive(push_new_detour(f, p)[f]) = p
<1> DEFINE d  == [patch |-> p, active |-> TRUE]
           ds == <<d>> \o detours[f]
<1>1. d \in Detour /\ d.patch = p /\ d.active
  BY DEF Detour
<1>2. push_new_detour(f, p)[f] = ds
  BY DEF push_new_detour
<1> HIDE DEF d
<1>3. ds \in Seq(Detour) /\ ds[1] = d /\ 1 \in DOMAIN ds
      /\ \A m \in DOMAIN ds : 1 <= m
  BY <1>1
<1> HIDE DEF ds
<1>4. NewestActive(ds) = ds[1].patch
  BY <1>1, <1>3, NewestActiveIs
<1> QED BY <1>1, <1>2, <1>3, <1>4

\* Queueing a write keeps the queued ones.
LEMMA QueuedKeeps ==
  ASSUME insns \in Seq(Insn), NEW x, NEW v, Queued(x, v)
  PROVE  /\ \A y : HasWrite(y) => HasWrite(y)'
         /\ \A y : y = x => HasWrite(y)'
<1>1. Len(insns) + 1 \in DOMAIN insns' /\ DOMAIN insns \subseteq DOMAIN insns'
  BY DEF Queued
<1> QED BY <1>1 DEF HasWrite, Queued

\* The references are not lost as long as writes are only queued.
LEMMA RefKept ==
  ASSUME RefInv, mem' = mem,
         \A x : HasWrite(x) => HasWrite(x)',
         \A p \in Applied' : p \in Applied \/ (p = cur' /\ pc' = "unit"),
         \A p \in Applied : \A k \in DOMAIN Refs[p] :
            ToWrite(p, k) => ToWrite(p, k)'
  PROVE  RefInv'
<1> SUFFICES ASSUME NEW p \in Applied', NEW k \in DOMAIN Refs[p], ~ToWrite(p, k)'
             PROVE  mem[Refs[p][k]] = p \/ HasWrite(Refs[p][k])'
  BY DEF RefInv
<1>1. p \in Applied
  BY DEF ToWrite
<1>2. ~ToWrite(p, k)
  BY <1>1
<1>3. PICK x : x = Refs[p][k]
  OBVIOUS
<1>4. mem[x] = p \/ HasWrite(x)
  BY <1>1, <1>2, <1>3 DEF RefInv
<1> QED BY <1>3, <1>4

\* The code part of the invariant for the steps of a call that queue nothing.
LEMMA QuietCode ==
  ASSUME ListInv, CodeInv, UNCHANGED <<mem, insns, detours>>,
         Entry \/ LoadApply \/ UnitsDone \/ ApplyDone \/ LoadRevert
           \/ RevertDone \/ RevertLib \/ RevertLibDone,
         error_state' \notin RealError, error_state \notin RealError
  PROVE  PendingInv' /\ RefInv'
<1>1. PendingInv /\ RefInv
  BY DEF CodeInv
<1>2. PendingInv'
  BY <1>1, PendingExecuted
<1>3. \A x : HasWrite(x) => HasWrite(x)'
  BY DEF HasWrite
<1>4. CASE LoadApply
  <2>1. pc = "load" /\ \A p \in Applied' : p \in Applied \/ (p = cur' /\ pc' = "unit")
    <3>1. CASE UNCHANGED patches
      BY <1>4, <3>1 DEF LoadApply, Applied
    <3>2. CASE patches' # patches
      <4>1. /\ patches' = <<arg>> \o patches /\ cur' = arg /\ pc' = "unit"
            /\ patches \in Seq(Patch) /\ arg \in Patch
        BY <1>4, <3>2 DEF LoadApply, listVars, ListInv, IInv, TypeOK, LibTypeOK
      <4>2. \A k \in DOMAIN patches' :
              k = 1 \/ (k - 1 \in DOMAIN patches /\ patches'[k] = patches[k - 1])
        BY <4>1
      <4>3. patches'[1] = arg
        BY <4>1
      <4> QED BY <1>4, <4>1, <4>2, <4>3 DEF Applied, LoadApply
    <3> QED BY <3>1, <3>2
  <2> QED BY <1>1, <1>2, <1>3, <2>1, RefKept DEF ToWrite
<1>5. CASE RevertDone
  <2>1. /\ patches \in Seq(Patch) /\ NoDuplicates(patches) /\ cur \in Applied
        /\ pc = "revert"
    BY <1>5 DEF RevertDone, ListInv, IInv, TypeOK, LibTypeOK, ListWellFormed,
                WalkInList
  <2>2. patches' = ulp_state_remove(cur)
    BY <1>5, <2>1 DEF RevertDone
  <2>3. Applied' = Applied \ {cur}
    BY <2>1, <2>2, RemovedList DEF Applied
  <2> QED BY <1>1, <1>2, <1>3, <2>1, <2>3, RefKept DEF ToWrite
<1>6. CASE UnitsDone
  <2>1. /\ pc = "unit" /\ pc' = "ref" /\ i' = 1 /\ cur' = cur /\ patches' = patches
    BY <1>6 DEF UnitsDone, Fail, RealError, listVars
  <2>2. Applied' = Applied /\ cur \in Patch
    BY <2>1 DEF Applied, ListInv, IInv, TypeOK, LibTypeOK
  <2>3. \A k \in DOMAIN Refs[cur] : k >= 1
    BY <2>2, LibpulpAssumption
  <2>4. \A p \in Applied : \A k \in DOMAIN Refs[p] :
          ToWrite(p, k) => ToWrite(p, k)'
    BY <2>1, <2>3 DEF ToWrite
  <2> QED BY <1>1, <1>2, <1>3, <2>2, <2>4, RefKept
<1>7. CASE ApplyDone
  <2>1. /\ pc = "ref" /\ i > Len(Refs[cur]) /\ patches' = patches
    BY <1>7 DEF ApplyDone, listVars
  <2>2. Applied' = Applied /\ cur \in Patch /\ i \in Nat
    BY <2>1 DEF Applied, ListInv, IInv, TypeOK, LibTypeOK
  <2>3. \A k \in DOMAIN Refs[cur] : ~(k >= i)
    BY <2>1, <2>2, LibpulpAssumption
  <2> QED BY <1>1, <1>2, <1>3, <2>1, <2>2, <2>3, RefKept DEF ToWrite
<1>8. CASE Entry \/ LoadRevert \/ RevertLib \/ RevertLibDone
  <2>1. pc \notin {"unit", "ref"} /\ patches' = patches
    BY <1>8 DEF Entry, LoadRevert, RevertLib, RevertLibDone, listVars
  <2>2. Applied' = Applied
    BY <2>1 DEF Applied
  <2> QED BY <1>1, <1>2, <1>3, <2>1, <2>2, RefKept DEF ToWrite
<1> QED BY <1>4, <1>5, <1>6, <1>7, <1>8

\* A unit is queued as it is put in front of the detours.
LEMMA ApplyUnitCode ==
  ASSUME ListInv, CodeInv, ApplyUnit, mem' = mem,
         error_state' \notin RealError, error_state \notin RealError
  PROVE  PendingInv' /\ RefInv'
<1>1. PendingInv /\ RefInv
  BY DEF CodeInv
<1>2. /\ cur \in Patch /\ Units[cur][i] \in Fun /\ insns \in Seq(Insn)
      /\ size \in Nat /\ detours \in [Fun -> Seq(Detour)]
  BY Types, UnitCursor DEF ListInv
<1>3. PICK f \in Fun : f = Units[cur][i]
  BY <1>2
<1>4. /\ pc = "unit" /\ pc' = "unit" /\ cur' = cur /\ patches' = patches
      /\ detours' = push_new_detour(f, cur) /\ memwrite(f, cur)
  BY <1>3 DEF ApplyUnit, Fail, RealError
<1>5. Queued(f, cur)
  BY <1>2, <1>4, MemwriteQueues DEF RealError
<1>6. /\ NewestActive(detours'[f]) = cur
      /\ \A g \in Fun \ {f} : detours'[g] = detours[g]
  BY <1>2, <1>4, NewestPushed DEF push_new_detour
<1>7. PendingInv'
  BY <1>1, <1>2, <1>5, <1>6, PendingQueued
<1>8. \A x : HasWrite(x) => HasWrite(x)'
  BY <1>2, <1>5, QueuedKeeps
<1>9. Applied' = Applied
  BY <1>4 DEF Applied
<1>10. RefInv'
  BY <1>1, <1>4, <1>8, <1>9, RefKept DEF ToWrite
<1> QED BY <1>7, <1>10

\* A reference is queued as the cursor passes it.
LEMMA ApplyRefCode ==
  ASSUME ListInv, CodeInv, ApplyRef, mem' = mem,
         error_state' \notin RealError, error_state \notin RealError
  PROVE  PendingInv' /\ RefInv'
<1>1. PendingInv /\ RefInv
  BY DEF CodeInv
<1>2. /\ cur \in Patch /\ Refs[cur][i] \in Ref /\ insns \in Seq(Insn)
      /\ size \in Nat /\ i \in Nat
  BY Types, RefCursor DEF ListInv
<1>3. /\ pc = "ref" /\ pc' = "ref" /\ cur' = cur /\ patches' = patches
      /\ detours' = detours /\ memwrite(Refs[cur][i], cur) /\ i' = i + 1
  BY DEF ApplyRef, Fail, RealError, listVars
<1>4. Queued(Refs[cur][i], cur)
  BY <1>2, <1>3, MemwriteQueues DEF RealError
<1>5. PendingInv'
  BY <1>1, <1>2, <1>3, <1>4, PendingQueuedRef, RefsOwned
<1>6. /\ \A x : HasWrite(x) => HasWrite(x)'
      /\ \A x : x = Refs[cur][i] => HasWrite(x)'
  BY <1>2, <1>4, QueuedKeeps
<1>7. Applied' = Applied
  BY <1>3 DEF Applied
<1>8. RefInv'
  <2> SUFFICES ASSUME NEW p \in Applied, NEW k \in DOMAIN Refs[p], ~ToWrite(p, k)'
               PROVE  mem[Refs[p][k]] = p \/ HasWrite(Refs[p][k])'
    BY <1>7 DEF RefInv
  <2>1. PICK x : x = Refs[p][k]
    OBVIOUS
  <2>2. CASE ToWrite(p, k)
    <3>1. p = cur /\ k >= i /\ ~(k >= i + 1)
      BY <1>3, <2>2 DEF ToWrite
    <3>2. k \in Nat
      BY <1>2, <3>1, LibpulpAssumption
    <3>3. k = i
      BY <1>2, <3>1, <3>2
    <3> QED BY <1>6, <2>1, <3>1, <3>3
  <2>3. CASE ~ToWrite(p, k)
    <3>1. mem[x] = p \/ HasWrite(x)
      BY <1>1, <2>1, <2>3 DEF RefInv
    <3> QED BY <1>6, <2>1, <3>1
  <2> QED BY <2>2, <2>3
<1> QED BY <1>5, <1>8

\* A detour that is deactivated queues what the detours select then.
LEMMA RevertDetourCode ==
  ASSUME ListInv, CodeInv, RevertDetour, mem' = mem,
         error_state' \notin RealError, error_state \notin RealError
  PROVE  PendingInv' /\ RefInv'
<1>1. PendingInv /\ RefInv
  BY DEF CodeInv
<1>2. /\ roots \in Seq(Fun) /\ detours \in [Fun -> Seq(Detour)]
      /\ i \in DOMAIN roots /\ j \in Nat \ {0} /\ roots[i] \in Fun
      /\ insns \in Seq(Insn) /\ size \in Nat
      /\ pc = "revert" /\ pc' = "revert" /\ patches' = patches
  BY Types, DetourCursor DEF ListInv, RevertDetour
<1>3. Applied' = Applied
  BY <1>2 DEF Applied
<1>4. CASE UNCHANGED <<insns, detours>>
  <2>1. PendingInv'
    BY <1>1, <1>4, PendingExecuted
  <2>2. \A x : HasWrite(x) => HasWrite(x)'
    BY <1>4 DEF HasWrite
  <2>3. RefInv'
    BY <1>1, <1>2, <1>3, <2>2, RefKept DEF ToWrite
  <2> QED BY <2>1, <2>3
<1>5. CASE ~(UNCHANGED <<insns, detours>>)
  <2>1. PICK f \in Fun : f = roots[i]
    BY <1>2
  <2> DEFINE off == [detours[f] EXCEPT ![j].active = FALSE]
  <2>2. /\ j <= Len(detours[f])
        /\ detours' = [detours EXCEPT ![f] = off]
        /\ f \notin Unpatchable => memwrite(f, NewestActive(off))
    BY <1>5, <2>1 DEF RevertDetour, queueVars
  <2> HIDE DEF off
  <2>3. f \notin Unpatchable
    <3>1. detours[f] # <<>>
      BY <1>2, <2>2
    <3> QED BY <3>1 DEF ListInv, RealError, DetourInv, UnpatchableFree
  <2>4. detours'[f] = off /\ \A g \in Fun \ {f} : detours'[g] = detours[g]
    BY <1>2, <2>2
  <2>5. Queued(f, NewestActive(off))
    BY <1>2, <2>2, <2>3, MemwriteQueues DEF RealError
  <2>6. PendingInv'
    BY <1>1, <1>2, <2>4, <2>5, PendingQueued
  <2>7. \A x : HasWrite(x) => HasWrite(x)'
    BY <1>2, <2>5, QueuedKeeps
  <2>8. RefInv'
    BY <1>1, <1>2, <1>3, <2>7, RefKept DEF ToWrite
  <2> QED BY <2>6, <2>8
<1> QED BY <1>4, <1>5

\* Every step keeps the values queued for references right.
LEMMA NextRefValues ==
  ASSUME IInv, RefValues, [Next]_vars
  PROVE  RefValues'
<1>1. insns \in Seq(Insn) /\ size \in Nat
  BY Types
<1>2. CASE insns' = insns
  BY <1>2 DEF RefValues
<1>3. CASE insns' = <<>>
  BY <1>3 DEF RefValues
<1>4. ASSUME NEW x, NEW v, Queued(x, v),
             \A p \in Patch : \A k \in DOMAIN Refs[p] : x = Refs[p][k] => v = p
      PROVE  RefValues'
  <2>1. \A m \in DOMAIN insns' :
          \/ m \in DOMAIN insns /\ insns'[m] = insns[m]
          \/ insns'[m].dest = x /\ insns'[m].val = v
    BY <1>1, <1>4 DEF Queued
  <2> QED BY <1>4, <2>1 DEF RefValues
<1>5. ASSUME NEW x \in Fun, NEW v, memwrite(x, v)
      PROVE  RefValues'
  <2>1. \A p \in Patch : \A k \in DOMAIN Refs[p] : x # Refs[p][k]
    BY LibpulpAssumption, RefsOwned
  <2> QED BY <1>1, <1>2, <1>4, <1>5, <2>1, MemwriteQueues DEF queueVars
<1>6. CASE ApplyUnit
  <2>1. Units[cur][i] \in Fun
    BY <1>6, UnitCursor
  <2>2. insns' = insns \/ memwrite(Units[cur][i], cur)
    BY <1>6 DEF ApplyUnit, queueVars
  <2> QED BY <1>2, <1>5, <2>1, <2>2
<1>7. CASE RevertDetour
  <2>1. roots[i] \in Fun
    BY <1>7, DetourCursor
  <2>2. insns' = insns \/ \E v : memwrite(roots[i], v)
    BY <1>7 DEF RevertDetour, queueVars
  <2> QED BY <1>2, <1>5, <2>1, <2>2
<1>8. CASE ApplyRef
  <2>1. cur \in Patch /\ i \in DOMAIN Refs[cur]
    BY <1>8, RefCursor
  <2>2. \A p \in Patch : \A k \in DOMAIN Refs[p] :
           Refs[cur][i] = Refs[p][k] => cur = p
    BY <2>1, RefsOwned
  <2>3. insns' = insns \/ memwrite(Refs[cur][i], cur)
    BY <1>8 DEF ApplyRef, queueVars
  <2> QED BY <1>1, <1>2, <1>4, <2>2, <2>3, MemwriteQueues DEF queueVars
<1>9. CASE ~(ApplyUnit \/ RevertDetour \/ ApplyRef)
  <2>1. insns' \in {insns, <<>>}
    BY <1>9 DEF Next, UlpTrigger, UlpRevertLib, GdbCall, Call, SetPatchable,
       EnableOrDisable, RunCall, LibStep, Entry, LoadApply, UnitsDone,
       ApplyDone, LoadRevert, RevertDone, RevertLib, RevertLibDone, ClientStep,
       CallReturned, Interpret, InterpretFailed, ClearQueue, InterpretDone,
       Reset, queueVars, libVars, vars
  <2> QED BY <1>2, <1>3, <2>1
<1> QED BY <1>6, <1>7, <1>8, <1>9

\* gdb's failed interpretation empties the queue without having executed it
\* (insnq_interpret_from_lib); the tool's leaves it as it is.
GdbWritesSucceed == "gdb" \in Clients => ~WriteMayFail

\* Executing the queue changes the code only to what was queued for it.
LEMMA InterpretCode ==
  ASSUME GdbWritesSucceed, ListInv, CodeInv, Interpret,
         error_state \notin RealError
  PROVE  PendingInv' /\ RefInv'
<1>1. /\ PendingInv /\ RefInv
      /\ insns \in Seq(Insn) /\ num_insns \in Nat /\ n \in Nat \ {0}
      /\ mem \in [Loc -> Patch \cup {NoPatch, Torn}]
  BY Types DEF CodeInv, ListInv
<1>2. UNCHANGED <<patches, detours, pc, cur, i>>
  BY DEF Interpret, listVars, callVars
<1>3. insns' = insns
  <2>1. CASE n > Len(insns)
    <3>1. insns = <<>>
      BY <1>1, <2>1 DEF Interpret, CodeInv, QueueInv
    <3> QED BY <3>1 DEF Interpret, InterpretFailed, ClearQueue, queueVars
  <2>2. CASE n <= Len(insns)
    <3>1. client = "gdb" => ~WriteMayFail
      BY DEF GdbWritesSucceed, ListInv, PhaseInv
    <3> QED BY <1>1, <2>2, <3>1 DEF Interpret, InterpretFailed, queueVars
  <2> QED BY <1>1, <2>1, <2>2
<1>4. ASSUME NEW x, mem'[x] # mem[x]
      PROVE  HasWrite(x)
  <2>1. n <= Len(insns)
    BY <1>4 DEF Interpret
  <2>2. \E v : mem' = [mem EXCEPT ![insns[n].dest] = v]
    BY <1>1, <1>4, <2>1 DEF Interpret
  <2>3. x = insns[n].dest
    BY <1>1, <1>4, <2>2
  <2>4. n \in DOMAIN insns
    BY <1>1, <2>1
  <2> QED BY <2>3, <2>4 DEF HasWrite
<1>5. PendingInv'
  BY <1>1, <1>2, <1>3, <1>4, PendingExecuted DEF HasWrite
<1>6. RefInv'
  <2> SUFFICES ASSUME NEW p \in Applied, NEW k \in DOMAIN Refs[p], ~ToWrite(p, k)
               PROVE  mem'[Refs[p][k]] = p \/ HasWrite(Refs[p][k])
    BY <1>2, <1>3 DEF RefInv, Applied, ToWrite, HasWrite
  <2>1. PICK x : x = Refs[p][k]
    OBVIOUS
  <2>2. mem[x] = p \/ HasWrite(x)
    BY <1>1, <2>1 DEF RefInv
  <2> QED BY <1>4, <2>1, <2>2
<1> QED BY <1>5, <1>6

\* The queue is emptied only once it was executed.
LEMMA ResetCode ==
  ASSUME ListInv, CodeInv, Reset, error_state \notin RealError
  PROVE  PendingInv' /\ RefInv'
<1>1. PendingInv /\ RefInv /\ RefValues /\ ExecInv /\ IInv /\ client_pc = "reset"
  BY DEF CodeInv, ListInv, Reset
<1>2. /\ UNCHANGED <<patches, detours, pc, cur, i, mem>>
      /\ insns' \in {insns, <<>>} /\ pc = "stopped"
  BY DEF Reset, ClearQueue, listVars, callVars, queueVars, ListInv, PhaseInv
<1>3. CASE insns' = insns
  BY <1>1, <1>2, <1>3 DEF PendingInv, LastWrite, RefInv, HasWrite, Applied, ToWrite
<1>4. CASE insns' = <<>>
  <2>1. /\ \A f \in Fun : mem[f] = NewestActive(detours[f])
        /\ \A p \in Patch : \A k \in DOMAIN Refs[p] :
              \/ mem[Refs[p][k]] = p
              \/ \A m \in DOMAIN insns : insns[m].dest # Refs[p][k]
    BY <1>1, AllExecuted
  <2>2. Applied \subseteq Patch
    BY <1>1, Types
  <2>3. PendingInv'
    BY <1>2, <1>4, <2>1 DEF PendingInv
  <2>4. ASSUME NEW p \in Applied, NEW k \in DOMAIN Refs[p]
        PROVE  mem[Refs[p][k]] = p
    BY <1>1, <1>2, <2>1, <2>2 DEF RefInv, ToWrite, HasWrite
  <2>5. RefInv'
    BY <1>2, <2>4 DEF RefInv, Applied
  <2> QED BY <2>3, <2>5
<1> QED BY <1>2, <1>3, <1>4

\* The invariant of the code is inductive.
LEMMA NextCodeInv ==
  ASSUME GdbWritesSucceed, ListInv, CodeInv, [Next]_vars
  PROVE  CodeInv'
<1>1. QueueInv' /\ ExecInv' /\ RefValues'
  BY NextQueueInv, NextExecInv, NextRefValues DEF CodeInv, ListInv
<1>2. ASSUME error_state' \notin RealError
      PROVE  PendingInv' /\ RefInv'
  <2>1. error_state \notin RealError
    <3>1. CASE RunCall
      BY <1>2, <3>1, LibStepKeepsError DEF RunCall
    <3>2. CASE SetPatchable
      BY <1>2, <3>2 DEF SetPatchable, EnableOrDisable, RealError
    <3>3. CASE ~(RunCall \/ SetPatchable)
      BY <1>2, <3>3 DEF Next, UlpTrigger, UlpRevertLib, GdbCall, Call,
         ClientStep, CallReturned, Interpret, InterpretDone, Reset, libVars, vars
    <3> QED BY <3>1, <3>2, <3>3
  <2>2. PendingInv /\ RefInv
    BY <2>1 DEF CodeInv
  <2>3. CASE RunCall
    <3>1. mem' = mem /\ LibStep
      BY <2>3 DEF RunCall
    <3>2. CASE ApplyUnit
      BY <1>2, <2>1, <3>1, <3>2, ApplyUnitCode
    <3>3. CASE ApplyRef
      BY <1>2, <2>1, <3>1, <3>3, ApplyRefCode
    <3>4. CASE RevertDetour
      BY <1>2, <2>1, <3>1, <3>4, RevertDetourCode
    <3>5. CASE Entry \/ LoadApply \/ UnitsDone \/ ApplyDone \/ LoadRevert
               \/ RevertDone \/ RevertLib \/ RevertLibDone
      <4>1. UNCHANGED <<insns, detours>>
        BY <3>5 DEF Entry, LoadApply, UnitsDone, ApplyDone, LoadRevert,
           RevertDone, RevertLib, RevertLibDone, queueVars, listVars
      <4> QED BY <1>2, <2>1, <3>1, <3>5, <4>1, QuietCode
    <3> QED BY <3>1, <3>2, <3>3, <3>4, <3>5 DEF LibStep
  <2>4. CASE Interpret
    BY <2>1, <2>4, InterpretCode
  <2>5. CASE Reset
    BY <2>1, <2>5, ResetCode
  <2>6. CASE ~(RunCall \/ Interpret \/ Reset)
    <3>1. /\ UNCHANGED <<mem, insns, detours, patches>>
          /\ pc \notin {"unit", "ref"} \/ UNCHANGED <<pc, cur, i>>
      BY <2>6 DEF Next, UlpTrigger, UlpRevertLib, GdbCall, Call, SetPatchable,
         EnableOrDisable, ClientStep, CallReturned, InterpretDone, libVars, vars,
         listVars, queueVars, callVars, ListInv, PhaseInv
    <3>2. PendingInv'
      BY <2>2, <3>1, PendingExecuted
    <3>3. Applied' = Applied /\ \A x : HasWrite(x) => HasWrite(x)'
      BY <3>1 DEF Applied, HasWrite
    <3>4. RefInv'
      BY <2>2, <3>1, <3>3, RefKept DEF ToWrite
    <3> QED BY <3>2, <3>4
  <2> QED BY <2>3, <2>4, <2>5, <2>6
<1> QED BY <1>1, <1>2 DEF CodeInv

\* It holds in a process that has just started.
LEMMA InitCodeInv == Init => CodeInv
<1> SUFFICES ASSUME Init PROVE CodeInv
  OBVIOUS
<1> USE DEF Init, LibInit
<1>1. QueueInv /\ ExecInv /\ RefValues
  BY DEF QueueInv, AtWork, ExecInv, RefValues
<1>2. PendingInv
  <2>1. \A m : m \notin DOMAIN insns
    OBVIOUS
  <2>2. ASSUME NEW f \in Fun PROVE mem[f] = NewestActive(detours[f])
    <3>1. mem[f] = NoPatch /\ detours[f] = <<>>
      BY DEF Loc
    <3> QED BY <3>1, NewestActiveNone
  <2> HIDE DEF Init, LibInit
  <2> QED BY <2>1, <2>2, Zenon DEF PendingInv
<1>3. RefInv
  BY DEF RefInv, Applied
<1> QED BY <1>1, <1>2, <1>3 DEF CodeInv

\* It holds in every state of the process.
LEMMA CodeInvariant ==
  ASSUME GdbWritesSucceed
  PROVE  Spec => []CodeInv
<1>1. ListInv /\ CodeInv /\ [Next]_vars => CodeInv'
  BY NextCodeInv
<1> QED BY <1>1, InitCodeInv, ListInvariant, PTL DEF Spec

\* While the threads run and no error blocks patching, every function is
\* redirected to the newest applied patch that replaces it: for every set of
\* patches, whatever was applied, reverted, retried or failed before, and
\* wherever an interpretation of the queue by the tool stopped.
THEOREM CodeCorrect ==
  ASSUME GdbWritesSucceed
  PROVE  Spec => []CodeMatchesList
<1>1. ListInv /\ CodeInv => CodeMatchesList
  <2> SUFFICES ASSUME ListInv, CodeInv, Healthy, NEW f \in Fun
               PROVE  mem[f] = Effective(f)
    BY DEF CodeMatchesList
  <2>1. error_state \notin RealError /\ error_state # "EUNKNOWN" /\ pc = "stopped"
    BY DEF Healthy, Idle, RealError, ListInv, PhaseInv
  <2>2. insns = <<>>
    BY DEF Healthy, QueueEmpty, CodeInv, QueueInv
  <2>3. mem[f] = NewestActive(detours[f])
    BY <2>1, <2>2 DEF CodeInv, PendingInv
  <2> QED BY <2>1, <2>3, NewestEffective
<1> QED BY <1>1, ListInvariant, CodeInvariant, PTL

\* In the same states, a function that is redirected into a patch finds the
\* references of that patch to static data of the library written.
THEOREM ReferencesCorrect ==
  ASSUME GdbWritesSucceed
  PROVE  Spec => []ReferencesWritten
<1>1. ListInv /\ CodeInv => ReferencesWritten
  <2> SUFFICES ASSUME ListInv, CodeInv, Healthy, NEW f \in Fun, NEW p \in Patch,
                      mem[f] = p, NEW k \in DOMAIN Refs[p]
               PROVE  mem[Refs[p][k]] = p
    BY DEF ReferencesWritten
  <2>1. error_state \notin RealError /\ error_state # "EUNKNOWN" /\ pc = "stopped"
    BY DEF Healthy, Idle, RealError, ListInv, PhaseInv
  <2>2. insns = <<>>
    BY DEF Healthy, QueueEmpty, CodeInv, QueueInv
  <2>3. mem[f] = NewestActive(detours[f])
    BY <2>1, <2>2 DEF CodeInv, PendingInv
  <2>4. p \in Applied
    BY <2>1, <2>3, NewestEffective, LibpulpAssumption
  <2> QED BY <2>1, <2>2, <2>4 DEF CodeInv, RefInv, ToWrite, HasWrite
<1> QED BY <1>1, ListInvariant, CodeInvariant, PTL

-----------------------------------------------------------------------------
(***************************************************************************)
(* An apply that reports success.                                          *)
(***************************************************************************)

\* The call is applying units and references, or has done so successfully and
\* its queue is being executed.
Applying ==
  /\ op = "apply" /\ error_state # "EINSNQ"
  /\ \/ pc \in {"unit", "ref"}
     \/ ret = "ENONE" /\ (pc = "done" \/ client_pc \in {"interp", "reset"})

\* An apply that has not failed so far has queued its units, and nothing but
\* writes of its own patch.
UnitsQueued ==
  Applying =>
    /\ arg \in Patch /\ (pc \in {"unit", "ref"} => cur = arg)
    /\ \A m \in DOMAIN insns : insns[m].val = arg
    /\ \A u \in DOMAIN Units[arg] :
          (pc = "unit" => u < i) => HasWrite(Units[arg][u])

AppliedInv ==
  /\ pc = "revert" => op # "apply"
  /\ UnitsQueued
  /\ SuccessIsEffective

\* The steps of a call that are not those of an apply, or in which an apply
\* ends without success.
LEMMA OtherApplied ==
  ASSUME ListInv, AppliedInv, UNCHANGED <<mem, clientVars>>,
         Entry \/ LoadRevert \/ RevertDetour \/ RevertDone \/ RevertLib
           \/ RevertLibDone
  PROVE  AppliedInv'
<1>1. client_pc = "wait" /\ client_pc' = "wait"
  BY DEF ListInv, PhaseInv, clientVars, Entry, LoadRevert, RevertDetour,
         RevertDone, RevertLib, RevertLibDone
<1>2. SuccessIsEffective'
  BY <1>1 DEF SuccessIsEffective, Idle
<1>3. CASE Entry
  BY <1>1, <1>2, <1>3 DEF Entry, Return, AppliedInv, UnitsQueued, Applying, callVars
<1>4. CASE ~Entry
  <2>1. op # "apply" /\ op' = op
    BY <1>4 DEF AppliedInv, LoadRevert, RevertDetour, RevertDone, RevertLib,
       RevertLibDone, ListInv, IInv, WalkInList, callVars
  <2> QED BY <1>2, <2>1 DEF AppliedInv, UnitsQueued, Applying
<1> QED BY <1>3, <1>4

\* The steps of an apply.
LEMMA ApplyApplied ==
  ASSUME ListInv, QueueInv, AppliedInv, UNCHANGED <<mem, clientVars>>,
         LoadApply \/ ApplyUnit \/ UnitsDone \/ ApplyRef \/ ApplyDone
  PROVE  AppliedInv'
<1>1. /\ client_pc = "wait" /\ client_pc' = "wait"
      /\ insns \in Seq(Insn) /\ size \in Nat
  BY LibpulpAssumption DEF ListInv, PhaseInv, clientVars, LoadApply, ApplyUnit,
     UnitsDone, ApplyRef, ApplyDone, IInv, TypeOK, LibTypeOK
<1>2. SuccessIsEffective' /\ (pc' = "revert" => op' # "apply")
  BY <1>1 DEF SuccessIsEffective, Idle, LoadApply, ApplyUnit, UnitsDone,
     ApplyRef, ApplyDone, Return, Fail
<1> SUFFICES ASSUME Applying' PROVE UnitsQueued'
  BY <1>2 DEF AppliedInv, UnitsQueued
<1>3. CASE LoadApply
  <2>1. /\ pc = "load" /\ pc' = "unit" /\ cur' = arg /\ i' = 1 /\ arg' = arg
        /\ insns' = insns
    BY <1>1, <1>3 DEF LoadApply, Applying, Return, queueVars, clientVars
  <2>2. arg \in Patch /\ insns = <<>>
    BY <2>1 DEF QueueInv, ListInv, IInv, TypeOK, LibTypeOK
  <2>3. \A u \in DOMAIN Units[arg] : ~(u < 1)
    BY <2>2, LibpulpAssumption
  <2> QED BY <2>1, <2>2, <2>3 DEF UnitsQueued
<1>4. CASE ApplyUnit
  <2>1. /\ pc = "unit" /\ pc' = "unit" /\ cur' = cur /\ i' = i + 1 /\ arg' = arg
        /\ op' = op /\ memwrite(Units[cur][i], cur) /\ error_state' # "EINSNQ"
    BY <1>1, <1>4 DEF ApplyUnit, Fail, Return, Applying
  <2>2. /\ Queued(Units[cur][i], cur) /\ error_state' = error_state
    BY <1>1, <2>1, MemwriteQueues
  <2>3. Applying
    BY <2>1, <2>2 DEF Applying
  <2>4. arg \in Patch /\ cur = arg /\ i \in Nat /\ Units[arg] \in Seq(Fun)
    BY <2>1, <2>3, LibpulpAssumption DEF UnitsQueued, AppliedInv, ListInv, IInv,
       TypeOK, LibTypeOK
  <2>5. \A m \in DOMAIN insns' : insns'[m].val = arg
    <3>1. \A m \in DOMAIN insns' : m \in DOMAIN insns \/ m = Len(insns) + 1
      BY <1>1, <2>2 DEF Queued
    <3> QED BY <2>2, <2>3, <2>4, <3>1 DEF Queued, UnitsQueued, AppliedInv
  <2>6. ASSUME NEW u \in DOMAIN Units[arg], u < i + 1
        PROVE  HasWrite(Units[arg][u])'
    <3>1. PICK x : x = Units[arg][u]
      OBVIOUS
    <3>2. CASE u = i
      BY <1>1, <2>1, <2>2, <2>4, <3>1, <3>2, QueuedKeeps
    <3>3. CASE u # i
      <4>1. u < i
        BY <2>4, <2>6, <3>3
      <4>2. HasWrite(x)
        BY <2>1, <2>3, <3>1, <4>1 DEF AppliedInv, UnitsQueued
      <4> QED BY <1>1, <2>1, <2>2, <3>1, <4>2, QueuedKeeps
    <3> QED BY <3>2, <3>3
  <2> QED BY <2>1, <2>4, <2>5, <2>6 DEF UnitsQueued
<1>5. CASE UnitsDone
  <2>1. /\ pc = "unit" /\ pc' = "ref" /\ UNCHANGED <<cur, arg, op, insns, error_state>>
        /\ i > Len(Units[cur])
    BY <1>1, <1>5 DEF UnitsDone, Fail, Return, Applying, queueVars
  <2>2. Applying
    BY <2>1 DEF Applying
  <2>3. arg \in Patch /\ cur = arg /\ i \in Nat
    BY <2>1, <2>2 DEF UnitsQueued, AppliedInv, ListInv, IInv, TypeOK, LibTypeOK
  <2>4. \A u \in DOMAIN Units[arg] : u < i
    BY <2>1, <2>3, LibpulpAssumption
  <2> QED BY <2>1, <2>2, <2>3, <2>4 DEF AppliedInv, UnitsQueued, HasWrite
<1>6. CASE ApplyRef
  <2>1. /\ pc = "ref" /\ pc' = "ref" /\ UNCHANGED <<cur, arg, op>>
        /\ memwrite(Refs[cur][i], cur) /\ error_state' # "EINSNQ"
    BY <1>1, <1>6 DEF ApplyRef, Fail, Return, Applying
  <2>2. /\ Queued(Refs[cur][i], cur) /\ error_state' = error_state
    BY <1>1, <2>1, MemwriteQueues
  <2>3. Applying
    BY <2>1, <2>2 DEF Applying
  <2>4. arg \in Patch /\ cur = arg
    BY <2>1, <2>3 DEF UnitsQueued, AppliedInv
  <2>5. \A m \in DOMAIN insns' : insns'[m].val = arg
    <3>1. \A m \in DOMAIN insns' : m \in DOMAIN insns \/ m = Len(insns) + 1
      BY <1>1, <2>2 DEF Queued
    <3> QED BY <2>2, <2>3, <2>4, <3>1 DEF Queued, UnitsQueued, AppliedInv
  <2>6. ASSUME NEW u \in DOMAIN Units[arg]
        PROVE  HasWrite(Units[arg][u])'
    <3>1. PICK x : x = Units[arg][u]
      OBVIOUS
    <3>2. HasWrite(x)
      BY <2>1, <2>3, <3>1 DEF AppliedInv, UnitsQueued
    <3> QED BY <1>1, <2>1, <2>2, <3>1, <3>2, QueuedKeeps
  <2> QED BY <2>1, <2>4, <2>5, <2>6 DEF UnitsQueued
<1>7. CASE ApplyDone
  <2>1. /\ pc = "ref" /\ pc' = "done" /\ UNCHANGED <<cur, arg, op, insns, error_state>>
    BY <1>7 DEF ApplyDone, Return, callVars, queueVars
  <2>2. Applying
    BY <2>1 DEF Applying
  <2> QED BY <2>1, <2>2 DEF AppliedInv, UnitsQueued, HasWrite
<1> QED BY <1>3, <1>4, <1>5, <1>6, <1>7

\* What the client does with the queue of an apply.
LEMMA ClientApplied ==
  ASSUME ListInv, QueueInv, ExecInv, AppliedInv, ClientStep
  PROVE  AppliedInv'
<1>1. /\ UNCHANGED <<error_state, patches, op, arg, cur, i, ret>>
      /\ pc' = "stopped" /\ pc \in {"stopped", "done"}
  BY DEF ClientStep, CallReturned, Interpret, InterpretDone, Reset, libVars,
         listVars, callVars, ListInv, PhaseInv
<1>2. CASE CallReturned
  <2>1. /\ UNCHANGED <<insns, mem>> /\ pc = "done"
        /\ client_pc' \in {"idle", "interp"}
        /\ client_pc' = "idle" => result' # "ENONE"
    BY <1>2 DEF CallReturned, Report, queueVars
  <2>2. SuccessIsEffective'
    BY <2>1 DEF SuccessIsEffective, Idle
  <2>3. Applying' => Applying
    BY <1>1, <2>1 DEF Applying
  <2> QED BY <1>1, <2>1, <2>2, <2>3 DEF AppliedInv, UnitsQueued, HasWrite
<1>3. CASE Interpret \/ InterpretDone
  <2>1. /\ client_pc = "interp" /\ client_pc' \in {"idle", "interp", "reset"}
        /\ client_pc' = "idle" => result' # "ENONE"
        /\ client_pc' # "idle" => insns' = insns
    BY <1>3 DEF Interpret, InterpretFailed, InterpretDone, Report, queueVars, libVars
  <2>2. SuccessIsEffective'
    BY <2>1 DEF SuccessIsEffective, Idle
  <2>3. Applying' => Applying /\ client_pc' # "idle"
    BY <1>1, <2>1 DEF Applying
  <2> QED BY <1>1, <2>1, <2>2, <2>3 DEF AppliedInv, UnitsQueued, HasWrite
<1>4. CASE Reset
  <2>1. /\ client_pc = "reset" /\ client_pc' = "idle" /\ mem' = mem
        /\ result' \in {ret, "EINSNQ"} /\ pc = "stopped"
    BY <1>4 DEF Reset, Report, ListInv, PhaseInv
  <2>2. ~Applying'
    BY <1>1, <2>1 DEF Applying
  <2>3. ASSUME op = "apply", ret = "ENONE", error_state # "EINSNQ",
               NEW u \in DOMAIN Units[arg]
        PROVE  mem[Units[arg][u]] = arg
    <3>1. Applying
      BY <2>1, <2>3 DEF Applying
    <3>2. /\ arg \in Patch /\ HasWrite(Units[arg][u])
          /\ \A m \in DOMAIN insns : insns[m].val = arg
      BY <2>1, <3>1 DEF AppliedInv, UnitsQueued
    <3>3. Units[arg][u] \in Loc
      BY <3>2, LibpulpAssumption DEF Loc
    <3> QED BY <2>1, <3>2, <3>3 DEF ExecInv, Executed, HasWrite
  <2>4. SuccessIsEffective'
    BY <1>1, <2>1, <2>3 DEF SuccessIsEffective
  <2> QED BY <1>1, <2>2, <2>4 DEF AppliedInv, UnitsQueued
<1> QED BY <1>2, <1>3, <1>4 DEF ClientStep

\* The invariant of an apply is inductive.
LEMMA NextAppliedInv ==
  ASSUME ListInv, QueueInv, ExecInv, AppliedInv, [Next]_vars
  PROVE  AppliedInv'
<1>1. CASE RunCall
  BY <1>1, OtherApplied, ApplyApplied DEF RunCall, LibStep
<1>2. CASE ClientStep
  BY <1>2, ClientApplied
<1>3. ASSUME NEW c, NEW o, NEW a, Call(c, o, a)
      PROVE  AppliedInv'
  BY <1>3 DEF Call, AppliedInv, UnitsQueued, Applying, SuccessIsEffective, Idle
<1>4. CASE SetPatchable
  <2>1. /\ UNCHANGED <<patches, mem, op, arg, cur, i, ret, pc, client_pc, result>>
        /\ pc = "stopped" /\ client_pc = "idle"
        /\ error_state' # "EINSNQ" => error_state # "EINSNQ"
    BY <1>4 DEF SetPatchable, EnableOrDisable, listVars, callVars, clientVars
  <2>2. ~Applying'
    BY <2>1 DEF Applying
  <2>3. SuccessIsEffective'
    BY <2>1 DEF AppliedInv, SuccessIsEffective, Idle, Applied
  <2> QED BY <2>1, <2>2, <2>3 DEF AppliedInv, UnitsQueued
<1>5. CASE UNCHANGED vars
  BY <1>5 DEF vars, libVars, listVars, queueVars, callVars, clientVars,
     AppliedInv, UnitsQueued, Applying, HasWrite, SuccessIsEffective, Idle, Applied
<1> QED BY <1>1, <1>2, <1>3, <1>4, <1>5 DEF Next, UlpTrigger, UlpRevertLib, GdbCall

\* What holds of the queue whether or not gdb's writes can fail.
LEMMA QueueInvariant == Spec => [](QueueInv /\ ExecInv /\ RefValues)
<1> DEFINE Q == QueueInv /\ ExecInv /\ RefValues
<1>1. Init => Q
  BY InitCodeInv DEF CodeInv
<1>2. ListInv /\ Q /\ [Next]_vars => Q'
  BY NextQueueInv, NextExecInv, NextRefValues DEF ListInv
<1> QED BY <1>1, <1>2, ListInvariant, PTL DEF Spec

\* When applying a patch reports success and the queue did not overflow, all
\* the functions of the patch are redirected to it, whatever was in memory
\* before: whoever made the call, and also if earlier calls failed.
THEOREM SuccessCorrect == Spec => []SuccessIsEffective
<1>1. Init => AppliedInv
  BY DEF Init, LibInit, AppliedInv, UnitsQueued, Applying, SuccessIsEffective,
         Applied
<1>2. ListInv /\ QueueInv /\ ExecInv /\ AppliedInv /\ [Next]_vars => AppliedInv'
  BY NextAppliedInv
<1>3. AppliedInv => SuccessIsEffective
  BY DEF AppliedInv
<1> QED BY <1>1, <1>2, <1>3, ListInvariant, QueueInvariant, PTL DEF Spec

-----------------------------------------------------------------------------
(***************************************************************************)
(* Reverting all patches of a library.                                     *)
(***************************************************************************)

\* The walk over the list is past the patch at position m.
Passed(m) == cur = NoPatch \/ \E k \in DOMAIN patches : patches[k] = cur /\ m < k

\* revert_all_patches_from_lib leaves no patch of the library behind itself,
\* although the list changes under it.
WalkPassed ==
  op = "revert_lib" /\ pc \in {"lib", "revert"} =>
    \A m \in DOMAIN patches : Passed(m) => LibOf[patches[m]] # arg

\* The saved next pointer is the successor of the patch that is being reverted.
NextSaved ==
  op = "revert_lib" /\ pc = "revert" =>
    \A k \in DOMAIN patches : patches[k] = cur =>
       nxt = IF k < Len(patches) THEN patches[k + 1] ELSE NoPatch

NoneLeft == \A p \in Applied : LibOf[p] # arg

WalkInv ==
  /\ WalkPassed /\ NextSaved
  /\ op = "revert_lib" /\ ret = "ENONE"
       /\ (pc = "done" \/ client_pc \in {"interp", "reset"}) =>
       error_state \in {"ENONE", "EINSNQ"} /\ NoneLeft
  /\ op = "revert_lib" /\ result = "ENONE" /\ client_pc = "idle" =>
       /\ error_state \in {"ENONE", "EUSRBLOCKED", "EINSNQ"}
       /\ insns = <<>> /\ NoneLeft

\* The walk starts at the head of the list.
LEMMA EntryWalk ==
  ASSUME IInv, WalkInv, Entry, client_pc = "wait", client_pc' = "wait"
  PROVE  WalkInv'
<1>1. /\ patches' = patches /\ patches \in Seq(Patch) /\ NoDuplicates(patches)
      /\ op' = op
  BY DEF Entry, listVars, callVars, IInv, TypeOK, LibTypeOK, ListWellFormed
<1>2. WalkPassed'
  <2> SUFFICES ASSUME pc' = "lib", NEW m \in DOMAIN patches, Passed(m)'
               PROVE  FALSE
    BY <1>1 DEF WalkPassed, Entry, Return
  <2>1. patches # <<>> /\ 1 \in DOMAIN patches /\ m >= 1 /\ m \in Nat
    BY <1>1
  <2>2. cur' = patches[1] /\ cur' # NoPatch
    BY <1>1, <2>1, LibpulpAssumption DEF Entry, Return
  <2>3. PICK k \in DOMAIN patches : patches[k] = patches[1] /\ m < k
    BY <1>1, <2>2 DEF Passed
  <2>4. k = 1
    BY <1>1, <2>1, <2>3 DEF NoDuplicates
  <2> QED BY <2>1, <2>3, <2>4
<1>3. NextSaved'
  BY DEF NextSaved, Entry, Return
<1>4. pc' = "done" => ret' # "ENONE"
  BY DEF Entry, Return
<1> QED BY <1>2, <1>3, <1>4 DEF WalkInv

\* The walk goes on from a patch of another library, and stops at one it may
\* revert.
LEMMA RevertLibWalk ==
  ASSUME IInv, WalkInv, RevertLib, client_pc = "wait", client_pc' = "wait"
  PROVE  WalkInv'
<1>1. /\ patches' = patches /\ patches \in Seq(Patch) /\ NoDuplicates(patches)
      /\ op' = op /\ op = "revert_lib" /\ arg' = arg /\ pc = "lib"
      /\ cur \in Applied /\ cur \in Patch /\ pc' \in {"lib", "revert"}
  BY DEF RevertLib, StartRevert, IInv, TypeOK, LibTypeOK, ListWellFormed, WalkInList
<1>2. Pos(cur) \in DOMAIN patches /\ patches[Pos(cur)] = cur
  BY <1>1, PosInList
<1>3. PICK P \in DOMAIN patches : P = Pos(cur) /\ patches[P] = cur
  BY <1>2
<1>4. \A k \in DOMAIN patches : patches[k] = cur => k = P
  BY <1>1, <1>3 DEF NoDuplicates
<1>5. NextOf(cur) = IF P < Len(patches) THEN patches[P + 1] ELSE NoPatch
  BY <1>3 DEF NextOf
<1>6. DOMAIN patches = 1..Len(patches) /\ Len(patches) \in Nat
      /\ \A k \in DOMAIN patches : patches[k] # NoPatch
  BY <1>1, LibpulpAssumption
<1>7. NextSaved'
  <2> SUFFICES ASSUME pc' = "revert"
               PROVE  \A k \in DOMAIN patches : patches[k] = cur' =>
                        nxt' = IF k < Len(patches) THEN patches[k + 1] ELSE NoPatch
    BY <1>1 DEF NextSaved
  <2>1. cur' = cur /\ nxt' = NextOf(cur)
    BY <1>1 DEF RevertLib, StartRevert
  <2> QED BY <1>4, <1>5, <2>1
<1>8. \A m \in DOMAIN patches : m < P => LibOf[patches[m]] # arg
  BY <1>1, <1>3 DEF WalkInv, WalkPassed, Passed
<1>9. WalkPassed'
  <2> SUFFICES ASSUME NEW m \in DOMAIN patches, Passed(m)'
               PROVE  LibOf[patches[m]] # arg
    BY <1>1 DEF WalkPassed
  <2>1. CASE cur' = cur
    BY <1>1, <1>4, <1>6, <1>8, <2>1, <1>3, LibpulpAssumption DEF Passed
  <2>2. CASE cur' # cur
    <3>1. cur' = NextOf(cur) /\ LibOf[cur] # arg
      BY <2>2 DEF RevertLib, StartRevert
    <3>2. m <= P
      <4>1. CASE P < Len(patches)
        <5>1. cur' = patches[P + 1] /\ P + 1 \in DOMAIN patches
          BY <1>5, <1>6, <3>1, <4>1
        <5>2. PICK k \in DOMAIN patches : patches[k] = patches[P + 1] /\ m < k
          BY <1>1, <1>6, <5>1 DEF Passed
        <5>3. k = P + 1
          BY <1>1, <5>1, <5>2 DEF NoDuplicates
        <5> QED BY <1>6, <5>2, <5>3
      <4>2. CASE ~(P < Len(patches))
        BY <1>6, <4>2
      <4> QED BY <4>1, <4>2
    <3> QED BY <1>3, <1>6, <1>8, <3>1, <3>2
  <2> QED BY <2>1, <2>2
<1> QED BY <1>1, <1>7, <1>9 DEF WalkInv

\* The patch that was reverted leaves the list, and the walk goes on from the
\* saved pointer.
LEMMA RevertDoneWalk ==
  ASSUME IInv, WalkInv, RevertDone, client_pc = "wait", client_pc' = "wait"
  PROVE  WalkInv'
<1>1. /\ patches \in Seq(Patch) /\ NoDuplicates(patches) /\ NoDuplicates(patches')
      /\ op' = op /\ arg' = arg /\ pc = "revert" /\ cur \in Applied
      /\ patches' = ulp_state_remove(cur)
      /\ IF op = "revert_lib" THEN pc' = "lib" /\ cur' = nxt ELSE pc' = "done"
  <2>1. /\ patches \in Seq(Patch) /\ ListWellFormed
        /\ op' = op /\ arg' = arg /\ pc = "revert" /\ cur \in Applied
        /\ \A q \in Applied : cur \notin Deps[q]
    BY DEF RevertDone, IInv, TypeOK, LibTypeOK, ListWellFormed, WalkInList
  <2>2. /\ patches' = ulp_state_remove(cur)
        /\ IF op = "revert_lib" THEN pc' = "lib" /\ cur' = nxt ELSE pc' = "done"
    BY <2>1 DEF RevertDone
  <2>3. NoDuplicates(ulp_state_remove(cur))
    BY <2>1, RemoveFromList
  <2> QED BY <2>1, <2>2, <2>3 DEF ListWellFormed
<1>2. CASE op # "revert_lib"
  BY <1>1, <1>2 DEF WalkInv, WalkPassed, NextSaved
<1>3. CASE op = "revert_lib"
  <2>1. Pos(cur) \in DOMAIN patches /\ patches[Pos(cur)] = cur
    BY <1>1, PosInList
  <2>2. PICK P \in DOMAIN patches : P = Pos(cur) /\ patches[P] = cur
    BY <2>1
  <2>3. DOMAIN patches = 1..Len(patches) /\ Len(patches) \in Nat
        /\ \A k \in DOMAIN patches : patches[k] # NoPatch
    BY <1>1, LibpulpAssumption
  <2>4. /\ DOMAIN patches' = 1..(Len(patches) - 1)
        /\ \A k \in DOMAIN patches' :
             patches'[k] = IF k < P THEN patches[k] ELSE patches[k + 1]
    BY <1>1, <2>2 DEF ulp_state_remove
  <2>5. \A m \in DOMAIN patches : m < P => LibOf[patches[m]] # arg
    BY <1>1, <1>3, <2>2 DEF WalkInv, WalkPassed, Passed
  <2>6. cur' = IF P < Len(patches) THEN patches[P + 1] ELSE NoPatch
    BY <1>1, <1>3, <2>2 DEF WalkInv, NextSaved
  <2>7. ASSUME NEW m \in DOMAIN patches', Passed(m)'
        PROVE  m < P
    <3>1. CASE P < Len(patches)
      <4>1. P \in DOMAIN patches' /\ patches'[P] = patches[P + 1]
            /\ P + 1 \in DOMAIN patches
        BY <2>3, <2>4, <3>1
      <4>2. cur' = patches'[P] /\ cur' # NoPatch
        BY <2>3, <2>6, <3>1, <4>1
      <4>3. PICK k \in DOMAIN patches' : patches'[k] = patches'[P] /\ m < k
        BY <2>7, <4>2 DEF Passed
      <4>4. k = P
        BY <1>1, <4>1, <4>3 DEF NoDuplicates
      <4> QED BY <4>3, <4>4
    <3>2. CASE ~(P < Len(patches))
      BY <2>3, <2>4, <3>2
    <3> QED BY <3>1, <3>2
  <2>8. WalkPassed'
    <3> SUFFICES ASSUME NEW m \in DOMAIN patches', Passed(m)'
                 PROVE  LibOf[patches'[m]] # arg
      BY <1>1 DEF WalkPassed
    <3>1. m < P /\ patches'[m] = patches[m] /\ m \in DOMAIN patches
      BY <2>3, <2>4, <2>7
    <3> QED BY <2>5, <3>1
  <2>9. NextSaved'
    BY <1>1, <1>3 DEF NextSaved
  <2> QED BY <1>1, <1>3, <2>8, <2>9 DEF WalkInv
<1> QED BY <1>2, <1>3

\* Every step keeps the walk in order.
LEMMA NextWalkInv ==
  ASSUME ListInv, WalkInv, [Next]_vars
  PROVE  WalkInv'
<1>1. IInv
  BY DEF ListInv
<1>2. CASE RunCall
  <2>1. client_pc = "wait" /\ client_pc' = "wait" /\ LibStep
    <3>1. pc # "stopped"
      BY <1>2 DEF RunCall, LibStep, Entry, LoadApply, ApplyUnit, UnitsDone,
         ApplyRef, ApplyDone, LoadRevert, RevertDetour, RevertDone, RevertLib,
         RevertLibDone
    <3> QED BY <1>2, <3>1 DEF RunCall, clientVars, ListInv, PhaseInv
  <2>2. CASE LoadApply \/ ApplyUnit \/ UnitsDone \/ ApplyRef \/ ApplyDone
             \/ LoadRevert
    <3>1. op # "revert_lib" /\ op' = op
      BY <1>1, <2>2 DEF LoadApply, ApplyUnit, UnitsDone, ApplyRef, ApplyDone,
         LoadRevert, callVars, IInv, TypeOK, LibTypeOK
    <3> QED BY <3>1 DEF WalkInv, WalkPassed, NextSaved
  <2>3. CASE RevertDetour
    <3>1. /\ UNCHANGED <<patches, pc, op, arg, cur, nxt>> /\ pc = "revert"
      BY <2>3 DEF RevertDetour
    <3> QED BY <2>1, <3>1 DEF WalkInv, WalkPassed, NextSaved, Passed
  <2>4. CASE RevertLibDone
    <3>1. /\ UNCHANGED <<patches, op, arg, error_state>> /\ pc = "lib" /\ pc' = "done"
          /\ cur = NoPatch /\ op = "revert_lib"
          /\ error_state \in {"ENONE", "EINSNQ"}
      BY <1>1, <2>4 DEF RevertLibDone, Return, listVars, callVars, ListInv,
         PhaseInv, AtWork, IInv, WalkInList
    <3>2. NoneLeft'
      BY <3>1 DEF WalkInv, WalkPassed, Passed, NoneLeft, Applied
    <3> QED BY <2>1, <3>1, <3>2 DEF WalkInv, WalkPassed, NextSaved
  <2> QED BY <1>1, <2>1, <2>2, <2>3, <2>4, EntryWalk, RevertLibWalk,
             RevertDoneWalk DEF LibStep
<1>3. CASE CallReturned
  <2>1. /\ UNCHANGED <<patches, op, arg, ret, error_state>>
        /\ pc = "done" /\ pc' = "stopped" /\ client_pc' \in {"idle", "interp"}
        /\ client_pc' = "idle" => result' # "ENONE"
    BY <1>3 DEF CallReturned, Report, listVars, callVars
  <2> QED BY <2>1 DEF WalkInv, WalkPassed, NextSaved, NoneLeft, Applied
<1>4. CASE Interpret \/ InterpretDone
  <2>1. /\ UNCHANGED <<patches, op, arg, ret, error_state, pc>>
        /\ pc = "stopped" /\ client_pc = "interp"
        /\ client_pc' \in {"idle", "interp", "reset"}
        /\ client_pc' = "idle" => result' # "ENONE"
    BY <1>4 DEF Interpret, InterpretFailed, InterpretDone, Report, listVars,
       callVars, libVars, ListInv, PhaseInv
  <2> QED BY <2>1 DEF WalkInv, WalkPassed, NextSaved, NoneLeft, Applied
<1>5. CASE Reset
  <2>1. /\ UNCHANGED <<patches, op, arg, ret, error_state, pc>>
        /\ pc = "stopped" /\ client_pc = "reset" /\ client_pc' = "idle"
        /\ result' = "EINSNQ" \/ (result' = ret /\ insns' = <<>>)
    BY <1>5 DEF Reset, ClearQueue, Report, listVars, callVars, ListInv, PhaseInv
  <2> QED BY <2>1 DEF WalkInv, WalkPassed, NextSaved, NoneLeft, Applied
<1>6. ASSUME NEW c, NEW o, NEW a, Call(c, o, a)
      PROVE  WalkInv'
  BY <1>6 DEF Call, WalkInv, WalkPassed, NextSaved
<1>7. CASE SetPatchable
  <2>1. /\ UNCHANGED <<patches, op, arg, pc, client_pc, result, insns>>
        /\ pc = "stopped" /\ client_pc = "idle"
        /\ error_state \in {"ENONE", "EUSRBLOCKED", "EINSNQ"} =>
             error_state' \in {"ENONE", "EUSRBLOCKED", "EINSNQ"}
    BY <1>7 DEF SetPatchable, EnableOrDisable, listVars, callVars, clientVars,
                queueVars
  <2> QED BY <2>1 DEF WalkInv, WalkPassed, NextSaved, NoneLeft, Applied
<1>8. CASE UNCHANGED vars
  BY <1>8 DEF vars, libVars, listVars, queueVars, callVars, clientVars, WalkInv,
     WalkPassed, Passed, NextSaved, NoneLeft, Applied
<1> QED BY <1>2, <1>3, <1>4, <1>5, <1>6, <1>7, <1>8
           DEF Next, UlpTrigger, UlpRevertLib, GdbCall, ClientStep

\* It holds in every state of the process.
LEMMA WalkInvariant == Spec => []WalkInv
<1>1. Init => WalkInv
  BY DEF Init, LibInit, WalkInv, WalkPassed, NextSaved
<1>2. ListInv /\ WalkInv /\ [Next]_vars => WalkInv'
  BY NextWalkInv
<1> QED BY <1>1, <1>2, ListInvariant, PTL DEF Spec

\* A revert-all that reports success has reverted every patch of the library:
\* none is left in the list, and none of the functions is redirected into one,
\* unless the queue overflowed, when memwrite fails unheeded and the call
\* reports success all the same (RevertAllReverts exempts the error EINSNQ).
THEOREM RevertAllCorrect ==
  ASSUME GdbWritesSucceed
  PROVE  Spec => []RevertAllReverts
<1>1. ListInv /\ CodeInv /\ WalkInv => RevertAllReverts
  <2> SUFFICES ASSUME ListInv, CodeInv, WalkInv, Idle, op = "revert_lib",
                      result = "ENONE", error_state # "EINSNQ",
                      NEW p \in Patch, LibOf[p] = arg
               PROVE  p \notin Applied /\ \A f \in Fun : mem[f] # p
    BY DEF RevertAllReverts
  <2>1. /\ error_state \in {"ENONE", "EUSRBLOCKED"} /\ insns = <<>>
        /\ p \notin Applied /\ pc = "stopped"
    BY DEF WalkInv, Idle, NoneLeft, ListInv, PhaseInv
  <2>2. ASSUME NEW f \in Fun PROVE mem[f] # p
    <3>1. mem[f] = NewestActive(detours[f])
      BY <2>1 DEF CodeInv, PendingInv, RealError
    <3> QED BY <2>1, <3>1, NewestEffective, LibpulpAssumption
  <2> QED BY <2>1, <2>2
<1> QED BY <1>1, ListInvariant, CodeInvariant, WalkInvariant, PTL

=============================================================================
