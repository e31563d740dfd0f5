-------------------------- MODULE LivePatchProofs --------------------------
(***************************************************************************)
(* Theorems about LivePatch, for every set of functions, libraries and     *)
(* patches, every dependency relation and every size of the queue.         *)
(***************************************************************************)
EXTENDS LivePatch, TLAPS

-----------------------------------------------------------------------------
(***************************************************************************)
(* The list of applied patches.                                            *)
(***************************************************************************)

\* Looking up an applied patch gives its position in the list.
LEMMA PosInList ==
  ASSUME patches \in Seq(Patch), NEW p \in Applied
  PROVE  Pos(p) \in 1..Len(patches) /\ patches[Pos(p)] = p
BY DEF Pos, Applied

\* The first patch of a non-empty list is applied.
LEMMA HeadApplied ==
  ASSUME patches \in Seq(Patch), patches # <<>>
  PROVE  patches[1] \in Applied
BY DEF Applied

\* patch->next is another patch of the list, or NULL.
LEMMA NextInList ==
  ASSUME patches \in Seq(Patch), NoDuplicates(patches), NEW p \in Applied
  PROVE  NextOf(p) \in (Applied \ {p}) \cup {NoPatch}
BY PosInList DEF NextOf, NoDuplicates, Applied

\* Removing a patch nobody depends on keeps the list well formed, and removes
\* that patch only.
LEMMA RemoveFromList ==
  ASSUME patches \in Seq(Patch), ListWellFormed, NEW p \in Applied,
         \A q \in Applied : p \notin Deps[q]
  PROVE  LET s == ulp_state_remove(p) IN
         /\ s \in Seq(Patch)
         /\ NoDuplicates(s)
         /\ DepsBelow(s)
         /\ \A q \in Applied \ {p} : \E k \in DOMAIN s : s[k] = q
<1> DEFINE s == ulp_state_remove(p)
           P == Pos(p)
<1>1. P \in 1..Len(patches) /\ patches[P] = p /\ Len(patches) \in Nat
  BY PosInList
<1>2. /\ DOMAIN s = 1..(Len(patches) - 1)
      /\ \A k \in 1..(Len(patches) - 1) :
            s[k] = IF k < P THEN patches[k] ELSE patches[k + 1]
  BY DEF ulp_state_remove
<1>3. s \in Seq(Patch) /\ Len(s) = Len(patches) - 1
  BY <1>1, <1>2 DEF ulp_state_remove
<1> HIDE DEF s, P
<1>4. NoDuplicates(s)
  <2> SUFFICES ASSUME NEW k \in DOMAIN s, NEW m \in DOMAIN s, s[k] = s[m]
               PROVE  k = m
    BY DEF NoDuplicates
  <2> DEFINE k0 == IF k < P THEN k ELSE k + 1
             m0 == IF m < P THEN m ELSE m + 1
  <2>1. k0 \in DOMAIN patches /\ s[k] = patches[k0]
    BY <1>1, <1>2
  <2>2. m0 \in DOMAIN patches /\ s[m] = patches[m0]
    BY <1>1, <1>2
  <2>3. k0 = m0
    BY <2>1, <2>2 DEF NoDuplicates, ListWellFormed
  <2> QED BY <1>1, <1>2, <2>3
<1>5. DepsBelow(s)
  <2> SUFFICES ASSUME NEW k \in DOMAIN s, NEW d \in Deps[s[k]]
               PROVE  \E m \in DOMAIN s : m > k /\ s[m] = d
    BY DEF DepsBelow
  <2> DEFINE k0 == IF k < P THEN k ELSE k + 1
  <2>1. k0 \in DOMAIN patches /\ s[k] = patches[k0]
    BY <1>1, <1>2
  <2>2. PICK m0 \in DOMAIN patches : m0 > k0 /\ patches[m0] = d
    BY <2>1 DEF ListWellFormed, DepsBelow
  <2>3. m0 # P
    BY <1>1, <2>1, <2>2 DEF Applied
  <2>4. CASE m0 < P
    <3>1. m0 \in DOMAIN s /\ m0 > k /\ s[m0] = d
      BY <1>1, <1>2, <2>1, <2>2, <2>4
    <3> QED BY <3>1
  <2>5. CASE m0 > P
    <3>1. m0 - 1 \in DOMAIN s /\ m0 - 1 > k /\ s[m0 - 1] = d
      BY <1>1, <1>2, <2>1, <2>2, <2>5
    <3> QED BY <3>1
  <2> QED BY <1>1, <2>3, <2>4, <2>5
<1>6. \A q \in Applied \ {p} : \E k \in DOMAIN s : s[k] = q
  <2> SUFFICES ASSUME NEW q \in Applied \ {p}
               PROVE  \E k \in DOMAIN s : s[k] = q
    OBVIOUS
  <2>1. PICK m \in DOMAIN patches : patches[m] = q
    BY DEF Applied
  <2>2. m # P
    BY <1>1, <2>1
  <2>3. CASE m < P
    BY <1>1, <1>2, <2>1, <2>3
  <2>4. CASE m > P
    <3>1. m - 1 \in DOMAIN s /\ s[m - 1] = q
      BY <1>1, <1>2, <2>1, <2>4
    <3> QED BY <3>1
  <2> QED BY <1>1, <2>2, <2>3, <2>4
<1> QED BY <1>3, <1>4, <1>5, <1>6 DEF s

\* Pushing a patch that passed the sanity checks keeps the list well formed.
LEMMA PushOnList ==
  ASSUME patches \in Seq(Patch), ListWellFormed, NEW p \in Patch,
         check_patch_sanity(p) = "ENONE"
  PROVE  LET s == <<p>> \o patches IN
         /\ s \in Seq(Patch)
         /\ NoDuplicates(s)
         /\ DepsBelow(s)
<1> DEFINE s == <<p>> \o patches
<1>1. p \notin Applied /\ Deps[p] \subseteq Applied
  BY DEF check_patch_sanity
<1>2. /\ s \in Seq(Patch)
      /\ Len(patches) \in Nat
      /\ DOMAIN s = 1..(Len(patches) + 1)
      /\ s[1] = p
      /\ \A k \in 2..(Len(patches) + 1) : s[k] = patches[k - 1]
  OBVIOUS
<1> HIDE DEF s
<1>3. NoDuplicates(s)
  BY <1>1, <1>2 DEF NoDuplicates, ListWellFormed, Applied
<1>4. DepsBelow(s)
  <2> SUFFICES ASSUME NEW k \in DOMAIN s, NEW d \in Deps[s[k]]
               PROVE  \E m \in DOMAIN s : m > k /\ s[m] = d
    BY DEF DepsBelow
  <2>1. CASE k = 1
    <3>1. PICK m \in DOMAIN patches : patches[m] = d
      BY <1>1, <1>2, <2>1 DEF Applied
    <3>2. m + 1 \in DOMAIN s /\ m + 1 > k /\ s[m + 1] = d
      BY <1>2, <2>1, <3>1
    <3> QED BY <3>2
  <2>2. CASE k > 1
    <3>1. k - 1 \in DOMAIN patches /\ s[k] = patches[k - 1]
      BY <1>2, <2>2
    <3>2. PICK m \in DOMAIN patches : m > k - 1 /\ patches[m] = d
      BY <3>1 DEF ListWellFormed, DepsBelow
    <3>3. m + 1 \in DOMAIN s /\ m + 1 > k /\ s[m + 1] = d
      BY <1>2, <2>2, <3>2
    <3> QED BY <3>3
  <2> QED BY <1>2, <2>1, <2>2
<1> QED BY <1>2, <1>3, <1>4 DEF s

-----------------------------------------------------------------------------
(***************************************************************************)
(* The queue and the detours.                                              *)
(***************************************************************************)

\* Queueing a write keeps the queue within its size, whether the write fits
\* or is dropped.
LEMMA MemwriteType ==
  ASSUME LibTypeOK, NEW x \in Loc, NEW v \in Patch \cup {NoPatch},
         memwrite(x, v)
  PROVE  /\ error_state' \in {"ENONE", "EUSRBLOCKED"} \cup RealError
         /\ insns' \in Seq(Insn)
         /\ num_insns' \in Nat
         /\ size' \in 0..QueueMax
         /\ error_state \in RealError => error_state' \in RealError
<1>1. CASE size + InsnWords(x, v) > QueueMax
  BY <1>1 DEF LibTypeOK, memwrite, queueVars, RealError
<1>2. CASE ~(size + InsnWords(x, v) > QueueMax)
  <2>1. [dest |-> x, val |-> v] \in Insn
    BY DEF Insn
  <2>2. /\ insns' = Append(insns, [dest |-> x, val |-> v])
        /\ num_insns' = num_insns + 1
        /\ size' = size + InsnWords(x, v)
        /\ error_state' = error_state
    BY <1>2 DEF memwrite
  <2>3. InsnWords(x, v) \in {3, 4}
    BY DEF InsnWords
  <2>4. insns' \in Seq(Insn)
    BY <2>1, <2>2 DEF LibTypeOK
  <2>5. num_insns' \in Nat /\ size' \in 0..QueueMax
    BY <1>2, <2>2, <2>3, LibpulpAssumption DEF LibTypeOK
  <2> QED BY <2>2, <2>4, <2>5 DEF LibTypeOK
<1> QED BY <1>1, <1>2

\* Overwriting an element of a sequence gives a sequence of the same length.
LEMMA SeqUpdate ==
  ASSUME NEW S, NEW q \in Seq(S), NEW k \in DOMAIN q, NEW x \in S
  PROVE  [q EXCEPT ![k] = x] \in Seq(S) /\ Len([q EXCEPT ![k] = x]) = Len(q)
OBVIOUS

\* The version a detour list selects is a patch, or none.
LEMMA NewestActiveType ==
  ASSUME NEW ds \in Seq(Detour)
  PROVE  NewestActive(ds) \in Patch \cup {NoPatch}
<1>1. CASE \E k \in DOMAIN ds : IsNewestActive(ds, k)
  <2> DEFINE k0 == CHOOSE k \in DOMAIN ds : IsNewestActive(ds, k)
  <2>1. k0 \in DOMAIN ds
    BY <1>1
  <2>2. ds[k0] \in Detour
    BY <2>1
  <2>3. NewestActive(ds) = ds[k0].patch
    BY <1>1 DEF NewestActive
  <2> QED BY <2>2, <2>3 DEF Detour
<1>2. CASE ~\E k \in DOMAIN ds : IsNewestActive(ds, k)
  BY <1>2 DEF NewestActive
<1> QED BY <1>1, <1>2

-----------------------------------------------------------------------------
(***************************************************************************)
(* Type correctness and the list invariants, proved together: the pointers *)
(* of revert_all_patches_from_lib are typed because they point into the    *)
(* list, and stay there because the list has no duplicates.                *)
(***************************************************************************)

IInv == TypeOK /\ ListWellFormed /\ WalkInList

\* The invariant holds in a process that has just started.
LEMMA InitIInv == Init => IInv
BY LibpulpAssumption, LivePatchAssumption
   DEF Init, LibInit, StartupErrors, DisabledByUser, IInv, TypeOK, LibTypeOK,
       ListWellFormed, NoDuplicates,
       DepsBelow, WalkInList, Applied, RealError, Loc

\* The parts of the invariant that a step leaving the list alone can disturb.
LEMMA ListUnchanged ==
  ASSUME IInv, UNCHANGED patches
  PROVE  ListWellFormed' /\ Applied' = Applied
BY DEF IInv, ListWellFormed, NoDuplicates, DepsBelow, Applied

\* Making a call.
LEMMA CallIInv ==
  ASSUME IInv, NEW c \in {"ulp", "gdb"},
         NEW o \in {"apply", "revert", "revert_lib"}, NEW a,
         o # "revert_lib" => a \in Patch, Call(c, o, a)
  PROVE  IInv'
<1>1. ListWellFormed'
  BY ListUnchanged DEF Call, listVars
<1>2. TypeOK' /\ WalkInList'
  BY DEF IInv, TypeOK, LibTypeOK, WalkInList, Call, listVars, queueVars
<1> QED BY <1>1, <1>2 DEF IInv

\* The entry checks, and the start of the walk over the list.
LEMMA EntryIInv ==
  ASSUME IInv, Entry, UNCHANGED <<mem, clientVars>>
  PROVE  IInv'
<1> USE DEF Entry, Return, listVars, queueVars, callVars, clientVars
<1>1. ListWellFormed' /\ Applied' = Applied
  BY ListUnchanged
<1>2. patches # <<>> => patches[1] \in Applied /\ patches[1] \in Patch
  BY HeadApplied DEF IInv, TypeOK, LibTypeOK
<1>3. TypeOK'
  BY <1>2 DEF IInv, TypeOK, LibTypeOK, RealError
<1>4. WalkInList'
  BY <1>1, <1>2 DEF IInv, WalkInList
<1> QED BY <1>1, <1>3, <1>4 DEF IInv

\* Pushing a patch whose dependencies are applied and which is not itself.
LEMMA LoadApplyIInv ==
  ASSUME IInv, LoadApply, UNCHANGED <<mem, clientVars>>
  PROVE  IInv'
<1> USE DEF LoadApply, Return, listVars, queueVars, callVars, clientVars
<1>1. CASE UNCHANGED patches
  <2>1. ListWellFormed' /\ Applied' = Applied
    BY <1>1, ListUnchanged
  <2>2. pc' = "done" /\ UNCHANGED <<listVars, callVars>>
    BY <1>1 DEF IInv, TypeOK, LibTypeOK
  <2> QED BY <2>1, <2>2 DEF IInv, TypeOK, LibTypeOK, WalkInList
<1>2. CASE patches' # patches
  <2>1. /\ check_patch_sanity(arg) = "ENONE"
        /\ patches' = <<arg>> \o patches
        /\ universe' = universe + 1
        /\ pc' = "unit" /\ cur' = arg /\ i' = 1
        /\ op' = "apply"
    BY <1>2
  <2>2. arg \in Patch /\ patches \in Seq(Patch)
    BY DEF IInv, TypeOK, LibTypeOK
  <2>3. patches' \in Seq(Patch) /\ NoDuplicates(patches') /\ DepsBelow(patches')
    BY <2>1, <2>2, PushOnList DEF IInv
  <2>4. ListWellFormed'
    BY <2>3 DEF ListWellFormed, NoDuplicates, DepsBelow
  <2>5. Len(Units[arg]) \in Nat
    BY <2>2, LibpulpAssumption
  <2>6. TypeOK' /\ WalkInList'
    BY <2>1, <2>2, <2>3, <2>5 DEF IInv, TypeOK, LibTypeOK, WalkInList
  <2> QED BY <2>4, <2>6 DEF IInv
<1> QED BY <1>1, <1>2

\* The unit loop does not touch the list; its cursor stays in range.
LEMMA ApplyUnitIInv ==
  ASSUME IInv, ApplyUnit, UNCHANGED <<mem, clientVars>>
  PROVE  IInv'
<1> DEFINE f == Units[cur][i]
<1>1. ListWellFormed' /\ Applied' = Applied
  BY ListUnchanged DEF ApplyUnit
<1>2. cur \in Patch /\ i \in 1..Len(Units[cur]) /\ Len(Units[cur]) \in Nat
  BY LibpulpAssumption DEF IInv, TypeOK, LibTypeOK, ApplyUnit
<1>3. f \in Fun /\ f \in Loc
  BY <1>2, LibpulpAssumption DEF Loc
<1>4. push_new_root(f) \in Seq(Fun) /\ roots \in Seq(Fun)
  <2>1. roots \in Seq(Fun)
    BY DEF IInv, TypeOK, LibTypeOK
  <2>2. <<f>> \o roots \in Seq(Fun)
    BY <1>3, <2>1
  <2> QED BY <2>1, <2>2 DEF push_new_root
<1>5. push_new_detour(f, cur) \in [Fun -> Seq(Detour)]
  <2>1. [patch |-> cur, active |-> TRUE] \in Detour
    BY <1>2 DEF Detour
  <2>2. <<[patch |-> cur, active |-> TRUE]>> \o detours[f] \in Seq(Detour)
    BY <1>3, <2>1 DEF IInv, TypeOK, LibTypeOK
  <2> QED BY <2>2 DEF IInv, TypeOK, LibTypeOK, push_new_detour
<1>6. detours' \in [Fun -> Seq(Detour)] /\ roots' \in Seq(Fun)
  BY <1>4, <1>5 DEF ApplyUnit, IInv, TypeOK, LibTypeOK
<1>7. /\ error_state' \in {"ENONE", "EUSRBLOCKED"} \cup RealError
      /\ insns' \in Seq(Insn) /\ num_insns' \in Nat /\ size' \in 0..QueueMax
  <2>1. CASE memwrite(f, cur)
    BY <2>1, <1>2, <1>3, MemwriteType DEF IInv, TypeOK
  <2>2. CASE ~memwrite(f, cur)
    BY <2>2 DEF ApplyUnit, Fail, queueVars, IInv, TypeOK, LibTypeOK, RealError
  <2> QED BY <2>1, <2>2
<1>8. /\ \/ pc' = "done"
         \/ pc' = "unit" /\ i' = i + 1
      /\ pc = "unit"
      /\ UNCHANGED <<patches, universe, op, arg, cur, nxt, j>>
  BY DEF ApplyUnit, Fail, Return
<1>9. TypeOK'
  <2>1. CASE pc' = "done"
    BY <1>6, <1>7, <1>8, <2>1 DEF IInv, TypeOK, LibTypeOK, clientVars
  <2>2. CASE pc' = "unit" /\ i' = i + 1
    <3>1. i' \in 1..(Len(Units[cur']) + 1) /\ cur' \in Patch
      BY <1>2, <1>8, <2>2
    <3> QED BY <1>6, <1>7, <1>8, <2>2, <3>1 DEF IInv, TypeOK, LibTypeOK, clientVars
  <2> QED BY <1>8, <2>1, <2>2
<1>10. WalkInList'
  BY <1>2, <1>8 DEF IInv, WalkInList
<1> QED BY <1>1, <1>9, <1>10 DEF IInv

\* From the units to the references.
LEMMA UnitsDoneIInv ==
  ASSUME IInv, UnitsDone, UNCHANGED <<mem, clientVars>>
  PROVE  IInv'
<1> USE DEF UnitsDone, Fail, Return, listVars, queueVars, clientVars
<1>1. ListWellFormed' /\ Applied' = Applied
  BY ListUnchanged
<1>2. cur \in Patch /\ Len(Refs[cur]) \in Nat
  BY LibpulpAssumption DEF IInv, TypeOK, LibTypeOK
<1>3. TypeOK' /\ WalkInList'
  BY <1>2 DEF IInv, TypeOK, LibTypeOK, WalkInList, RealError
<1> QED BY <1>1, <1>3 DEF IInv

\* The reference loop does not touch the list; its cursor stays in range.
LEMMA ApplyRefIInv ==
  ASSUME IInv, ApplyRef, UNCHANGED <<mem, clientVars>>
  PROVE  IInv'
<1>1. ListWellFormed' /\ Applied' = Applied
  BY ListUnchanged DEF ApplyRef, listVars
<1>2. cur \in Patch /\ i \in 1..Len(Refs[cur]) /\ Len(Refs[cur]) \in Nat
  BY LibpulpAssumption DEF IInv, TypeOK, LibTypeOK, ApplyRef
<1>3. Refs[cur][i] \in Loc
  BY <1>2, LibpulpAssumption DEF Loc
<1>4. /\ error_state' \in {"ENONE", "EUSRBLOCKED"} \cup RealError
      /\ insns' \in Seq(Insn) /\ num_insns' \in Nat /\ size' \in 0..QueueMax
  <2>1. CASE memwrite(Refs[cur][i], cur)
    BY <2>1, <1>2, <1>3, MemwriteType DEF IInv, TypeOK
  <2>2. CASE ~memwrite(Refs[cur][i], cur)
    BY <2>2 DEF ApplyRef, Fail, queueVars, IInv, TypeOK, LibTypeOK, RealError
  <2> QED BY <2>1, <2>2
<1>5. \/ pc' = "done"
      \/ pc' = "ref" /\ i' = i + 1
  BY DEF ApplyRef, Fail, Return
<1>7. pc = "ref" /\ UNCHANGED <<listVars, op, arg, cur, nxt, j>>
  BY DEF ApplyRef, Fail, Return
<1>6. TypeOK' /\ WalkInList'
  <2>1. CASE pc' = "done"
    BY <1>4, <1>7, <2>1 DEF IInv, TypeOK, LibTypeOK, WalkInList, listVars, clientVars
  <2>2. CASE pc' = "ref" /\ i' = i + 1
    <3>1. i' \in 1..(Len(Refs[cur']) + 1) /\ cur' \in Patch
      BY <1>2, <1>7, <2>2
    <3> QED BY <1>4, <1>7, <2>2, <3>1
            DEF IInv, TypeOK, LibTypeOK, WalkInList, listVars, clientVars
  <2> QED BY <1>5, <2>1, <2>2
<1> QED BY <1>1, <1>6 DEF IInv

\* Returning from a call.
LEMMA ReturnIInv ==
  ASSUME IInv, ApplyDone \/ RevertLibDone, UNCHANGED <<mem, clientVars>>
  PROVE  IInv'
<1> USE DEF ApplyDone, RevertLibDone, Return, listVars, queueVars, callVars,
            clientVars
<1>1. ListWellFormed' /\ Applied' = Applied
  BY ListUnchanged
<1>2. TypeOK' /\ WalkInList'
  BY DEF IInv, TypeOK, LibTypeOK, WalkInList
<1> QED BY <1>1, <1>2 DEF IInv

\* A revert starts only for an applied patch nobody depends on.
LEMMA LoadRevertIInv ==
  ASSUME IInv, LoadRevert, UNCHANGED <<mem, clientVars>>
  PROVE  IInv'
<1> USE DEF LoadRevert, Return, StartRevert, queueVars, clientVars
<1>1. ListWellFormed' /\ Applied' = Applied
  BY ListUnchanged
<1>2. arg \in Patch
  BY DEF IInv, TypeOK, LibTypeOK
<1>3. CASE ulp_can_revert_patch(arg) # "ENONE"
  <2>1. TypeOK' /\ WalkInList'
    BY <1>3 DEF IInv, TypeOK, LibTypeOK, WalkInList
  <2> QED BY <1>1, <2>1 DEF IInv
<1>4. CASE ulp_can_revert_patch(arg) = "ENONE"
  <2>1. arg \in Applied /\ \A q \in Applied : arg \notin Deps[q]
    BY <1>4 DEF ulp_can_revert_patch
  <2>2. WalkInList'
    BY <1>1, <1>4, <2>1 DEF WalkInList
  <2>3. /\ Len(roots) \in Nat
        /\ 1 <= Len(roots) => Len(detours[roots[1]]) \in Nat
    BY DEF IInv, TypeOK, LibTypeOK
  <2>4. TypeOK'
    BY <1>2, <1>4, <2>3 DEF IInv, TypeOK, LibTypeOK
  <2> QED BY <1>1, <2>2, <2>4 DEF IInv
<1> QED BY <1>3, <1>4

\* The loops over roots and detours do not touch the list of patches.
LEMMA RevertDetourIInv ==
  ASSUME IInv, RevertDetour, UNCHANGED <<mem, clientVars>>
  PROVE  IInv'
<1> DEFINE f   == roots[i]
           ds  == detours[f]
           off == [ds EXCEPT ![j].active = FALSE]
<1>1. ListWellFormed' /\ Applied' = Applied
  BY ListUnchanged DEF RevertDetour
<1>2. WalkInList'
  BY <1>1 DEF RevertDetour, IInv, WalkInList
<1>3. /\ i \in 1..Len(roots) /\ Len(roots) \in Nat /\ j \in Nat \ {0}
      /\ f \in Fun /\ ds \in Seq(Detour) /\ Len(ds) \in Nat
      /\ j <= Len(ds) + 1
      /\ detours \in [Fun -> Seq(Detour)] /\ roots \in Seq(Fun)
  <2>1. pc = "revert" /\ i <= Len(roots)
    BY DEF RevertDetour
  <2>2. /\ roots \in Seq(Fun) /\ detours \in [Fun -> Seq(Detour)]
        /\ i \in 1..(Len(roots) + 1) /\ j \in Nat \ {0}
        /\ i <= Len(roots) => j <= Len(detours[roots[i]]) + 1
    BY <2>1 DEF IInv, TypeOK, LibTypeOK
  <2>3. i \in 1..Len(roots) /\ Len(roots) \in Nat
    BY <2>1, <2>2
  <2>4. f \in Fun
    BY <2>2, <2>3
  <2> QED BY <2>1, <2>2, <2>3, <2>4
<1>4. /\ UNCHANGED <<patches, roots, universe, pc, op, arg, cur, nxt, ret>>
      /\ pc = "revert"
  BY DEF RevertDetour
<1>5. CASE j > Len(ds)
  <2>1. /\ i' = i + 1 /\ j' = 1
        /\ UNCHANGED <<detours, queueVars, error_state>>
    BY <1>3, <1>5 DEF RevertDetour
  <2>2. i' <= Len(roots) => Len(detours[roots[i']]) \in Nat
    BY <1>3, <2>1
  <2>3. TypeOK'
    BY <1>3, <1>4, <2>1, <2>2
       DEF IInv, TypeOK, LibTypeOK, queueVars, clientVars
  <2> QED BY <1>1, <1>2, <2>3 DEF IInv
<1>6. CASE j <= Len(ds) /\ ds[j].patch # cur
  <2>1. /\ i' = i /\ j' = j + 1
        /\ UNCHANGED <<detours, queueVars, error_state>>
    BY <1>3, <1>6 DEF RevertDetour
  <2>2. TypeOK'
    BY <1>3, <1>4, <1>6, <2>1
       DEF IInv, TypeOK, LibTypeOK, queueVars, clientVars
  <2> QED BY <1>1, <1>2, <2>2 DEF IInv
<1>7. CASE j <= Len(ds) /\ ds[j].patch = cur
  <2>1. /\ i' = i /\ j' = j + 1
        /\ detours' = [detours EXCEPT ![f] = off]
        /\ IF f \in Unpatchable THEN UNCHANGED <<queueVars, error_state>>
                                ELSE memwrite(f, NewestActive(off))
    BY <1>3, <1>7 DEF RevertDetour
  <2>2. off \in Seq(Detour) /\ Len(off) = Len(ds)
    <3> DEFINE d == [ds[j] EXCEPT !.active = FALSE]
    <3>1. j \in DOMAIN ds /\ ds[j] \in Detour
      BY <1>3, <1>7
    <3>2. d \in Detour
      BY <3>1 DEF Detour
    <3>3. off = [ds EXCEPT ![j] = d]
      OBVIOUS
    <3> HIDE DEF d, ds, off
    <3> QED BY <1>3, <3>1, <3>2, <3>3, SeqUpdate
  <2>3. detours' \in [Fun -> Seq(Detour)] /\ detours'[f] = off
    BY <1>3, <2>1, <2>2
  <2>4. /\ error_state' \in {"ENONE", "EUSRBLOCKED"} \cup RealError
        /\ insns' \in Seq(Insn) /\ num_insns' \in Nat
        /\ size' \in 0..QueueMax
    <3>1. CASE f \in Unpatchable
      BY <2>1, <3>1 DEF queueVars, IInv, TypeOK, LibTypeOK
    <3>2. CASE f \notin Unpatchable
      <4>1. f \in Loc /\ NewestActive(off) \in Patch \cup {NoPatch}
        BY <1>3, <2>2, NewestActiveType DEF Loc
      <4>2. memwrite(f, NewestActive(off))
        BY <2>1, <3>2
      <4> HIDE DEF f, off
      <4> QED BY <4>1, <4>2, MemwriteType DEF IInv, TypeOK
    <3> QED BY <3>1, <3>2
  <2> HIDE DEF off
  <2>5. TypeOK'
    BY <1>3, <1>4, <1>7, <2>1, <2>2, <2>3, <2>4, SMTT(20)
       DEF IInv, TypeOK, LibTypeOK, clientVars
  <2> QED BY <1>1, <1>2, <2>5 DEF IInv
<1> QED BY <1>3, <1>5, <1>6, <1>7

\* The reverted patch leaves the list, and the saved next pointer is still in it.
LEMMA RevertDoneIInv ==
  ASSUME IInv, RevertDone, UNCHANGED <<mem, clientVars>>
  PROVE  IInv'
<1> DEFINE s == ulp_state_remove(cur)
<1>1. /\ cur \in Applied /\ \A q \in Applied : cur \notin Deps[q]
      /\ patches \in Seq(Patch) /\ ListWellFormed
  BY DEF RevertDone, IInv, WalkInList, TypeOK, LibTypeOK
<1>2. patches' = s
  BY <1>1 DEF RevertDone
<1>3. /\ s \in Seq(Patch) /\ NoDuplicates(s) /\ DepsBelow(s)
      /\ \A q \in Applied \ {cur} : \E k \in DOMAIN s : s[k] = q
  BY <1>1, RemoveFromList
<1> HIDE DEF s
<1>4. ListWellFormed'
  BY <1>2, <1>3 DEF ListWellFormed, NoDuplicates, DepsBelow
<1>5. \A q \in Applied \ {cur} : q \in Applied'
  BY <1>2, <1>3 DEF Applied
<1>6. WalkInList'
  BY <1>1, <1>5 DEF RevertDone, IInv, WalkInList
<1>7. TypeOK'
  BY <1>1, <1>2, <1>3 DEF RevertDone, Return, IInv, TypeOK, LibTypeOK,
                          queueVars, clientVars
<1> QED BY <1>4, <1>6, <1>7 DEF IInv

\* A turn of revert_all_patches_from_lib.
LEMMA RevertLibIInv ==
  ASSUME IInv, RevertLib, UNCHANGED <<mem, clientVars>>
  PROVE  IInv'
<1>1. ListWellFormed' /\ Applied' = Applied
  BY ListUnchanged DEF RevertLib
<1>2. /\ op = "revert_lib" /\ cur \in Applied /\ cur \in Patch
      /\ patches \in Seq(Patch) /\ NoDuplicates(patches)
  BY DEF RevertLib, IInv, WalkInList, TypeOK, LibTypeOK, ListWellFormed
<1>3. NextOf(cur) \in (Applied \ {cur}) \cup {NoPatch}
  BY <1>2, NextInList
<1>4. Applied \subseteq Patch
  BY <1>2 DEF Applied
<1> USE DEF RevertLib, StartRevert, queueVars, clientVars
<1>5. CASE pc' = "revert"
  <2>1. ulp_can_revert_patch(cur) = "ENONE" /\ cur' = cur /\ i' = 1 /\ j' = 1
    BY <1>5
  <2>2. \A q \in Applied : cur \notin Deps[q]
    BY <1>2, <2>1 DEF ulp_can_revert_patch
  <2>3. WalkInList'
    BY <1>1, <1>2, <1>3, <1>5, <2>1, <2>2 DEF WalkInList
  <2>4. /\ Len(roots) \in Nat
        /\ 1 <= Len(roots) => Len(detours[roots[1]]) \in Nat
    BY DEF IInv, TypeOK, LibTypeOK
  <2>5. TypeOK'
    BY <1>2, <1>3, <1>4, <1>5, <2>1, <2>4 DEF IInv, TypeOK, LibTypeOK
  <2> QED BY <1>1, <2>3, <2>5 DEF IInv
<1>6. CASE pc' # "revert"
  <2>1. /\ pc' = "lib" /\ cur' \in {cur, NextOf(cur)}
        /\ UNCHANGED <<universe, i, j>>
    BY <1>6
  <2>2. WalkInList'
    BY <1>1, <1>2, <1>3, <2>1 DEF WalkInList
  <2>3. TypeOK'
    BY <1>2, <1>3, <1>4, <2>1 DEF IInv, TypeOK, LibTypeOK
  <2> QED BY <1>1, <2>2, <2>3 DEF IInv
<1> QED BY <1>5, <1>6

\* Enabling and disabling patching.
LEMMA SetPatchableIInv ==
  ASSUME IInv, SetPatchable
  PROVE  IInv'
<1> USE DEF SetPatchable, EnableOrDisable, listVars, queueVars, callVars,
            clientVars
<1>1. ListWellFormed' /\ Applied' = Applied
  BY ListUnchanged
<1>2. TypeOK' /\ WalkInList'
  BY <1>1 DEF IInv, TypeOK, LibTypeOK, WalkInList, RealError
<1> QED BY <1>1, <1>2 DEF IInv

\* What the client does after the call leaves the lists of libpulp alone.
LEMMA ClientStepIInv ==
  ASSUME IInv, ClientStep
  PROVE  IInv'
<1> USE DEF listVars, queueVars, callVars, clientVars, libVars, Report
<1>1. ListWellFormed' /\ Applied' = Applied
  BY ListUnchanged DEF ClientStep, CallReturned, Interpret, InterpretDone, Reset
<1>a. 0 \in 0..QueueMax /\ <<>> \in Seq(Insn)
  BY LibpulpAssumption
<1>b. insns \in Seq(Insn) /\ num_insns \in Nat /\ size \in 0..QueueMax
  BY DEF IInv, TypeOK, LibTypeOK
<1>2. CASE CallReturned
  <2>1. TypeOK' /\ WalkInList'
    BY <1>2 DEF CallReturned, IInv, TypeOK, LibTypeOK, WalkInList
  <2> QED BY <1>1, <2>1 DEF IInv
<1>3. CASE Interpret
  <2>1. /\ UNCHANGED <<error_state, patches, roots, detours, universe, pc, op,
                       arg, cur, nxt, i, j, ret, client>>
        /\ n' \in Nat \ {0}
        /\ client_pc' \in {"idle", "interp"}
    BY <1>3 DEF Interpret, InterpretFailed, IInv, TypeOK
  <2>2. insns' \in Seq(Insn) /\ num_insns' \in Nat /\ size' \in 0..QueueMax
    <3>1. UNCHANGED <<insns, num_insns, size>> \/ ClearQueue
      BY <1>3 DEF Interpret, InterpretFailed
    <3>2. CASE UNCHANGED <<insns, num_insns, size>>
      BY <1>b, <3>2, Zenon
    <3>3. CASE ClearQueue
      <4>1. insns' = <<>> /\ num_insns' = 0 /\ size' = 0
        BY <3>3 DEF ClearQueue
      <4>2. num_insns' \in Nat
        BY <4>1
      <4> QED BY <1>a, <4>1, <4>2, Zenon
    <3> QED BY <3>1, <3>2, <3>3
  <2>3. mem' \in [Loc -> Patch \cup {NoPatch, Torn}]
    <3>1. CASE UNCHANGED mem
      BY <3>1 DEF IInv, TypeOK
    <3>2. CASE n <= Len(insns)
      <4>1. insns[n] \in Insn
        BY <3>2 DEF IInv, TypeOK, LibTypeOK
      <4>2. insns[n].dest \in Loc /\ insns[n].val \in Patch \cup {NoPatch}
        BY <4>1 DEF Insn
      <4>3. \E v : /\ v \in {insns[n].val, mem[insns[n].dest], Torn}
                   /\ mem' = [mem EXCEPT ![insns[n].dest] = v]
        BY <1>3, <3>2 DEF Interpret, FailedWrite, IInv, TypeOK, LibTypeOK
      <4> QED BY <4>2, <4>3 DEF IInv, TypeOK
    <3> QED BY <1>3, <3>1, <3>2 DEF Interpret
  <2>4. TypeOK' /\ WalkInList'
    BY <1>1, <2>1, <2>2, <2>3 DEF IInv, TypeOK, LibTypeOK, WalkInList
  <2> QED BY <1>1, <2>4 DEF IInv
<1>4. CASE InterpretDone
  <2>1. TypeOK' /\ WalkInList'
    BY <1>1, <1>4 DEF InterpretDone, IInv, TypeOK, LibTypeOK, WalkInList
  <2> QED BY <1>1, <2>1 DEF IInv
<1>5. CASE Reset
  <2>1. /\ insns' \in {insns, <<>>} /\ num_insns' \in {num_insns, 0}
        /\ size' \in {size, 0}
        /\ client_pc' = "idle"
        /\ UNCHANGED <<error_state, listVars, pc, callVars, ret, mem, client, n>>
    BY <1>5 DEF Reset, ClearQueue
  <2>2. insns' \in Seq(Insn) /\ num_insns' \in Nat /\ size' \in 0..QueueMax
    <3>1. 0 \in Nat
      OBVIOUS
    <3> QED BY <1>a, <1>b, <2>1, <3>1, Zenon
  <2>3. TypeOK' /\ WalkInList'
    BY <1>1, <2>1, <2>2 DEF IInv, TypeOK, LibTypeOK, WalkInList
  <2> QED BY <1>1, <2>3 DEF IInv
<1> QED BY <1>2, <1>3, <1>4, <1>5 DEF ClientStep

\* Every step keeps the invariant.
LEMMA NextIInv == IInv /\ [Next]_vars => IInv'
<1> SUFFICES ASSUME IInv, [Next]_vars PROVE IInv'
  OBVIOUS
<1>1. CASE UlpTrigger
  BY <1>1, CallIInv DEF UlpTrigger
<1>2. CASE UlpRevertLib
  BY <1>2, CallIInv DEF UlpRevertLib
<1>3. CASE GdbCall
  BY <1>3, CallIInv DEF GdbCall
<1>4. CASE SetPatchable
  BY <1>4, SetPatchableIInv
<1>5. CASE RunCall
  BY <1>5, EntryIInv, LoadApplyIInv, ApplyUnitIInv, UnitsDoneIInv,
     ApplyRefIInv, ReturnIInv, LoadRevertIInv, RevertDetourIInv,
     RevertDoneIInv, RevertLibIInv DEF RunCall, LibStep
<1>6. CASE ClientStep
  BY <1>6, ClientStepIInv
<1>7. CASE UNCHANGED vars
  <2>1. ListWellFormed' /\ Applied' = Applied
    BY <1>7, ListUnchanged DEF vars, libVars, listVars
  <2>2. TypeOK' /\ WalkInList'
    BY <1>7, <2>1 DEF IInv, TypeOK, LibTypeOK, WalkInList, vars, libVars,
       listVars, queueVars, callVars, clientVars
  <2> QED BY <2>1, <2>2 DEF IInv
<1> QED BY <1>1, <1>2, <1>3, <1>4, <1>5, <1>6, <1>7 DEF Next

\* The inductive invariant holds: types, a well-formed list of applied patches
\* and the pointers of the revert loops into it.
THEOREM IInvInvariant == Spec => []IInv
<1>1. Init => IInv
  BY InitIInv
<1>2. IInv /\ [Next]_vars => IInv'
  BY NextIInv
<1> QED BY <1>1, <1>2, PTL DEF Spec

\* The variables of libpulp and of its client keep their types; in
\* particular the instruction queue never exceeds its buffer, whatever the
\* patches and however often they are applied and reverted.
THEOREM TypeCorrect == Spec => []TypeOK
<1>1. IInv => TypeOK
  BY DEF IInv
<1> QED BY <1>1, IInvInvariant, PTL

\* For every dependency relation, the list of applied patches has no
\* duplicates and holds every patch above the patches it depends on.
THEOREM ListCorrect == Spec => []ListWellFormed
<1>1. IInv => ListWellFormed
  BY DEF IInv
<1> QED BY <1>1, IInvInvariant, PTL

\* The pointers of a revert stay inside the list: ulp_state_remove always
\* finds its patch (ESTATE is never returned by a revert), and the walk of
\* revert_all_patches_from_lib never uses a freed patch.
THEOREM WalkCorrect == Spec => []WalkInList
<1>1. IInv => WalkInList
  BY DEF IInv
<1> QED BY <1>1, IInvInvariant, PTL

\* No step of libpulp takes a real error back.
LEMMA LibStepKeepsError ==
  ASSUME LibStep, error_state \in RealError
  PROVE  error_state' \in RealError
<1>1. ASSUME NEW x, NEW v, memwrite(x, v)
      PROVE  error_state' \in RealError
  BY <1>1 DEF memwrite, RealError
<1>2. CASE Entry
  BY <1>2 DEF Entry, RealError
<1>3. CASE ApplyUnit
  BY <1>1, <1>3 DEF ApplyUnit, Fail, RealError
<1>4. CASE UnitsDone
  BY <1>4 DEF UnitsDone, Fail, RealError
<1>5. CASE ApplyRef
  BY <1>1, <1>5 DEF ApplyRef, Fail, RealError
<1>6. CASE RevertDetour
  BY <1>1, <1>6 DEF RevertDetour
<1>7. CASE LoadApply \/ ApplyDone \/ LoadRevert \/ RevertDone \/ RevertLib
           \/ RevertLibDone
  BY <1>7 DEF LoadApply, ApplyDone, LoadRevert, RevertDone, RevertLib,
              RevertLibDone
<1> QED BY <1>2, <1>3, <1>4, <1>5, <1>6, <1>7 DEF LibStep

\* An error of libpulp, whichever path raised it, blocks every later call for
\* the rest of the life of the process.
THEOREM ErrorsStay == Spec => ErrorsBlock
<1> DEFINE Keeps == error_state \in RealError => error_state' \in RealError
           Blocks == error_state \in RealError /\ pc \in {"stopped", "entry"}
                       => UNCHANGED listVars
<1>1. [Next]_vars => [Keeps /\ Blocks]_vars
  <2> SUFFICES ASSUME Next PROVE Keeps /\ Blocks
    OBVIOUS
  <2>1. CASE \E c, o, a : Call(c, o, a)
    BY <2>1 DEF Call, listVars
  <2>2. CASE SetPatchable
    BY <2>2 DEF SetPatchable, EnableOrDisable, RealError, listVars
  <2>3. CASE RunCall
    <3>1. Keeps
      BY <2>3, LibStepKeepsError DEF RunCall
    <3>2. pc \in {"stopped", "entry"} => UNCHANGED listVars
      BY <2>3 DEF RunCall, LibStep, Entry, LoadApply, ApplyUnit, UnitsDone,
         ApplyRef, ApplyDone, LoadRevert, RevertDetour, RevertDone, RevertLib,
         RevertLibDone, listVars
    <3> QED BY <3>1, <3>2
  <2>4. CASE ClientStep
    BY <2>4 DEF ClientStep, CallReturned, Interpret, InterpretDone, Reset,
                libVars
  <2> QED BY <2>1, <2>2, <2>3, <2>4
             DEF Next, UlpTrigger, UlpRevertLib, GdbCall
<1> QED BY <1>1, PTL DEF Spec, ErrorsBlock

=============================================================================
