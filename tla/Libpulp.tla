------------------------------ MODULE Libpulp ------------------------------
(***************************************************************************)
(* libpulp.so inside one target process: the entry points the ulp tool     *)
(* redirects a stopped thread to (__ulp_apply_patch,                       *)
(* __ulp_revert_patches_from_lib, __ulp_enable_or_disable_patching), the   *)
(* list of applied patches, the detour lists of the patched functions, the *)
(* instruction queue that carries the memory writes to the tool, and the   *)
(* error state that blocks patching.                                       *)
(*                                                                         *)
(* A call runs on one thread while every other thread is stopped; it is    *)
(* cut into steps at its loops (one step per unit, per reference, per      *)
(* detour, per patch of a library), so that no definition is recursive.    *)
(* The identifiers are those of lib/ulp.c and lib/insn_queue.c.            *)
(***************************************************************************)
EXTENDS Integers, Sequences

CONSTANTS
  Fun,            \* functions of the loaded libraries
  Patch,          \* live patches (their 32-byte patch_id)
  Lib,            \* libraries loaded in the process
  BuildId,        \* build ids of libraries
  LibOf,          \* [Patch -> names]: target library of a patch
  Units,          \* [Patch -> Seq(Fun)]: functions it replaces, in order
  Deps,           \* [Patch -> SUBSET Patch]: ids of its dependency list
  Ref,            \* places in patches that hold addresses of static data
  Refs,           \* [Patch -> Seq(Ref)]: references of a patch, in order
  BuildIdOf,      \* [Lib -> BuildId]: build ids of the loaded libraries
  TargetBuildId,  \* [Patch -> BuildId]: build id the patch was made for
  Unpatchable,    \* functions without the nops at their entry
  NoPatch,        \* the NULL pointer; also: the function is not redirected
  QueueMax        \* INSN_BUFFER_MAX, in 8-byte words

ASSUME LibpulpAssumption ==
  /\ NoPatch \notin Patch
  /\ Units \in [Patch -> Seq(Fun)]
  /\ Deps \in [Patch -> SUBSET Patch]
  /\ Refs \in [Patch -> Seq(Ref)]
  /\ BuildIdOf \in [Lib -> BuildId]
  /\ TargetBuildId \in [Patch -> BuildId]
  /\ Unpatchable \subseteq Fun
  /\ QueueMax \in Nat

\* Functions are in libraries, references in the container of one patch.
ASSUME RefsOwned ==
  /\ Fun \cap Ref = {}
  /\ \A p, q \in Patch : \A k \in DOMAIN Refs[p], m \in DOMAIN Refs[q] :
        Refs[p][k] = Refs[q][m] => p = q

VARIABLES
  error_state,  \* __ulp_error_state
  patches,      \* __ulp_state.patches, newest first
  roots,        \* __ulp_root: the functions with a detour root, newest first
  detours,      \* root->detours of each function, newest first
  universe,     \* __ulp_global_universe
  insns,        \* __ulp_insn_queue.buffer, up to .size
  num_insns,    \* __ulp_insn_queue.num_insns
  size,         \* __ulp_insn_queue.size
  pc,           \* where the redirected thread is
  op, arg,      \* the call: which entry point, and the metadata buffer
  cur, nxt,     \* patch being worked on; revert_all's saved next pointer
  i, j,         \* loop cursors
  ret           \* value the call returns

listVars  == <<patches, roots, detours, universe>>
queueVars == <<insns, num_insns, size>>
callVars  == <<op, arg, cur, nxt, i, j>>
libVars   == <<error_state, listVars, queueVars, pc, callVars, ret>>

-----------------------------------------------------------------------------
(***************************************************************************)
(* Types.                                                                  *)
(***************************************************************************)

\* What a queued write can address: a function prologue, or the place in the
\* live patch container where a reference to a static variable is stored.
Loc == Fun \cup Ref

Insn   == [dest : Loc, val : Patch \cup {NoPatch}]
Detour == [patch : Patch, active : BOOLEAN]

\* Error states no operation leaves; "EINITFAIL" stands for all the codes the
\* constructors of lib/interpose.c set when libpulp cannot be initialised.
RealError == {"EINSNQ", "EUNKNOWN", "EINITFAIL"}

LibTypeOK ==
  /\ error_state \in {"ENONE", "EUSRBLOCKED"} \cup RealError
  /\ patches \in Seq(Patch)
  /\ roots \in Seq(Fun)
  /\ detours \in [Fun -> Seq(Detour)]
  /\ universe \in Nat
  /\ insns \in Seq(Insn)
  /\ num_insns \in Nat
  /\ size \in 0..QueueMax
  /\ pc \in {"stopped", "entry", "load", "unit", "ref", "lib", "revert",
             "done"}
  /\ op \in {"apply", "revert", "revert_lib"}
  /\ pc \in {"unit", "ref", "revert"} => cur \in Patch
  /\ pc = "lib" \/ (pc = "revert" /\ op = "revert_lib") =>
        /\ cur \in Patch \cup {NoPatch}
        /\ nxt \in Patch \cup {NoPatch}
  /\ pc = "load" => arg \in Patch
  /\ pc = "entry" /\ op # "revert_lib" => arg \in Patch
  /\ pc = "unit" => op = "apply" /\ i \in 1..(Len(Units[cur]) + 1)
  /\ pc = "ref" => op = "apply" /\ i \in 1..(Len(Refs[cur]) + 1)
  /\ pc = "revert" =>
        /\ i \in 1..(Len(roots) + 1)
        /\ j \in Nat \ {0}
        /\ i <= Len(roots) => j <= Len(detours[roots[i]]) + 1

-----------------------------------------------------------------------------
(***************************************************************************)
(* Helpers.                                                                *)
(***************************************************************************)

Applied == {patches[k] : k \in DOMAIN patches}

ulp_get_applied_patch(p) == p \in Applied

\* Position of patch p in the list.
Pos(p) == CHOOSE k \in DOMAIN patches : patches[k] = p

\* Mutant of NextOf: skips a patch.
NextOf_skipping(p) ==
  IF Pos(p) + 1 < Len(patches) THEN patches[Pos(p) + 2] ELSE NoPatch

\* patch->next
NextOf(p) == IF Pos(p) < Len(patches) THEN patches[Pos(p) + 1] ELSE NoPatch

\* The list without patch p.
ulp_state_remove(p) ==
  [k \in 1..(Len(patches) - 1) |->
     IF k < Pos(p) THEN patches[k] ELSE patches[k + 1]]

\* Detour k is the first active one of the list ds.
IsNewestActive(ds, k) ==
  /\ k \in DOMAIN ds
  /\ ds[k].active
  /\ \A m \in 1..(k - 1) : ~ds[m].active

\* Mutant of NewestActive: takes the active detour at the end of the list.
NewestActive_oldest(ds) ==
  IF \E k \in DOMAIN ds : ds[k].active
    THEN ds[CHOOSE k \in DOMAIN ds : ds[k].active /\
              \A m \in DOMAIN ds : m > k => ~ds[m].active].patch
    ELSE NoPatch

\* The version of a function its detour list selects: the newest active one.
NewestActive(ds) ==
  IF \E k \in DOMAIN ds : IsNewestActive(ds, k)
    THEN ds[CHOOSE k \in DOMAIN ds : IsNewestActive(ds, k)].patch
    ELSE NoPatch

\* Size in words of a write instruction: a 16-byte header plus the 16 bytes of
\* the prologue, the 2 bytes of the nop, or the 8 bytes of a pointer.
InsnWords(dest, val) == IF dest \in Fun /\ val # NoPatch THEN 4 ELSE 3

\* Queue a write for the tool. A write that does not fit is dropped: it sets
\* the error state and the callers do not look at the result.
memwrite(dest, val) ==
  LET words == InsnWords(dest, val) IN
  IF size + words > QueueMax
    THEN error_state' = "EINSNQ" /\ UNCHANGED queueVars
    ELSE /\ insns' = Append(insns, [dest |-> dest, val |-> val])
         /\ num_insns' = num_insns + 1
         /\ size' = size + words
         /\ UNCHANGED error_state

Return(code) == pc' = "done" /\ ret' = code

-----------------------------------------------------------------------------
(***************************************************************************)
(* Entry points.                                                           *)
(***************************************************************************)

\* The checks shared by __ulp_apply_patch and __ulp_revert_patches_from_lib.
\* Whether malloc or the dynamic loader was interrupted (the EAGAIN answer of
\* __ulp_asunsafe_trylock) is decided by the threads that were stopped.
Entry ==
  /\ pc = "entry"
  /\ \/ /\ error_state # "ENONE"
        /\ Return(error_state)
        /\ UNCHANGED <<error_state, callVars>>
     \/ /\ error_state = "ENONE"
        /\ num_insns > 0 \/ size > 0
        /\ error_state' = "EINSNQ"
        /\ Return("EINSNQ")
        /\ UNCHANGED callVars
     \/ /\ error_state = "ENONE"
        /\ num_insns = 0 /\ size = 0
        /\ UNCHANGED error_state
        /\ \/ Return("EAGAIN") /\ UNCHANGED callVars
           \/ /\ op # "revert_lib"
              /\ pc' = "load"
              /\ UNCHANGED <<ret, callVars>>
           \/ /\ op = "revert_lib"
              /\ pc' = "lib"
              /\ ret' = "ENOTARGETLIB"
              /\ cur' = IF patches = <<>> THEN NoPatch ELSE patches[1]
              /\ nxt' = NoPatch
              /\ UNCHANGED <<op, arg, i, j>>
  /\ UNCHANGED <<listVars, queueVars>>

\* Mutant of EnableOrDisable: enabling clears whatever error there is.
EnableOrDisable_clears ==
  /\ pc = "stopped"
  /\ error_state' = IF error_state = "ENONE" THEN "EUSRBLOCKED" ELSE "ENONE"
  /\ UNCHANGED <<listVars, queueVars, pc, callVars, ret>>

\* ulp_enable_or_disable_patching
EnableOrDisable ==
  /\ pc = "stopped"
  /\ error_state' = CASE error_state = "ENONE"       -> "EUSRBLOCKED"
                      [] error_state = "EUSRBLOCKED" -> "ENONE"
                      [] OTHER                       -> error_state
  /\ UNCHANGED <<listVars, queueVars, pc, callVars, ret>>

-----------------------------------------------------------------------------
(***************************************************************************)
(* Applying a patch.                                                       *)
(***************************************************************************)

\* compare_build_ids: dl_iterate_phdr stops at the first loaded library for
\* which memcmp returns non-zero.
check_build_id(p) == \E l \in Lib : BuildIdOf[l] # TargetBuildId[p]

check_patch_sanity(p) ==
  CASE ~check_build_id(p)            -> "EBUILDID"
    [] check_build_id(p) /\ ~(Deps[p] \subseteq Applied) -> "EDEPEND"
    [] check_build_id(p) /\ Deps[p] \subseteq Applied /\ p \in Applied
                                     -> "EAPPLIED"
    [] OTHER                         -> "ENONE"

\* load_patch, type 1, up to the unit loop: the metadata is checked, the
\* container is loaded, every symbol is resolved, and only then is the patch
\* pushed on the list of applied patches.
LoadApply ==
  /\ pc = "load" /\ op = "apply"
  /\ \/ /\ check_patch_sanity(arg) # "ENONE"
        /\ Return(check_patch_sanity(arg))
        /\ UNCHANGED <<listVars, callVars>>
     \/ /\ check_patch_sanity(arg) = "ENONE"
        /\ \E code \in {"EDLOPEN", "ESTATE"} : Return(code)
        /\ UNCHANGED <<listVars, callVars>>
     \/ /\ check_patch_sanity(arg) = "ENONE"
        /\ patches' = <<arg>> \o patches
        /\ universe' = universe + 1
        /\ pc' = "unit" /\ cur' = arg /\ i' = 1
        /\ UNCHANGED <<roots, detours, ret, op, arg, nxt, j>>
  /\ UNCHANGED <<error_state, queueVars>>

\* What load_patch does when ulp_apply_all_units fails: libpulp_exit does not
\* exit, it sets the error state. Nothing that was done is undone.
Fail(code) == error_state' = "EUNKNOWN" /\ Return(code)

\* Mutant of push_new_root: does not look for an existing root.
push_new_root_always(f) == <<f>> \o roots

\* The list of roots once function f has one (get_detour_root_by_address,
\* push_new_root).
push_new_root(f) ==
  IF \E k \in DOMAIN roots : roots[k] = f THEN roots ELSE <<f>> \o roots

\* Mutant of push_new_detour: appends at the end of the list.
push_new_detour_last(f, p) ==
  [detours EXCEPT ![f] = Append(@, [patch |-> p, active |-> TRUE])]

push_new_detour(f, p) ==
  [detours EXCEPT ![f] = <<[patch |-> p, active |-> TRUE]>> \o @]

\* One turn of the unit loop of ulp_apply_all_units.
ApplyUnit ==
  /\ pc = "unit" /\ i <= Len(Units[cur])
  /\ LET f == Units[cur][i] IN
     \/ \* calloc fails: for the root, or for the detour once the root is in
        /\ Fail("EUNKNOWN")
        /\ roots' \in {roots, push_new_root(f)}
        /\ UNCHANGED <<detours, queueVars, i>>
     \/ /\ f \in Unpatchable
        /\ Fail("ENOPATCHABLE")
        /\ roots' = push_new_root(f)
        /\ detours' = push_new_detour(f, cur)
        /\ UNCHANGED <<queueVars, i>>
     \/ /\ f \notin Unpatchable
        /\ roots' = push_new_root(f)
        /\ detours' = push_new_detour(f, cur)
        /\ memwrite(f, cur)
        /\ i' = i + 1
        /\ UNCHANGED <<pc, ret>>
  /\ UNCHANGED <<patches, universe, op, arg, cur, nxt, j>>

\* After the last unit the addresses the references need are looked up.
UnitsDone ==
  /\ pc = "unit" /\ i > Len(Units[cur])
  /\ \/ /\ \E code \in {"ENOADDRESS", "EUNKNOWN"} : Fail(code)
        /\ UNCHANGED i
     \/ /\ pc' = "ref" /\ i' = 1
        /\ UNCHANGED <<error_state, ret>>
  /\ UNCHANGED <<listVars, queueVars, op, arg, cur, nxt, j>>

\* One turn of the reference loop of ulp_apply_all_units.
ApplyRef ==
  /\ pc = "ref" /\ i <= Len(Refs[cur])
  /\ \/ Fail("ENONEWFUNC") /\ UNCHANGED <<queueVars, i>>
     \/ memwrite(Refs[cur][i], cur) /\ i' = i + 1 /\ UNCHANGED <<pc, ret>>
  /\ UNCHANGED <<listVars, op, arg, cur, nxt, j>>

\* Mutant of ApplyDone: the reference loop stops one too early.
ApplyDone_early ==
  /\ pc = "ref" /\ i >= Len(Refs[cur])
  /\ Return("ENONE")
  /\ UNCHANGED <<error_state, listVars, queueVars, callVars>>

ApplyDone ==
  /\ pc = "ref" /\ i > Len(Refs[cur])
  /\ Return("ENONE")
  /\ UNCHANGED <<error_state, listVars, queueVars, callVars>>

-----------------------------------------------------------------------------
(***************************************************************************)
(* Reverting patches.                                                      *)
(***************************************************************************)

\* Mutant of ulp_can_revert_patch: nobody looks at who depends on p.
ulp_can_revert_patch_nodeps(p) ==
  IF p \in Applied THEN "ENONE" ELSE "ENOTAPPLIED"

\* Mutant of ulp_can_revert_patch: looks at whom p depends on.
ulp_can_revert_patch_inverse(p) ==
  CASE p \notin Applied                                -> "ENOTAPPLIED"
    [] p \in Applied /\ \E q \in Applied : q \in Deps[p] -> "EDEPEND"
    [] OTHER                                           -> "ENONE"

ulp_can_revert_patch(p) ==
  CASE p \notin Applied                                -> "ENOTAPPLIED"
    [] p \in Applied /\ \E q \in Applied : p \in Deps[q] -> "EDEPEND"
    [] OTHER                                           -> "ENONE"

\* ulp_revert_patch up to the loops of ulp_revert_all_units.
StartRevert(p) ==
  /\ universe' = universe + 1
  /\ pc' = "revert" /\ cur' = p /\ i' = 1 /\ j' = 1

\* load_patch, type 2.
LoadRevert ==
  /\ pc = "load" /\ op = "revert"
  /\ \/ /\ ulp_can_revert_patch(arg) # "ENONE"
        /\ Return(ulp_can_revert_patch(arg))
        /\ UNCHANGED <<universe, cur, i, j>>
     \/ /\ ulp_can_revert_patch(arg) = "ENONE"
        /\ StartRevert(arg)
        /\ UNCHANGED ret
  /\ UNCHANGED <<error_state, patches, roots, detours, queueVars, op, arg, nxt>>

\* One turn of the loops of ulp_revert_all_units: detour j of root i. A detour
\* of the patch is deactivated, also one of an earlier application that
\* already is, and the prologue is made to select the newest active detour.
RevertDetour ==
  /\ pc = "revert" /\ i <= Len(roots)
  /\ LET f  == roots[i]
         ds == detours[f]
         off == [ds EXCEPT ![j].active = FALSE]
     IN \/ /\ j > Len(ds)
           /\ i' = i + 1 /\ j' = 1
           /\ UNCHANGED <<detours, queueVars, error_state>>
        \/ /\ j <= Len(ds) /\ ds[j].patch # cur
           /\ j' = j + 1
           /\ UNCHANGED <<i, detours, queueVars, error_state>>
        \/ /\ j <= Len(ds) /\ ds[j].patch = cur
           /\ detours' = [detours EXCEPT ![f] = off]
           /\ IF f \in Unpatchable THEN UNCHANGED <<queueVars, error_state>>
                                   ELSE memwrite(f, NewestActive(off))
           /\ j' = j + 1 /\ UNCHANGED i
  /\ UNCHANGED <<patches, roots, universe, pc, op, arg, cur, nxt, ret>>

\* End of ulp_revert_patch: the patch leaves the list; then load_patch returns,
\* or revert_all_patches_from_lib goes to the next patch.
RevertDone ==
  /\ pc = "revert" /\ i > Len(roots)
  /\ \/ /\ cur \notin Applied
        /\ Return("ESTATE")
        /\ UNCHANGED <<patches, cur>>
     \/ /\ cur \in Applied
        /\ patches' = ulp_state_remove(cur)
        /\ ret' = "ENONE"
        /\ IF op = "revert_lib" THEN pc' = "lib" /\ cur' = nxt
                                ELSE pc' = "done" /\ UNCHANGED cur
  /\ UNCHANGED <<error_state, roots, detours, universe, queueVars, op, arg,
                 nxt, i, j>>

\* One turn of the loop of revert_all_patches_from_lib; cur is its variable
\* `patch`. When the patch cannot be reverted the code does `continue` without
\* moving to the next one.
RevertLib ==
  /\ pc = "lib" /\ cur # NoPatch
  /\ nxt' = NextOf(cur)
  /\ \/ /\ LibOf[cur] # arg
        /\ cur' = NextOf(cur)
        /\ UNCHANGED <<universe, pc, i, j, ret>>
     \/ /\ LibOf[cur] = arg
        /\ ulp_can_revert_patch(cur) # "ENONE"
        /\ ret' = ulp_can_revert_patch(cur)
        /\ UNCHANGED <<universe, pc, cur, i, j>>
     \/ /\ LibOf[cur] = arg
        /\ ulp_can_revert_patch(cur) = "ENONE"
        /\ StartRevert(cur)
        /\ UNCHANGED ret
  /\ UNCHANGED <<error_state, patches, roots, detours, queueVars, op, arg>>

RevertLibDone ==
  /\ pc = "lib" /\ cur = NoPatch
  /\ Return(IF ret = "ENOTARGETLIB" /\ arg \in Lib THEN "ENOPATCH" ELSE ret)
  /\ UNCHANGED <<error_state, listVars, queueVars, callVars>>

-----------------------------------------------------------------------------

\* Error states left by the constructors: a function that libpulp interposes
\* is missing, or the locks of the loader were not found...
StartupErrors == {"EINITFAIL"}

\* ... or the path, the user or the group of the process is one the
\* environment variables LIBPULP_DISABLE_ON_* exclude.
DisabledByUser == {"EUSRBLOCKED"}

LibInit ==
  /\ error_state \in {"ENONE"} \cup StartupErrors \cup DisabledByUser
  /\ patches = <<>> /\ roots = <<>>
  /\ detours = [f \in Fun |-> <<>>]
  /\ universe = 0
  /\ insns = <<>> /\ num_insns = 0 /\ size = 0
  /\ pc = "stopped" /\ op = "apply" /\ arg = NoPatch
  /\ cur = NoPatch /\ nxt = NoPatch /\ i = 1 /\ j = 1
  /\ ret = "ENONE"

\* A step of the redirected thread.
LibStep ==
  \/ Entry
  \/ LoadApply \/ ApplyUnit \/ UnitsDone \/ ApplyRef \/ ApplyDone
  \/ LoadRevert \/ RevertDetour \/ RevertDone
  \/ RevertLib \/ RevertLibDone

=============================================================================
