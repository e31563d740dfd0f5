----------------------------- MODULE LivePatch -----------------------------
(***************************************************************************)
(* Live patching of one process: libpulp.so (module Libpulp) driven by a   *)
(* client, with the process memory that the queued writes change.          *)
(*                                                                         *)
(* A client is the ulp tool, which stops all threads, fills the metadata   *)
(* buffer, redirects the main thread, waits for the call to return and     *)
(* then interprets the instruction queue through ptrace; or gdb, which     *)
(* calls gdb_ulp_apply and gdb_ulp_revert, where libpulp interprets its    *)
(* own queue. The threads of the process run only while the client is      *)
(* idle, so the states with client_pc = "idle" are those they see.         *)
(***************************************************************************)
EXTENDS Libpulp

CONSTANTS
  Clients,      \* subset of {"ulp", "gdb"}
  WriteMayFail, \* whether writes to the memory of the process can fail
  Torn,         \* a prologue half of which was overwritten
  MaxUniverse   \* bound: no call starts once the universe is this large

ASSUME LivePatchAssumption ==
  /\ Clients \subseteq {"ulp", "gdb"}
  /\ WriteMayFail \in BOOLEAN
  /\ Torn \notin Patch \cup {NoPatch}
  /\ MaxUniverse \in Nat

VARIABLES
  mem,        \* what each location of the process holds
  client,     \* who made the current, or last, call
  client_pc,  \* "idle", "wait", "interp", "reset"
  n,          \* instructions interpreted, plus one
  result      \* what the client reports for the last call

clientVars == <<client, client_pc, n, result>>
vars == <<libVars, mem, clientVars>>

\* The loop cursors of lib/ulp.c stay within the lists they walk, also while the
\* lists change, and the instruction queue never exceeds its buffer.
TypeOK ==
  /\ LibTypeOK
  /\ mem \in [Loc -> Patch \cup {NoPatch, Torn}]
  /\ client \in {"ulp", "gdb"}
  /\ client_pc \in {"idle", "wait", "interp", "reset"}
  /\ n \in Nat \ {0}

Init ==
  /\ LibInit
  /\ mem = [x \in Loc |-> NoPatch]
  /\ client = "ulp" /\ client_pc = "idle"
  /\ n = 1
  /\ result = "ENONE"

-----------------------------------------------------------------------------
(***************************************************************************)
(* Making the call.                                                        *)
(***************************************************************************)

\* tools/introspection.c check_patch_sanity: the target library is loaded
\* with the build id of the patch.
SuitableFor(p) == LibOf[p] \in Lib /\ BuildIdOf[LibOf[p]] = TargetBuildId[p]

Call(c, o, a) ==
  /\ client_pc = "idle" /\ universe < MaxUniverse
  /\ client' = c /\ client_pc' = "wait"
  /\ pc' = "entry" /\ op' = o /\ arg' = a
  /\ UNCHANGED <<error_state, listVars, queueVars, cur, nxt, i, j, ret, mem,
                 n, result>>

\* ulp trigger [--revert] p.so, past check_patch_sanity.
UlpTrigger ==
  /\ "ulp" \in Clients
  /\ \E p \in Patch, o \in {"apply", "revert"} :
        SuitableFor(p) /\ Call("ulp", o, p)

\* ulp trigger --revert-all=LIB
UlpRevertLib ==
  /\ "ulp" \in Clients
  /\ \E l \in {LibOf[p] : p \in Patch} : Call("ulp", "revert_lib", l)

\* gdb_ulp_apply and gdb_ulp_revert do not check the build id themselves.
GdbCall ==
  /\ "gdb" \in Clients
  /\ \E p \in Patch, o \in {"apply", "revert"} : Call("gdb", o, p)

\* ulp set_patchable
SetPatchable ==
  /\ client_pc = "idle"
  /\ EnableOrDisable
  /\ UNCHANGED <<mem, clientVars>>

-----------------------------------------------------------------------------
(***************************************************************************)
(* The call returned: the client interprets the queue.                     *)
(***************************************************************************)

Report(code) == client_pc' = "idle" /\ result' = code

\* The tool interprets the queue also when the call failed, but not when the
\* returned error happens to equal what the return register held before (it
\* then concludes that the routine did not run), and not when the queue
\* cannot be read. gdb_ulp_apply returns at once when the call failed.
CallReturned ==
  /\ client_pc = "wait" /\ pc = "done"
  /\ pc' = "stopped"
  /\ \/ /\ client = "ulp" /\ op # "revert_lib"
        /\ ret \notin {"ENONE", "EAGAIN"}
        /\ Report("EHOOKNOTRUN") /\ UNCHANGED n
     \/ /\ client = "ulp" /\ WriteMayFail
        /\ Report("EINSNQ") /\ UNCHANGED n
     \/ /\ client = "gdb" /\ ret # "ENONE"
        /\ Report(ret) /\ UNCHANGED n
     \/ /\ client = "ulp" \/ ret = "ENONE"
        /\ client_pc' = "interp" /\ n' = 1
        /\ UNCHANGED result
  /\ UNCHANGED <<error_state, listVars, queueVars, callVars, ret, mem, client>>

ClearQueue == insns' = <<>> /\ num_insns' = 0 /\ size' = 0

\* A failed ptrace write of a prologue may have stored the first of its two
\* words: half of the new jump target if the function was redirected before.
\* libpulp's own write fails before or after the whole copy.
FailedWrite(x, v) ==
  {mem[x]} \cup
  (CASE client = "gdb" -> {v}
     [] client = "ulp" /\ x \in Fun /\ v # NoPatch
                       /\ mem[x] \notin {NoPatch, v} -> {Torn}
     [] OTHER -> {})

\* Mutant of InterpretFailed: the failure is not reported.
InterpretFailed_silent ==
  /\ Report(ret) /\ UNCHANGED n
  /\ IF client = "gdb" THEN ClearQueue ELSE UNCHANGED queueVars

\* insnq_interpret gave up. The tool leaves the queue as it is, which blocks
\* the next call; insnq_interpret_from_lib empties it all the same.
InterpretFailed ==
  /\ Report("EINSNQ") /\ UNCHANGED n
  /\ IF client = "gdb" THEN ClearQueue ELSE UNCHANGED queueVars

\* One turn of insnq_interpret. After a failed write the program counter is
\* off by the error code, so what follows is not decoded as the instructions
\* that were queued, and the final test pc = size reports the failure. The
\* same test fails when size was reset and num_insns was not.
Interpret ==
  /\ client_pc = "interp" /\ n <= num_insns
  /\ \/ /\ n > Len(insns)
        /\ InterpretFailed
        /\ UNCHANGED mem
     \/ /\ n <= Len(insns)
        /\ mem' = [mem EXCEPT ![insns[n].dest] = insns[n].val]
        /\ n' = n + 1
        /\ UNCHANGED <<queueVars, client_pc, result>>
     \/ /\ n <= Len(insns) /\ WriteMayFail
        /\ \E v \in FailedWrite(insns[n].dest, insns[n].val) :
              mem' = [mem EXCEPT ![insns[n].dest] = v]
        /\ InterpretFailed
  /\ UNCHANGED <<error_state, listVars, pc, callVars, ret, client>>

InterpretDone ==
  /\ client_pc = "interp" /\ n > num_insns
  /\ client_pc' = "reset"
  /\ UNCHANGED <<libVars, mem, client, n, result>>

\* insnq_update_remote writes size and then num_insns; either can fail.
Reset ==
  /\ client_pc = "reset"
  /\ \/ ClearQueue /\ Report(ret)
     \/ /\ WriteMayFail /\ client = "ulp"
        /\ UNCHANGED queueVars /\ Report("EINSNQ")
     \/ /\ WriteMayFail /\ client = "ulp"
        /\ insns' = <<>> /\ size' = 0 /\ UNCHANGED num_insns
        /\ Report("EINSNQ")
  /\ UNCHANGED <<error_state, listVars, pc, callVars, ret, mem, client, n>>

-----------------------------------------------------------------------------

RunCall == LibStep /\ UNCHANGED <<mem, clientVars>>

ClientStep == CallReturned \/ Interpret \/ InterpretDone \/ Reset

Next ==
  \/ UlpTrigger \/ UlpRevertLib \/ GdbCall \/ SetPatchable
  \/ RunCall \/ ClientStep

\* Once a call was made, the redirected thread and the waiting client both
\* run; whether another call is ever made is up to the users.
Fairness == WF_vars(RunCall) /\ WF_vars(ClientStep)

Spec == Init /\ [][Next]_vars /\ Fairness

-----------------------------------------------------------------------------
(***************************************************************************)
(* Properties.                                                             *)
(***************************************************************************)

Idle == client_pc = "idle"

QueueEmpty == num_insns = 0 /\ size = 0

\* Nothing went wrong so far, and the threads of the process are running.
Healthy == Idle /\ error_state \in {"ENONE", "EUSRBLOCKED"} /\ QueueEmpty

\* Patch p has a unit for function f.
Replaces(p, f) == \E u \in DOMAIN Units[p] : Units[p][u] = f

\* The version of f that should run: that of the newest applied patch.
Effective(f) ==
  LET on == {k \in DOMAIN patches : Replaces(patches[k], f)}
  IN IF on = {} THEN NoPatch
     ELSE patches[CHOOSE k \in on : \A m \in on : k <= m]

\* Whenever the threads run and no error blocks patching, every function is
\* redirected to the newest patch of the applied list that replaces it, or not
\* at all: the detour lists, the queued writes and what the client executed
\* agree with the list through any sequence of applies, reverts out of order,
\* retries and failed calls (README: a deactivated patch "causes the previous
\* version (or the baseline) to become active again").
CodeMatchesList ==
  Healthy => \A f \in Fun : mem[f] = Effective(f)

\* No function is redirected into a patch whose references to static data of
\* the library have not all been written (ulp_apply_all_units queues them
\* after the redirections).
ReferencesWritten ==
  Healthy => \A f \in Fun, p \in Patch : mem[f] = p =>
                \A k \in DOMAIN Refs[p] : mem[Refs[p][k]] = p

NoDuplicates(s) == \A k, m \in DOMAIN s : s[k] = s[m] => k = m

DepsBelow(s) ==
  \A k \in DOMAIN s : \A d \in Deps[s[k]] :
     \E m \in DOMAIN s : m > k /\ s[m] = d

\* The list of applied patches never holds a patch twice, and every patch is
\* above all the patches it depends on: reverting a patch somebody depends on
\* is refused, in whatever order patches come and go and calls fail.
ListWellFormed == NoDuplicates(patches) /\ DepsBelow(patches)

\* A patch that is being reverted is in the list, nobody in the list depends
\* on it, and the pointers with which revert_all_patches_from_lib walks the
\* list point into it; so ulp_state_remove finds its patch, and the walk never
\* follows a patch that was freed.
WalkInList ==
  /\ pc = "revert" => cur \in Applied /\ \A q \in Applied : cur \notin Deps[q]
  /\ pc = "revert" /\ op = "revert_lib" =>
        nxt \in (Applied \ {cur}) \cup {NoPatch}
  /\ pc = "lib" => op = "revert_lib" /\ cur \in Applied \cup {NoPatch}

\* Between calls the active detours of a function are exactly those of the
\* applied patches that replace it, in the order of the list and once for every
\* patch (that does not name the function twice), unless a call was abandoned in
\* the middle (error state EUNKNOWN).
DetoursMatchList ==
  pc = "stopped" /\ error_state # "EUNKNOWN" =>
    \A f \in Fun :
      LET ds  == detours[f]
          act == {k \in DOMAIN ds : ds[k].active}
          on  == {m \in DOMAIN patches : Replaces(patches[m], f)}
      IN /\ \A k \in act : \E m \in on : ds[k].patch = patches[m]
         /\ \A m \in on : \E k \in act : ds[k].patch = patches[m]
         /\ \A k, l \in act : \A m, o \in on :
               ds[k].patch = patches[m] /\ ds[l].patch = patches[o] /\ k < l =>
                  m < o \/ (m = o /\ ~NoDuplicates(Units[patches[m]]))

\* A function has one root at most, and has one if it has detours: otherwise
\* a later revert would miss some of its detours.
RootsCoverDetours ==
  /\ NoDuplicates(roots)
  /\ \A f \in Fun :
       detours[f] # <<>> => \E k \in DOMAIN roots : roots[k] = f

\* A patch is applied only if its target library is loaded with the build id it
\* was made for (compare_build_ids: "to check if there are some library that
\* matches the buildid"). The ulp tool sees to it before it makes the call; gdb
\* leaves it to libpulp.
BuildIdsMatch ==
  \A p \in Applied : LibOf[p] \in Lib /\ BuildIdOf[LibOf[p]] = TargetBuildId[p]

\* A real error is for ever, and from then on no call touches the applied
\* patches or the detours: ulp_enable_or_disable_patching does not lift it and
\* the entry points refuse to work.
ErrorsBlock ==
  [][/\ error_state \in RealError => error_state' \in RealError
     /\ error_state \in RealError /\ pc \in {"stopped", "entry"}
          => UNCHANGED listVars]_vars

\* A revert-all of a library that reports success leaves no patch of the
\* library applied and none of its functions redirected
\* (revert_all_patches_from_lib: "will revert every patch so that all
\* functions are reverted into their original state"), unless the instruction
\* queue overflowed (error state EINSNQ): ulp_revert_all_units does not look at
\* the result of memwrite, the call returns 0 and functions stay redirected.
RevertAllReverts ==
  Idle /\ op = "revert_lib" /\ result = "ENONE" /\ error_state # "EINSNQ" =>
     \A p \in Patch : LibOf[p] = arg =>
        /\ p \notin Applied
        /\ \A f \in Fun : mem[f] # p

\* A call that was made comes back to the client (revert_all_patches_from_lib:
\* "@return 0 on success, anything else on failure").
CallsReturn == (client_pc = "wait") ~> Idle

\* When applying a patch reports success, the functions of the patch are
\* redirected to it (load_patch: "@return 0 if success, anything else if
\* error"), unless the instruction queue overflowed: ulp_apply_all_units does
\* not look at the result of memwrite, only the error state tells.
SuccessIsEffective ==
  Idle /\ op = "apply" /\ result = "ENONE" /\ error_state # "EINSNQ" /\ arg \in Applied
    => \A u \in DOMAIN Units[arg] : mem[Units[arg][u]] = arg

=============================================================================
