------------------------------ MODULE UlpStack ------------------------------
(***************************************************************************)
(* The PowerPC backend: how a thread enters and leaves a function that is  *)
(* live patched. The branch at the entry leads to the prologue in front of *)
(* the function, the prologue to trampoline_routine, which saves the TOC   *)
(* and the link register of the caller on the ulp_stack of the thread,     *)
(* calls the new function, and returns through what it saved. The stack    *)
(* is a mapping that ulp_stack_helper enlarges.                            *)
(*                                                                         *)
(* A signal handler, or the routine to which the ulp tool redirects the    *)
(* thread, may call patched functions itself; it does so in the middle of  *)
(* the trampoline. Interruptible is the set of places where this happens.  *)
(*                                                                         *)
(* Sizes are in entries of 16 bytes, a TOC and a link register.            *)
(***************************************************************************)
EXTENDS Naturals, Sequences

CONSTANTS
  Site,          \* what a caller has in TOC and link register
  Version,       \* the functions that replace the patched one
  Addr,          \* addresses of mappings
  NULL,
  Page,          \* sysconf(_SC_PAGESIZE), in entries
  Interruptible, \* where a call of a patched function can begin
  MaxDepth,      \* bound of the calls in progress
  MaxExits       \* bound of the threads that exit

\* The places of the trampoline, in the order of the code.
Place ==
  {"prologue", "check", "expand", "map", "copy", "set", "claim", "ptr",
   "store", "body", "reload", "fetch"}

ASSUME UlpStackAssumption ==
  /\ Page \in Nat \ {0} /\ MaxDepth \in Nat /\ MaxExits \in Nat
  /\ NULL \notin Addr /\ NULL \notin Site /\ NULL \notin Version
  /\ Interruptible \subseteq Place /\ "body" \in Interruptible

VARIABLES
  entry,    \* instruction at the entry: "nop", "branch", "other"
  target,   \* ulp_prologue_new_function_addr in the prologue
  queue,    \* writes queued by ulp_patch_addr; all threads are stopped
  blocked,  \* a write failed: libpulp takes no more calls
  real,     \* ulp_stack[ULP_STACK_REAL_SIZE]
  used,     \* ulp_stack[ULP_STACK_USED_SIZE]
  ptr,      \* ulp_stack[ULP_STACK_PTR]
  mem,      \* the entries of every mapping; none where nothing is mapped
  act,      \* calls of the patched function in progress, innermost last
  status,   \* "running", "aborted" or "lost" (jumped or wrote elsewhere)
  exits     \* history: number of threads that have exited

codeVars  == <<entry, target, queue, blocked>>
stackVars == <<real, used, ptr>>
vars      == <<codeVars, stackVars, mem, act, status, exits>>

Address == Addr \cup {NULL}
Entry   == Site \cup {NULL}

\* A call in progress: the registers of trampoline_routine and the locals of
\* ulp_stack_helper, cleared when they are dead. `base`, the used size when the call began, is history.
Activation ==
  [pc : Place, site : Site, ctr : Version \cup {NULL}, r5 : Address, r6 : Nat,
   old : Address, old_size : Nat, new : Address, base : Nat]

Write == [at : {"prologue"}, v : Version] \cup [at : {"entry"}, v : {"nop", "branch"}]

TypeOK ==
  /\ entry \in {"nop", "branch", "other"} /\ target \in Version \cup {NULL}
  /\ queue \in Seq(Write) /\ blocked \in BOOLEAN
  /\ real \in Nat /\ used \in Nat /\ ptr \in Address
  /\ mem \in [Address -> Seq(Entry)]
  /\ act \in Seq(Activation)
  /\ status \in {"running", "aborted", "lost"}
  /\ exits \in 0..MaxExits

\* A new thread has a zeroed ulp_stack.
Init ==
  /\ entry \in {"nop", "other"} /\ target = NULL /\ queue = <<>> /\ blocked = FALSE
  /\ real = 0 /\ used = 0 /\ ptr = NULL
  /\ mem = [a \in Address |-> <<>>]
  /\ act = <<>> /\ status = "running"
  /\ exits = 0

-----------------------------------------------------------------------------
(***************************************************************************)
(* lib/arch/powerpc64le/patch.c: redirecting the function.                 *)
(***************************************************************************)

\* Whether the entry has a nop, or the branch of a patched function.
get_branch_offset == entry \in {"nop", "branch"}

ulp_patch_prologue_layout(v) == <<[at |-> "prologue", v |-> v]>>

ulp_patch_addr_trampoline ==
  IF get_branch_offset THEN <<[at |-> "entry", v |-> "branch"]>> ELSE <<>>

ulp_skip_prologue ==
  IF get_branch_offset THEN <<[at |-> "entry", v |-> "nop"]>> ELSE <<>>

Quiet == status = "running" /\ queue = <<>>

\* Mutant of ulp_patch_addr: the branch is written before the prologue.
ulp_patch_addr_early(v) ==
  /\ Quiet /\ ~blocked
  /\ \/ queue' = ulp_patch_addr_trampoline \o ulp_patch_prologue_layout(v)
     \/ queue' = ulp_skip_prologue
  /\ UNCHANGED <<entry, target, blocked, stackVars, mem, act, status, exits>>

\* The prologue is queued before the entry is looked at, so that it is written
\* in front of a function that is not patchable, too.
ulp_patch_addr(v) ==
  /\ Quiet /\ ~blocked
  /\ \/ queue' = ulp_patch_prologue_layout(v) \o ulp_patch_addr_trampoline
     \/ queue' = ulp_skip_prologue
  /\ UNCHANGED <<entry, target, blocked, stackVars, mem, act, status, exits>>

\* The ulp tool executes the queue, one write after the other; when one fails
\* the rest is not executed and blocks later calls. (It stays in the queue, see
\* LivePatch; a later call that executes it again begins with the prologue.)
ExecuteWrite ==
  /\ queue # <<>>
  /\ \/ /\ queue' = Tail(queue)
        /\ IF Head(queue).at = "prologue"
             THEN target' = Head(queue).v /\ UNCHANGED entry
             ELSE entry' = Head(queue).v /\ UNCHANGED target
        /\ UNCHANGED blocked
     \/ /\ queue' = <<>> /\ blocked' = TRUE
        /\ UNCHANGED <<entry, target>>
  /\ UNCHANGED <<stackVars, mem, act, status, exits>>

-----------------------------------------------------------------------------
(***************************************************************************)
(* lib/arch/powerpc64le/ulp_prologue.S: the trampoline.                    *)
(***************************************************************************)

Depth == Len(act)
Top   == act[Depth]

\* The innermost call is at a place and goes on from there, with other
\* registers changed by `regs`.
At(pc) == Quiet /\ act # <<>> /\ Top.pc = pc
Goto(a) == act' = [act EXCEPT ![Depth] = a]

\* A caller reaches the entry: the thread itself, the body of a patched
\* function, or what interrupts the thread.
Call(s) ==
  /\ Quiet /\ entry = "branch" /\ Depth < MaxDepth
  /\ act # <<>> => Top.pc \in Interruptible
  /\ act' = Append(act, [pc |-> "prologue", site |-> s, ctr |-> NULL,
                         r5 |-> NULL, r6 |-> 0, old |-> NULL, old_size |-> 0,
                         new |-> NULL, base |-> used])
  /\ UNCHANGED <<codeVars, stackVars, mem, status, exits>>

\* The address of the new function is read from the prologue.
LoadTarget ==
  /\ At("prologue")
  /\ Goto([Top EXCEPT !.pc = "check", !.ctr = target])
  /\ UNCHANGED <<codeVars, stackVars, mem, status, exits>>

\* Mutant of CheckSpace: grows one entry too late.
CheckSpace_late ==
  /\ At("check")
  /\ Goto([Top EXCEPT !.pc = IF real < used THEN "expand" ELSE "claim"])
  /\ UNCHANGED <<codeVars, stackVars, mem, status, exits>>

CheckSpace ==
  /\ At("check")
  /\ Goto([Top EXCEPT !.pc = IF real <= used THEN "expand" ELSE "claim"])
  /\ UNCHANGED <<codeVars, stackVars, mem, status, exits>>

\* used_size is loaded, increased and stored. (What interrupts the three
\* instructions leaves used_size as it found it.)
Claim ==
  /\ At("claim")
  /\ used' = used + 1
  /\ Goto([Top EXCEPT !.pc = "ptr", !.r6 = used + 1])
  /\ UNCHANGED <<codeVars, real, ptr, mem, status, exits>>

LoadPtr(from, to) ==
  /\ At(from)
  /\ Goto([Top EXCEPT !.pc = to, !.r5 = ptr])
  /\ UNCHANGED <<codeVars, stackVars, mem, status, exits>>

\* TOC and link register are stored below r5 + r6, and the target is called.
Store ==
  /\ At("store")
  /\ IF Top.r6 \in DOMAIN mem[Top.r5]
       THEN /\ mem' = [mem EXCEPT ![Top.r5][Top.r6] = Top.site]
            /\ Goto([Top EXCEPT !.pc = "body", !.r5 = NULL, !.r6 = 0])
            /\ UNCHANGED status
       ELSE status' = "lost" /\ UNCHANGED <<mem, act>>
  /\ UNCHANGED <<codeVars, stackVars, exits>>

\* The target has returned: the entry is given up before it is read.
Pop ==
  /\ At("body")
  /\ used' = used - 1
  /\ Goto([Top EXCEPT !.pc = "reload", !.r6 = used])
  /\ UNCHANGED <<codeVars, real, ptr, mem, status, exits>>

\* TOC and link register are read; the thread returns to where they say.
Fetch ==
  /\ At("fetch")
  /\ IF Top.r6 \in DOMAIN mem[Top.r5] /\ mem[Top.r5][Top.r6] = Top.site
       THEN act' = SubSeq(act, 1, Depth - 1) /\ UNCHANGED status
       ELSE status' = "lost" /\ UNCHANGED act
  /\ UNCHANGED <<codeVars, stackVars, mem, exits>>

-----------------------------------------------------------------------------
(***************************************************************************)
(* ulp_stack_helper of lib/arch/powerpc64le/patch.c.                       *)
(***************************************************************************)

\* The new size is stored before there is a mapping of that size.
HelperSize ==
  /\ At("expand")
  /\ real' = (real + Page) * 2
  /\ Goto([Top EXCEPT !.pc = "map", !.old_size = real])
  /\ UNCHANGED <<codeVars, used, ptr, mem, status, exits>>

\* mmap, at an address that is not in use; when it fails the process aborts.
HelperMap ==
  /\ At("map")
  /\ \/ \E a \in Addr :
          /\ mem[a] = <<>>
          /\ mem' = [mem EXCEPT ![a] = [k \in 1..real |-> NULL]]
          /\ Goto([Top EXCEPT !.pc = "copy", !.old = ptr, !.new = a])
          /\ UNCHANGED status
     \/ status' = "aborted" /\ UNCHANGED <<mem, act>>
  /\ UNCHANGED <<codeVars, stackVars, exits>>

\* The entries of the old mapping, as the first ones of the new one.
Copied(a) ==
  [k \in DOMAIN mem[a.new] |->
     IF k <= a.old_size /\ k \in DOMAIN mem[a.old] THEN mem[a.old][k] ELSE NULL]

\* Mutant of HelperCopy: the old mapping is unmapped before it is copied.
HelperCopy_late ==
  /\ At("copy")
  /\ mem' = [mem EXCEPT ![Top.old] = <<>>]
  /\ Goto([Top EXCEPT !.pc = "set"])
  /\ UNCHANGED <<codeVars, stackVars, status, exits>>

\* Copy the old mapping, if there is one, and unmap it.
HelperCopy ==
  /\ At("copy")
  /\ mem' = IF Top.old # NULL
              THEN [mem EXCEPT ![Top.new] = Copied(Top), ![Top.old] = <<>>]
              ELSE mem
  /\ Goto([Top EXCEPT !.pc = "set"])
  /\ UNCHANGED <<codeVars, stackVars, status, exits>>

\* (pthread_once then creates the key of the destructor. Nobody gives the key
\* a value.)
HelperSet ==
  /\ At("set")
  /\ ptr' = Top.new
  /\ Goto([Top EXCEPT !.pc = "claim", !.old = NULL, !.old_size = 0, !.new = NULL])
  /\ UNCHANGED <<codeVars, real, used, mem, status, exits>>

\* The value of ulp_key in any thread: pthread_setspecific is never called.
KeyValue == NULL

\* ulp_stack_cleanup, which a thread runs when its key has a value.
ulp_stack_cleanup == IF ptr # NULL THEN [mem EXCEPT ![ptr] = <<>>] ELSE mem

\* A thread exits, or is cancelled, wherever it is; another one begins.
ThreadExit ==
  /\ Quiet /\ exits < MaxExits
  /\ mem' = IF KeyValue # NULL THEN ulp_stack_cleanup ELSE mem
  /\ real' = 0 /\ used' = 0 /\ ptr' = NULL
  /\ act' = <<>> /\ exits' = exits + 1
  /\ UNCHANGED <<codeVars, status>>

-----------------------------------------------------------------------------

Patching == (\E v \in Version : ulp_patch_addr(v)) \/ ExecuteWrite

Trampoline ==
  \/ LoadTarget \/ CheckSpace \/ Claim \/ LoadPtr("ptr", "store") \/ Store
  \/ Pop \/ LoadPtr("reload", "fetch") \/ Fetch

Helper == HelperSize \/ HelperMap \/ HelperCopy \/ HelperSet

Next ==
  Patching \/ (\E s \in Site : Call(s)) \/ Trampoline \/ Helper \/ ThreadExit

Spec == Init /\ [][Next]_vars

-----------------------------------------------------------------------------
(***************************************************************************)
(* Properties.                                                             *)
(***************************************************************************)

\* Where a call of a patched function may interrupt the trampoline without
\* harm. Elsewhere the mapping is not the one real_size and used_size speak of
\* ("map" to "set"), its address is in a register ("store", "fetch"), or the
\* entry has been given up and is still needed ("reload", "fetch").
SafePlace == {"prologue", "check", "claim", "ptr", "body"}

\* The calls whose entry is counted, and those whose entry is written.
Claimed(a) == a.pc \in {"ptr", "store", "body"}
Saved(a)   == a.pc \in {"body", "reload", "fetch"}

\* The mapping with the entries, also while it is replaced.
Current == IF act # <<>> /\ Top.pc = "set" THEN Top.new ELSE ptr

\* Every call in progress has an entry of its own, and that entry holds what
\* its caller left in TOC and link register, however deep the calls are, what
\* interrupted them, and how often the stack was moved.
CallersSaved ==
  \A i \in DOMAIN act : Saved(act[i]) =>
     /\ act[i].base + 1 \in DOMAIN mem[Current]
     /\ mem[Current][act[i].base + 1] = act[i].site

\* No thread returns to a wrong caller or uses memory that is not mapped
\* (trampoline_routine).
NeverLost == status # "lost"

\* The first assertion of ulp_stack_helper: it is called when the stack is full
\* ("Comparison should have been done in trampoline_routine (this function
\* caller), so just assert it here").
CalledWhenFull == act # <<>> /\ Top.pc = "expand" => real <= used

\* A thread that takes the branch finds an address in the prologue, although
\* the two are written one after the other and either write may fail.
TargetKnown ==
  /\ entry = "branch" => target # NULL
  /\ \A i \in DOMAIN act : act[i].pc # "prologue" => act[i].ctr # NULL

=============================================================================
