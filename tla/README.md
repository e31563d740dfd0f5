# A TLA+ model of libpulp

libpulp replaces functions of shared libraries in running processes. This
directory models the parts of it that are hard to test: what `libpulp.so` does
inside a process, how the `ulp` tool stops a process and makes it call libpulp,
how it finds the processes and learns what they have loaded, how a patched
function is entered and left on PowerPC, the message buffer, and the metadata
that travels from `ulp packer` through the tool to the library. TLC checks the
models on small instances; TLAPS proves their safety properties for every
instance.

Sections: 1 the system, 2 the modules, 3 the properties and runs, 4 fairness,
5 the proofs, 6 what the code does that its documentation does not say,
7 what is not modelled, 8 plan.

## 1. The system

### Components

| Component | Code | State it keeps | Operations |
|---|---|---|---|
| Patching | `lib/ulp.c`, `lib/arch/x86_64/patch.c` | list of applied patches, detour roots and detours per function, universe counter | `__ulp_apply_patch`, `__ulp_revert_patches_from_lib`, `load_patch`, `ulp_apply_all_units`, `ulp_revert_all_units` |
| Instruction queue | `lib/insn_queue.c`, `tools/insn_queue.c`, `common/insn_queue.c` | buffer, number and size of the queued writes | queue a write; interpret in the tool (ptrace) or in the library (gdb); reset |
| Error state | `lib/error.c`, `tools/set_patchable.c` | `__ulp_error_state` | set on errors; enable/disable by the user |
| Interposition | `lib/interpose.c` | counter `flag`, locks of the loader | wrappers of malloc and dl\* functions, `__ulp_asunsafe_trylock/unlock` |
| Hijacking | `tools/introspection.c`, `tools/ptrace.c`, `tools/trigger.c` | list of threads with saved contexts, retries | `hijack_threads`, `run_and_redirect`, `restore_threads`, retry loop of `trigger_one_process` |
| gdb interface | `lib/gdb_interface.c` | none | `gdb_ulp_apply`, `gdb_ulp_revert` |
| Process list and batch trigger | `tools/patches.c`, `tools/patches.h`, `tools/pcqueue.c`, `tools/trigger.c` | iterator, ring buffer with two semaphores, generator thread; results per process, counters, exit status | `FOR_EACH_ULP_PROCESS`, `trigger_many_processes`, `trigger_many_ulps`, `print_patched_unpatched` |
| Gathering | `tools/introspection.c`, `tools/patches.c`, `tools/trigger.c` | list of objects of a process with load address, build id and symbols; which of them is libpulp | `initialize_data_structures`, `parse_libs_dynobj`, `check_patch_sanity`, `is_library_livepatchable`, `print_process` |
| PowerPC backend | `lib/arch/powerpc64le/` | branch at the entry and prologue in front of a function; per thread a stack of saved registers (real size, used size, address) | `ulp_patch_addr`, `trampoline_routine`, `ulp_stack_helper` |
| Message queue | `lib/msg_queue.c`, `tools/messages.c` | circular buffer of strings | push (making room), print |
| Metadata and packer | `tools/packer.c`, `tools/elf-extra.c`, `common/common.c` | sections of the container; struct `ulp_metadata` | parse a description, write and embed metadata, extract, parse |
| Post-processing, dump, extract, check, command line, symbol tables | `tools/post.c`, `tools/dump.c`, ... | none across calls | not modelled (section 7) |

### How they interact

A user packs a description into a container (`ulp packer`) and triggers it
(`ulp trigger`). The tool lists the processes, with a thread that gathers their
data while the main thread patches those already found. It gathers what a
process has loaded by stopping its main thread and following the list of the
dynamic loader, which other threads change meanwhile; several live patches and
several processes add up to one report and one exit status. For one process it
reads the metadata, attaches to all threads with ptrace, writes the metadata to
a buffer in libpulp, and redirects the main thread to one of libpulp's entry
points, which ends in an `int3`. libpulp refuses when a thread may be inside
malloc or the dynamic loader (`EAGAIN`, the tool tries again); otherwise it
parses the metadata again, updates its lists and *queues* the memory writes. The
tool reads the queue, executes it through ptrace, resets it, and restores the
threads. gdb can call the same routines with the other threads running; libpulp
then executes its queue itself. On PowerPC what is written is a branch to a
trampoline, which keeps the registers of the caller on a stack of its own.

### What is hard

* threads are created and exit while the tool attaches to them one by one;
* a thread may be stopped inside malloc, or hold, or wait for, the loader lock;
* a call may fail anywhere: after some functions were queued, in the middle of a
  write, between the two writes that reset the queue;
* patches are reverted out of order, applied again, depend on one another;
* timeouts and signals end the wait for a call that is still going on;
* libraries are opened and closed while the list of them is read: nodes are
  freed, and used again behind the reader;
* a process is found before the constructor of its libpulp has run;
* a signal handler calls a patched function while the thread is in the middle of
  entering or leaving another;
* one live patch of many fails in one process of many, and somebody has to say so;
* a ring buffer without a lock, whose size limits both sides;
* a file that is cut short and is parsed by code that checks some reads only for
  one byte, into a variable that is used again for the next patch.

`PROJECT.json` lists these hazards with their lines and properties.

## 2. The modules

| Module | Models | State ↔ code |
|---|---|---|
| `Libpulp` | libpulp inside one process | `patches` is `__ulp_state.patches`, `roots`/`detours` the lists under `__ulp_root`, `insns`, `num_insns`, `size` the queue, `pc`, `cur`, `nxt`, `i`, `j` the redirected thread in the loops of `load_patch`, `ulp_apply_all_units`, `ulp_revert_all_units`, `revert_all_patches_from_lib` |
| `LivePatch` (extends `Libpulp`) | the client (tool or gdb) and the memory of the process | `mem` is what each function entry and each reference holds; `client_pc` the call, the interpreter and the reset |
| `Hijack` | stopping, redirecting, releasing; the threads | `traced`, `stopped`, `threads`, `entries` of `/proc/PID/task`; `frames` what each thread is inside of, `flag` and `dl_lock`; `lib` the main thread inside libpulp; `saved` its saved context |
| `BoundedQueue` | abstract: a bounded FIFO channel | `queue` |
| `PcQueue` | `tools/pcqueue.c` | ring, semaphores, both threads between their semaphore calls; implements `BoundedQueue` with `queue <- Contents` |
| `ProcessList` (extends `PcQueue`) | iterator, generator thread, loop over processes and live patches | three modes: with the thread, without, one pid; `results` of the process, `failures` and `result` of `trigger_many_processes` |
| `Gather` | the tool reading a process, and the loader in that process | `node`, `next`, `mapped` are the link map and the address space; `cur` and `held` the tool's place in the list; `targets` and `pulp` are `dynobj_targets` and `dynobj_libpulp` |
| `UlpStack` | the PowerPC backend | `entry` and `target` the code, `queue` its writes; `real`, `used`, `ptr` the words of `ulp_stack`, `mem` the mappings; `act` the calls in progress, each at a place of `trampoline_routine` or `ulp_stack_helper` with its registers |
| `MsgQueue` | the message buffer | bytes of the buffer; a push is cut into the turns of its eviction loop |
| `Metadata` | format and parser shared by tool and library | bytes, cursor, the static and local variables of the parser |
| `Packer` (extends `Metadata`) | packer, extraction, both parsers | sections of the container, temporary file, global `ulp`, `buffer` of libpulp |
| `MCLivePatch`, `MCHijack`, `MCProcessList`, `MCPacker`, `MCGather`, `MCUlpStack` | instances for TLC | |
| `LivePatchProofs`, `CodeProofs`, `HijackProofs`, `ProcessListProofs` (also about `PcQueue`), `GatherProofs`, `UlpStackProofs`, `MsgQueueProofs`, `PackerProofs` | theorems | |

Functions are translated with their names; `PROJECT.json` maps every definition
to its lines. An action is one turn of a loop of the code or the code between
two points where another actor can run. Definitions marked "Mutant of" are
plausible bugs in the definition that follows; they belong to no specification
and show that each property can fail.

What the models abstract:

* functions, patches, libraries, build ids and references are elements of sets;
  resolving a symbol either succeeds or fails with the code's error;
* the prologue written to a function is the name of the patch it jumps to; the
  special value `Torn` is a prologue of which one of two ptrace words was written;
* sizes in the instruction queue are those of the code in 8-byte words;
* `Hijack` does not look into the call: it is a step that blocks when malloc or
  the loader is in use and returns some code. `Libpulp`, in turn, does not know
  threads: it returns `EAGAIN` nondeterministically. The two are joined by
  `AllStopped`: while a call runs on behalf of the tool no other thread does;
* `/proc/PID/task` is read as it was when a pass began; a thread created
  meanwhile may or may not be returned, one that exited may still be;
* a byte of the metadata has `Base` values and numbers have `NumLen` bytes (256
  and 4 in the code). In the instance names are shorter than `Base`, as with names
  under 256 bytes; the theorems need this of the library's name only;
* the patch id is an injective function of the description (the code uses the
  container's build id and a digest);
* the tool runs when the packer does not: one container, one user;
* `ProcessList` counts the results of a process up to 2, which is all that the
  report distinguishes; which live patches lie in which folder is chosen anew
  for every process; the slots of the ring begin with one garbage value (the
  theorem `RingIsChannel` has any);
* in `Gather` an object stands for its file name, its build id and its symbols.
  A freed node is read as junk with the old `l_next`, or not at all; a freed
  node that is used again is read as the new one. `MaxChanges` bounds the
  `dlopen` and `dlclose` calls that fall into one gathering;
* `UlpStack` measures sizes in entries of 16 bytes, one TOC and one link
  register, and has one patched function with any number of versions; a call
  that comes from a signal handler is one that begins while the innermost call
  is at a place in `Interruptible`.

## 3. Properties and runs

Times are for two to four workers; states are distinct states.

| Run | Instance | States |
|---|---|---|
| `Patching` | 4 patches, 3 functions, 2 libraries; three patches on one function; queue of 11 words; writes may fail; 4 applies/reverts | 659,897 |
| `Dependencies` | 3 patches, p2 depends on p1; tool and gdb; an unpatchable function; queue of 11 words | 284,337 |
| `Hijacking` | 3 threads, 2 calls in progress, 2 attempts, revert, apply or both | 1,813,766 |
| `Unreliable` | 2 threads, 1 call in progress, 2 attempts, timeouts, signals, gdb | 648,986 |
| `Iteration` | 3 processes, ring of 2, 2 live patches in 2 folders, all modes and filters, failing insertions and patches | 401,922 |
| `Messages` | buffer of 8, seven sizes from 1 to 9, 8 among them | 234,688 |
| `Packing` | descriptions of up to 4 lines of 14 kinds, new or packed container, one file cut short at any byte, calls refused, reverts before | 2,401,618 |
| `Trampoline` | 3 calls deep, pages of one entry, 3 addresses, 1 thread that exits, failing writes | 4,172,830 |
| `Gathering` | 3 nodes, 3 load addresses, 4 objects, 3 changes, failing attaches and reads | 2,807,144 |

**Patching.** `CodeMatchesList`: whenever threads run and no error blocks
patching, every function is redirected to the newest applied patch that replaces
it. `ReferencesWritten`: and the references of that patch have been written.
`DetoursMatchList`: the active detours of a function are those of the applied
patches that replace it, in the order of the list, one each (a patch that names
a function twice has two). `RootsCoverDetours`: a function with detours has one
root. `RevertAllReverts`: a revert-all that reports success leaves nothing of the
library, unless the queue overflowed (section 6). `ErrorsBlock` (an action
property): a real error is never lifted and no later call changes the lists. The
bounds are enough for a function with three detours, of which any may be reverted
and applied again, for a queue that is exactly full and one that overflows, and
for a library between the others.

**Dependencies.** `ListWellFormed`: no duplicates, every patch above its
dependencies. `WalkInList`: the revert loops follow pointers into the list only.
`SuccessIsEffective`: success means that every function of the patch is
redirected to it, unless the queue overflowed (section 6). `CallsReturn`: every
call ends.

**Hijacking.** `AllStopped`: from the end of `hijack_threads` on no thread of the
process runs but the redirected one. `NoUnsafeWork`: no call works while a thread
is inside an interposed function or holds the loader lock. `FlagCounts`: the
counter is the number of interposed calls in progress, nested ones included.
`BusyIsRetried`, `TriggerEnds`. Three threads give a creator, its child and the
main thread; two calls in progress are those of two threads, or one inside the
other (`dlopen` allocates memory and takes the lock of the loader); two attempts
give a retry. Registers and memory may be unwritable, so that a call is not made.

**Unreliable.** With timeouts, signals and gdb many of these no longer hold
(section 6). `NoThreadLeftStopped`: however a trigger ends, the tool is attached
to no thread and leaves none stopped, except a main thread whose call outlived
the timeout, which cannot be detached while it runs. `AllStopped` holds as well:
the theorems `AllReleased` and `HijackStopsAll` assume nothing of the three.
Deadlock is not checked: a process that was killed and a tool that waits for it
may stop.

**Iteration.** `IsChannel` (refinement of `BoundedQueue`). `AllVisited`: every
process that could be inserted is visited, and one whose successor failed is
visited again, right behind itself. `ReleasedUnused`: the list is freed before
the generator thread is joined, and the queue after; neither is in use then.
`FailureReported`: the report of a process, the short one and the full one, says
FAILED if some live patch failed there, in the folder or in a subfolder, whatever
went well beside it and also when the process comes a second time. (The exit
status does not tell: section 6.) `IterationEnds`. Two slots for four elements make
both sides wait and both indexes wrap around. Deadlock is not checked because a
failed insertion can cause one (section 6); `IterationEnds` says that nothing
else does.

**Messages.** `PrintsNewest`: the bytes that `msgq_print` writes are whole
messages, in order and without a gap up to the newest, and zeros.
`StaysInBuffer` (top, bottom and distance agree, and every `strlen` of the
eviction loop ends in the buffer), `PushEnds`. The sizes reach and pass the end
of the buffer in every position. Size 8 is that of the buffer itself: such a
message is the only one of which the beginning can be missing in print, and the
only one whose push may not end (section 6); the properties say under which
conditions, and `StaysInBuffer` holds with it, too.

**Packing.** `AcceptedIsDescribed`: whatever fails while packing, metadata that
the tool accepts is that of one description, whole. `LibraryReadsTheSame`:
libpulp, which parses its whole buffer, reads what the tool read. Behind the
metadata there are zeros, or what an earlier call left that was refused before it
parsed (libpulp was busy or in an error state), or the name of a library whose
patches were reverted first: it all goes through the same buffer.
`StartsClean`: the parser begins with empty lists. Four lines reach a unit, a reference or a
dependency after the mandatory two; the container packed before has two units,
a dependency and a reference. Deadlock is not checked: the tool can die, and the
packer loops on a conflict of temporary paths.

**Trampoline.** `CallersSaved`: every call in progress has an entry that holds
what its caller left in the registers, however the calls nest and the stack
moves. `NeverLost`: no return to a wrong caller, no store outside a mapping.
`TargetKnown`: a branch at the entry finds an address in the prologue, although
they are two writes of which either may fail.
Pages of one entry make the first and the third call grow the stack, three addresses allow
an old and a new mapping and one of a thread that is gone. Calls may begin at the
places of `SafePlace`; the set is exact: with any other place added one of the
first two properties is violated, or `CalledWhenFull`, the assertion of
`ulp_stack_helper` (run `Interrupted`; section 6). Deadlock is not checked: a thread
whose process aborted stops.

**Gathering.** `ListedAll`: what is loaded all the time is listed, whatever else
comes and goes, unless the very node the tool was about to read was freed.
`RefusedRightly`: a process that is ready is not refused for want of libpulp,
although other paths contain its name, and a live patch whose library is loaded
all the time, in its build, is not refused for want of it. `ReportedRightly`:
`ulp patches` reports no library that cannot be and is not patched, all that are,
and all that can be, if a patchable function is among the first 8000 symbols
(section 6) and no attach or detach failed. One object has its functions beyond
them. `GatheringEnds`. Three nodes for up to four objects, with three changes,
let a node be freed and linked again behind the walk. Deadlock is not checked:
the process may be dead and the tool done.

Three runs expect a violation; section 6 describes what they show.

## 4. Fairness

* `LivePatch`: weak fairness of the redirected thread and of the client. The
  thread runs, everybody else is stopped, and the tool waits for it. That a user
  makes another call is not assumed.
* `Hijack`: weak fairness of the tool and of the redirected thread. Nothing is
  assumed of the threads of the process: they may stay in malloc for ever.
* `ProcessList`: weak fairness of the two threads of the tool.
* `MsgQueue`: weak fairness of the loop of a push.
* `Gather`: weak fairness of the tool, whose main loop nobody stops. The loader in
  the process may load and unload or not.
* `Packer` and `UlpStack` have no liveness properties.

## 5. What is proved

All theorems hold for every value of the constants that satisfies the named
assumptions of the modules: types; a NULL outside the set of patches; no two
patches share a reference (`RefsOwned`: the code writes a reference into the
container of the patch, which no other patch has); a finite set of threads with
a main thread; a ring with at least one slot; a message buffer of at least one
byte. Bounds such as `MaxUniverse` are
constants too, so the theorems hold for all of them. A theorem that needs more
has it as a hypothesis, named below.

**LivePatchProofs.** The invariant is
`IInv == TypeOK /\ ListWellFormed /\ WalkInList`. None of the three is inductive
alone: removing a patch keeps the order of dependencies only because nobody
depends on the patch that is being reverted, which `WalkInList` carries through
the loops over the detours; and `WalkInList` keeps its saved `next` pointer in
the list only because the list has no duplicates. One lemma per action;
`RemoveFromList` and `PushOnList` are the facts about lists. Theorems:
`TypeCorrect` (loop cursors in range, the queue within its buffer),
`ListCorrect`, `WalkCorrect`, and the action property `ErrorsStay`.

**HijackProofs.** `TypeInvariant`. `HijackStopsAll` uses `StopInv == TypeOK /\
ScanInv /\ AllStopped`; `ScanInv` says that a pass that has met no new thread,
and has none to come, has everybody on its list: a running thread has an entry
to come, or was created by one that has, because only running threads create
threads. The theorem has no assumption on timeouts, signals or gdb.
`NoDeadlockOnLocks` (`NoUnsafeWork`) and `CounterIsExact` (`FlagCounts`) hold
under `Undisturbed` (none of these three); the invariant adds `CallInv` (where
tool and thread are relative to each other) and `LockInv` (the counter is the
number of interposed calls on the stacks of the threads, the mutex is held by one
thread). `AllReleased` (`NoThreadLeftStopped`) has no hypothesis; `LeftInv` says
that every thread the tool is attached to is on its list, or is the main thread
inside libpulp. `BusyOnlyAtTheEnd` (`BusyIsRetried`) holds under
`Undisturbed`; it needs `QuietInv`: once a call has found malloc and the loader
quiet, they are so until the threads are released, because nobody else moves.
Section 6 shows why the hypothesis is needed.

**CodeProofs.** What the process executes. Two layers, with one lemma per action
in each.

*The lists.* `ListInv` adds to `IInv`, in every state of a call, how the detours
and the list of patches agree so far: an active detour belongs to an applied
patch (`ActiveApplied`), which has no other for the function (`ActiveOnce`); an
applied patch has its detours, except for the units that the loop has not
reached or while it is reverted (`AppliedActive`), when those already passed are
off (`RevertProgress`); active detours are in the order of the list
(`ActiveOrdered`). After a call that failed half way (`EUNKNOWN`) only the roots
are still right. The order survives a push only because the patch being applied
is the newest (`NewestIsCur`), and the removal of a patch only because its
detours are all off. Theorems: `RootsComplete` (`RootsCoverDetours`) and
`DetoursCorrect` (`DetoursMatchList`), without hypotheses.

*The queue.* `PendingInv`: the last write queued for a function, or its memory if
none is queued, is what its newest active detour says, wherever the
interpretation of the queue stopped and however often it is repeated. `ExecInv`
says how far it has come, `RefInv` the same of references, `RefValues` that only
one value is ever written there. Theorems: `CodeCorrect` (`CodeMatchesList`),
`ReferencesCorrect` (`ReferencesWritten`), `RevertAllCorrect`
(`RevertAllReverts`; `WalkInv` adds that the walk has left no patch of the
library behind it). These three have the hypothesis `GdbWritesSucceed`: libpulp's
own interpreter empties the queue also after a failed write (section 6), and the
writes it did not make are lost; the tool leaves them queued. `SuccessCorrect`
(`SuccessIsEffective`) needs no hypothesis, since a call that reports success has
executed its queue. It and `RevertAllCorrect` say nothing of a call that
overflowed the queue, which reports success all the same (section 6).

**UlpStackProofs.** For every page size, number of addresses and depth of calls,
under the assumption that calls begin at safe places only
(`Interruptible \subseteq SafePlace`): `ReturnsToCaller` (`NeverLost`) and
`EntriesKept` (`CallersSaved`), both from `StackConsistent`, and
`BranchLeadsSomewhere` (`TargetKnown`) from an invariant on the queue of writes
(`QueueShape`: a queued branch has its prologue queued before it or written).
`StackInv` adds to the two properties and `CalledWhenFull`: `Nested` (only the innermost call is at
an unsafe place), `Stacked` (each call begins where the one below it ends),
`Room` (space that was found is still there when it is used), `Registers` and
`Mapped` (the recorded size is that of the mapping except while it is replaced).
None is inductive alone: that the entry of an outer call survives needs that the
inner one stores above it, which needs that the inner one began above it, which
needs that the outer one was not interrupted between giving up its entry and
reading it. One lemma per action.

**ProcessListProofs.** No hypotheses. First the ring alone. `SemaphoresCorrect`:
the semaphores and the claimed slots add up to N and the producer's slot is the
one behind the last element. `RingIsChannel`: the ring implements `BoundedQueue`,
for every N. `EnqueuePost` is the step that puts an element, `DequeueLoad` the one
that takes it; all others are stutters. The key fact is `SlotInjective`: storing
into the slot at `head` does not touch the contents. `IterationUsesChannel`
(`IsChannel`): with the generator and the iterator around it, the ring is still
the bounded queue. `FailuresReported` (`FailureReported`): a process that comes
again comes right behind itself (`AgainInRow`), so that the results added up are
still its own, and a failure counted among them (`ReportInv`) is printed. `EveryProcessVisited`
(`AllVisited`) and `NothingFreedInUse` (`ReleasedUnused`): `LineInv` says that
one sequence holds everything that was ever handed out, in order: what was
visited, what the main thread holds, what is in the ring, what the generator is
about to send. It has one value for each process found so far and a NULL at the
end; a NULL before the end stands for an insertion that failed while the list
was still empty, and a process that is repeated is repeated at once. The
sequence is no variable of the model: every step gives the next one as a
witness.

**GatherProofs.** No hypotheses: any number of objects, nodes, changes and
failed reads. `ReportIsRight` (`ReportedRightly`): `KnownInv` says that
what is recorded of an object that is there all the time is true of it, and that
after the loop it is complete; objects are parsed from the newest on, libpulp
before the others. `AllListed` (`ListedAll`): `WalkInv` says that there is a
sequence of nodes, the link map in order, in which whatever was there all the
time and is not listed yet lies ahead of the tool, or in the copy of a node that
it holds, unless a node was freed under it. `RefusalsRight` (`RefusedRightly`)
follows from both.

**MsgQueueProofs.** For every size of the buffer. `InsideBuffer`
(`StaysInBuffer`), for every size of the messages: in `RingInv` the last byte is
always 0, so every `strlen` ends; the first is 0 only while nothing was pushed, so
that the skipping of zeros ends; and `bottom + distance` is `top` but for multiples
of the size (`Frame`). A message of exactly the size of the buffer makes the
distance negative for a while, by less than one buffer (`Wide`). `NewestPrinted`
(`PrintsNewest`) has the hypothesis that no message has that size:
`ContentInv` says that there are a first message and a place for each message
from it on, such that the bytes from `bottom` on, around the end, are those
messages and zeros. Evicting drops a message or some zeros, wrapping around adds
zeros, a message is stored in room that the loop has made; the log that the
invariant speaks of is bounded because every message takes two bytes. What is
printed with a message of that size is model-checked only.

**PackerProofs.** For every set of lines, every length of the description, of
names and of the buffer, every `Base`, `NumLen` and `AddrLen`, and any number of
writes that are cut short: `AcceptsDescriptions` (`AcceptedIsDescribed`),
`LibraryReadsAlike` (`LibraryReadsTheSame`), `AlwaysStartsClean` (`StartsClean`),
and `OnlyShortIsInvalid`: the parser gives up only where the end of a file is
missing, so what was written completely is never refused as invalid. They follow
from `PackerInvariant`, in four layers.

*Numbers and lists.* Recursive functions and folds are brought within reach by
two lemmas: `Induction`, for a property given as the set of numbers that have it,
and `Recursion`, which says that a recursion along `0..n` has a solution. From
them: a number that fits is read back from its bytes (`ValueOfBytes`), what is
concatenated can be taken off again (`FlattenHead`), a name is read back with its
terminator or without (`CStringOfName`).

*The parser.* `ParserInv(t, m)`: either the parser is on its way through the
bytes `Memory(t, m)` of the metadata `m` (`OnTrack`: what is in front of it is the
rest of them, and the struct holds the part before), or the memory is too short
and the parser is at its end or has given up (`TooShort`). A read that is checked
for one byte only may pass at the end of the memory with a value that nobody
wrote; what saves the code is that it then has nothing left to read, and that
something is read after that which needs more: the number of references, with
all its bytes, in a patch, the name of the library in a reverse patch. This is
where the bound on the length of that name is used: with 256 bytes or more the
first byte of the length could be 0. One lemma per parsing action;
`ParserStep` joins them.

*The packer.* `MetaInv`: while the lines are read, the metadata is `Collected`
from them: functions in order, dependencies and references as sets, with
preliminary offsets; after the symbols were looked up it `Says` what the
description says, and with the id it is `Packed`. One lemma per kind of line.
`SectionsInv`: each section of the container is the beginning of a file for the
description before or for the one the packer took in (`From`). From then on the
packer changes neither description nor metadata; before, it changes no section.

*The tool.* `TriggerInv`: what is parsed agrees with the bytes of such a
description; once accepted, all of them are there, which is why whatever is behind
them in the buffer of libpulp.so, and the uninitialised length, make no
difference. `BufferInv` says that the buffer keeps its size; what was written last
is at its beginning (`BufferHolds`).

The assumptions, beyond types: the older description names symbols that exist;
names and counts fit into their numbers and offsets into an address; names have
no zero byte; the name of the library has at least 1 and less than `Base` bytes
(`NAME_MAX` is 255); the id has two parts, build id and digest (`IdLen = 2`).
`PackerInvariant` quantifies over all metadata, so TLC cannot evaluate it: what
TLC checks are the properties themselves.

**Instead of induction.** Elsewhere, where an argument looks for the first or last of
something (the newest active detour, the end of a string, the last write to a
place), it uses the least element of a set of numbers (`LeastNatural`, `LeastOf`),
which needs no induction rule.

`TypeCorrect`, `TypeInvariant`, `SemaphoresCorrect`, `StackConsistent` and
`OnlyShortIsInvalid` state invariants that no run lists: the runs check what the
first four are for, and the last speaks of all metadata.

**Only model-checked.** The liveness properties `CallsReturn`, `TriggerEnds`,
`IterationEnds`, `PushEnds`, `GatheringEnds`: TLAPS does not do fairness. Every
safety property that a passing run checks is stated by a theorem, with the
hypotheses given above.

## 6. Where the code differs from what it says

### With a run

* `RevertLoop` — `lib/ulp.c:118`: revert-all `continue`s without moving on when
  a patch cannot be reverted, so the redirected thread loops for ever.
* `GdbBuildId` — `lib/ulp.c:1006`: the build id test in libpulp is the inverse of
  what it should be (`BuildIdsMatch`): a patch whose build id no loaded library has is applied. The
  tool has a test of its own; gdb has not.
* `Interrupted` — `lib/arch/powerpc64le/ulp_prologue.S:91`: the trampoline
  compares the sizes, then calls `ulp_stack_helper`, which asserts the result of
  the comparison. A signal handler that calls a patched function in between
  grows the stack first, and the assertion fails. At other places of the
  trampoline such a handler does more harm (section 3, `Trampoline`); nothing in
  the code blocks signals there.

### Seen while modelling, without a run of their own

In `libpulp.so`:

* The result of `memwrite` is ignored (`lib/ulp.c:743,747`,
  `lib/arch/x86_64/patch.c:74`): a call that overflows the instruction queue
  returns success, a revert-all, too (`lib/ulp.c:1251`), which then leaves functions
  redirected. Only the error state tells, and blocks later calls. Reverts
  queue a write for every detour there ever was (`lib/ulp.c:1231`), so a long
  history of applies and reverts needs an ever larger queue.
* The flag is released before the work begins (`lib/ulp.c:167,201`): after a
  timeout a second call can interrupt the first.
* `__ulp_asunsafe_unlock` zeroes the counter (`lib/interpose.c:400`). With gdb,
  where other threads run, a thread that entered malloc meanwhile then makes it
  negative, and `EAGAIN` is returned for ever.
* `dl_locks_held` asserts a lock value of 0 or 1 (`lib/interpose.c:93`), but a
  contended mutex has the value 2; the error state is then `EUNKNOWN` for good.
* A message of exactly `MSGQ_BUFFER_MAX` bytes passes the test at
  `lib/msg_queue.c:48`, but the loop at line 68 cannot make room for it: it goes on
  until the unsigned sum of line 69 wraps around, with a negative distance, and
  `bottom` is then inside the new message, the beginning of which is not printed.
  If `top` is 0 when it is pushed, the whole buffer is cleared and the loop that
  skips zeros does not end.
* libpulp parses its whole buffer (`lib/ulp.c:445`) and cannot notice truncated
  metadata; it relies on the tool's parse, which gdb has not. The buffer is cleared
  only behind a parse (`lib/ulp.c:463`): a call that is refused before leaves its
  metadata there, and `set_metadata_buffer` overwrites as much as it needs.
* On PowerPC the key with the destructor of a thread's stack is created
  (`lib/arch/powerpc64le/patch.c:319`) but never given a value, so that the
  destructor does not run and the mapping of every thread is leaked (line 317:
  "so we don't leak memory when a thread is destroyed"). A patched
  function that is left by `longjmp` leaves its entry on the stack, and the next
  return takes it.
* On PowerPC the prologue is queued before the entry is found to be unpatchable
  (`lib/arch/powerpc64le/patch.c:217`): harmless, as no branch leads to it.

In the tool:

* The queue of a failed call is executed, and the failure is reported as one that
  left the process alone (`tools/introspection.c:1737`).
* Any stop of the thread counts as the end of the call (`tools/ptrace.c:598`), and
  the register that is read then may hold 0: success is reported of a routine that
  has not ended.
* After a timeout the main thread runs: its registers cannot be put back and it
  cannot be detached (`tools/ptrace.c:439`, `tools/introspection.c:1857`). It stays
  traced, stops at the `int3`, and nobody resumes it; when the tool exits, it goes
  on behind the `int3`, with registers that nobody restored.
* A prologue is written in two words (`tools/ptrace.c:117`); a failure between
  them leaves half of a jump.
* A process that cannot be inserted sends `it->last`, NULL at first, and ends the
  loop before others were visited (`tools/patches.c:101`).
* A node that is freed under the walk of the link map and cannot be read ends it
  like the end of the list (`tools/introspection.c:1293`), without an error.
* Any object whose path contains `libpulp.so` replaces libpulp as
  `dynobj_libpulp` for a while (`tools/introspection.c:1269`); the search for
  libpulp's symbols puts it right (`RefusedRightly`).
* `is_library_livepatchable` looks at the first 8000 symbols (`tools/patches.c:480`);
  a library with patchable functions beyond them only is not reported.
* `is_library_livepatchable` returns a `ret` that was never set for a library
  without symbols (`tools/patches.c:508`).
* The flags that `trigger_many_ulps` returns for a subfolder are overwritten
  (`tools/trigger.c:325`): a failure there is in the report of the process and
  neither counted nor in the exit status.
* `EAPPLIED` and the like are "skipped" in the counters and in the short report
  and "FAILED" in the full one.
* After an early NULL the list is freed before the thread that inserts into it is
  joined (`tools/patches.c:186`); `ReleasedUnused` says that an orderly end is safe.
* An error code that equals the old value of the return register is taken for a
  routine that did not run (`tools/introspection.c:1724`).
* A failed interpretation leaves the queue filled, which blocks the next call
  with `EINSNQ`; the library's interpreter empties it all the same
  (`lib/insn_queue.c:359`).
* A thread that exits between `readdir` and attach ends the whole trigger
  (`tools/trigger.c:148`), without a retry.
* A failure of `restore_threads` with result 0 is success (`tools/trigger.c:208`).
* After a failed insertion the previous process is sent again
  (`tools/patches.c:103`); and after an early NULL the main thread joins the
  generator, which may wait for a slot in a ring of 512 (`tools/patches.c:188`).
* If `/proc` cannot be opened, a thread that was never created is joined.
* With a wildcard of patches the exit status is 0 whatever happens
  (`tools/trigger.c:514`); `man/ulp.1:419` says "exits 0 on success, 1 on error".
  Only the report tells (`FailureReported`).
* The default timeout is 200 s; `man/ulp.1:394` says 100 s.
* `set_patchable` reads the state before it stops the threads and the routine
  toggles (`tools/set_patchable.c:66,78`).

In the packer:

* `WEXITSTATUS(ret)` instead of the status of objcopy (`tools/elf-extra.c:192`):
  a failed objcopy counts as success.
* An inner `ret` (`tools/packer.c:1229`): a failure to embed the comments exits
  with 0 and without a reverse patch.
* `conflict` is never reset (`common/common.c:217`): one clash of temporary
  paths makes the packer loop for ever; the path is tested and created in two
  steps.
* Results of `fwrite` and `fclose` are not looked at; the parser catches what is
  cut short (`AcceptedIsDescribed`).
* A description without an `@` line dereferences NULL; a section shorter than
  33 bytes makes a size negative (`tools/introspection.c:1975`).

## 7. What is not modelled

* Post-processing of ELF files, `ulp extract`, `dump`, `check`, the command line,
  and MD4: files in, files or text out, no state across calls.
* The bytes of ELF structures (headers, hash tables, string tables) in
  `tools/introspection.c`, `lib/minielf.c`, `lib/symbol_loader.c`: what is looked
  up is there or the lookup fails. `get_dynobj_elf_by_cache` has no caller.
* The assembly of the entry points: the registers they save are below the level
  of the models.
* On PowerPC: leaving a patched function other than by returning, and more than
  one patched function per thread, which would share the stack in the same way.
* Two tools at work on one process: the second `set_patchable` toggles what the
  first has set.
* The optional check of stacks (`ENABLE_STACK_CHECK`), the print instruction, and
  `__ulp_manage_universes`, which has no caller.
* `load_patch_info_from_disk` and `extract_ulp_from_so_to_disk`, which have no
  caller.
* Libraries that are closed between the check of the build id and the call
  (`tools/trigger.c:128` and `148`), while the process runs: the libraries are
  constants in `LivePatch`. `Gather` has the changes before.
* `/proc` that cannot be opened, failures of `getrandom`, wrong answers of ptrace
  other than errors, metadata of which a part was written into the buffer of
  libpulp, and how gdb fills that buffer (it clears it first).
* On PowerPC a queue of which a part was executed: it stays there, as in
  `LivePatch`, and is executed again from the prologue on.
* Of `check_build_id` the lengths of the ids, of `ulp_apply_all_units` which symbol
  is missing: the call fails in the same way.

## 8. Plan

Done, in this order: `Libpulp` and `LivePatch` (the lists and the code of the
process), `Hijack`, `PcQueue`/`BoundedQueue`, `ProcessList`, `MsgQueue`,
`Metadata` and `Packer`; the loops over live patches, their report and exit
status in `ProcessList`; `Gather`; `UlpStack`. Theorems for the safety properties
of all of these.

Next:

1. `SetPatchable`: two tools that enable or disable one process; composition of
   `Hijack` and the error state.
2. `ulp packer` and gdb: the reader of the metadata without the tool's parse;
   liveness of the packer.
