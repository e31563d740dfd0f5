------------------------------- MODULE Hijack -------------------------------
(***************************************************************************)
(* The critical section of ulp trigger: the tool stops every thread of the *)
(* target process (hijack_threads), redirects the main thread to a routine *)
(* of libpulp (run_and_redirect), waits for it, puts the threads back      *)
(* (restore_threads) and, when libpulp found malloc or the dynamic loader  *)
(* busy, tries again (trigger_one_process). The threads of the process     *)
(* run, create threads, exit, and enter and leave the functions that       *)
(* lib/interpose.c wraps to count the calls in progress; such calls nest.  *)
(*                                                                         *)
(* What a call does to the lists of patches is in module Libpulp; here it  *)
(* is one step that may block on a lock and that returns some code.        *)
(***************************************************************************)
EXTENDS Integers, Sequences, FiniteSets

CONSTANTS
  Thread,      \* thread ids
  Main,        \* the thread whose id is the process id
  Retries,     \* --retries=N
  MayTimeout,  \* whether the call can outlive the timeout of the tool
  MaySignal,   \* whether signals stop the redirected thread, or end the process
  Gdb,         \* whether gdb, too, calls libpulp, with the threads running
  MaxCalls,    \* bound: calls in progress, those of all threads together
  MaxDrift     \* bound: gdb makes no call once the counter is below -MaxDrift

ASSUME HijackAssumption ==
  /\ IsFiniteSet(Thread)
  /\ Main \in Thread
  /\ Retries \in Nat
  /\ MayTimeout \in BOOLEAN /\ MaySignal \in BOOLEAN /\ Gdb \in BOOLEAN
  /\ MaxCalls \in Nat /\ MaxDrift \in Nat

VARIABLES
  alive,    \* the threads of the process; empty once it is gone
  frames,   \* what each thread is inside of, innermost last: "call" an interposed
            \* function, "dl" a mutex of the loader
  waits,    \* threads that wait for the loader's mutex
  dl_lock,  \* the loader's mutex: 0 free, 1 locked, 2 locked and contended
  flag,     \* the counter `flag` of lib/interpose.c
  error_state, \* __ulp_error_state: "ENONE" or "EUNKNOWN"
  lib,      \* where the main thread is in libpulp, "out" when it is not
  saved,    \* context of the main thread, as the tool saved it
  ret,      \* return register of the main thread
  traced,   \* threads the tool is attached to
  stopped,  \* those of them that are stopped
  tool,     \* where the tool is
  threads,  \* process->threads
  entries,  \* entries of /proc/<pid>/task this pass has still to return
  next,     \* the tid returned last
  loop,     \* a new thread was seen in this pass
  retry,    \* attempts left
  plan,     \* the calls trigger_one_process makes: revert-all, apply, or both
  call,     \* the call being made
  result    \* `result` of trigger_one_process

stackVars == <<frames, waits, dl_lock>>
procVars == <<alive, stackVars>>
libVars  == <<flag, error_state, lib, saved, ret>>
scanVars == <<threads, entries, next, loop>>
toolVars == <<traced, stopped, tool, scanVars, retry, plan, call, result>>
vars     == <<procVars, libVars, toolVars>>

Codes == {"ENONE", "EAGAIN", "ENOPATCH", "ERROR", "FATAL", "ETIME",
          "ETARGETHOOK", "EUNKNOWN", "ETHRDATTACH", "ETHRDDETTACH", "ESRCH"}

\* The states of the tool, the redirected thread and the counters: the retries
\* of trigger_one_process never pass 0 and the lists hold threads only.
TypeOK ==
  /\ alive \subseteq Thread
  /\ frames \in [Thread -> Seq({"call", "dl"})] /\ waits \subseteq Thread
  /\ dl_lock \in {0, 1, 2}
  /\ error_state \in {"ENONE", "EUNKNOWN"}
  /\ flag \in Int
  /\ lib \in {"out", "entry", "locked", "work", "int3"}
  /\ saved \in {"out", "entry", "locked", "work", "int3"}
  /\ ret \in Codes
  /\ traced \subseteq Thread /\ stopped \subseteq Thread
  /\ tool \in {"idle", "attempt", "scan", "attach", "hijacked", "wait",
               "returned", "restore", "gdb"}
  /\ threads \subseteq Thread /\ entries \subseteq Thread /\ next \in Thread
  /\ loop \in {0, 1}
  /\ retry \in 0..Retries
  /\ plan \in {"apply", "revert", "both"}
  /\ call \in {"apply", "revert"}
  /\ result \in Codes

Init ==
  /\ \E s \in SUBSET Thread : Main \in s /\ alive = s
  /\ frames = [t \in Thread |-> <<>>] /\ waits = {}
  /\ dl_lock = 0 /\ error_state = "ENONE"
  /\ flag = 0 /\ lib = "out" /\ saved = "out" /\ ret = "ENONE"
  /\ traced = {} /\ stopped = {} /\ tool = "idle"
  /\ threads = {} /\ entries = {} /\ next = Main /\ loop = 0
  /\ retry = 0 /\ plan = "apply" /\ call = "apply" /\ result = "ENONE"

-----------------------------------------------------------------------------
(***************************************************************************)
(* The threads of the process.                                             *)
(***************************************************************************)

\* Threads that execute their own code.
Running == {t \in alive \ stopped : t = Main => lib = "out"}

\* The frames of all threads, each a thread and a depth.
Frames == {x \in Thread \X (1..MaxCalls) : x[2] \in DOMAIN frames[x[1]]}

\* Thread t enters something; within the bound.
Push(t, what) ==
  /\ Len(frames[t]) < MaxCalls /\ Cardinality(Frames) < MaxCalls
  /\ frames' = [frames EXCEPT ![t] = Append(@, what)]

\* Thread t leaves what it entered last.
Pop(t, what) ==
  /\ frames[t] # <<>> /\ frames[t][Len(frames[t])] = what
  /\ frames' = [frames EXCEPT ![t] = SubSeq(@, 1, Len(@) - 1)]

\* Mutant of EnterCall: a call from inside another one is not counted.
EnterCall_outer(t) ==
  /\ t \in Running \ waits
  /\ Push(t, "call")
  /\ flag' = IF frames[t] = <<>> THEN flag + 1 ELSE flag
  /\ UNCHANGED <<alive, waits, dl_lock, error_state, lib, saved, ret, toolVars>>

\* An interposed function (malloc, free, dlopen, dladdr...) is called, possibly
\* by another one: dlopen allocates memory.
EnterCall(t) ==
  /\ t \in Running \ waits
  /\ Push(t, "call")
  /\ flag' = flag + 1
  /\ UNCHANGED <<alive, waits, dl_lock, error_state, lib, saved, ret, toolVars>>

LeaveCall(t) ==
  /\ t \in Running \ waits
  /\ Pop(t, "call")
  /\ flag' = flag - 1
  /\ UNCHANGED <<alive, waits, dl_lock, error_state, lib, saved, ret, toolVars>>

\* dlopen, or dlsym and lazy binding, which are not interposed, take a mutex of
\* the loader. A thread that finds it taken marks it as contended and waits, and
\* takes it so.
EnterDl(t) ==
  /\ t \in Running /\ \A k \in DOMAIN frames[t] : frames[t][k] # "dl"
  /\ \/ /\ t \notin waits /\ dl_lock = 0
        /\ Push(t, "dl") /\ dl_lock' = 1 /\ UNCHANGED waits
     \/ /\ t \notin waits /\ dl_lock # 0
        /\ waits' = waits \cup {t} /\ dl_lock' = 2 /\ UNCHANGED frames
     \/ /\ t \in waits /\ dl_lock = 0
        /\ Push(t, "dl") /\ dl_lock' = 2 /\ waits' = waits \ {t}
  /\ UNCHANGED <<alive, libVars, toolVars>>

LeaveDl(t) ==
  /\ t \in Running
  /\ Pop(t, "dl")
  /\ dl_lock' = 0
  /\ UNCHANGED <<alive, waits, libVars, toolVars>>

\* Thread t creates thread u. The pass over the task directory that is being
\* made, if there is one, may return the new thread or not.
Spawn(t, u) ==
  /\ t \in Running \ waits /\ frames[t] = <<>> /\ u \in Thread \ alive
  /\ alive' = alive \cup {u}
  /\ \/ UNCHANGED entries
     \/ tool \in {"scan", "attach"} /\ entries' = entries \cup {u}
  /\ UNCHANGED <<stackVars, libVars, traced, stopped, tool, threads, next, loop,
                 retry, plan, call, result>>

Exit(t) ==
  /\ t \in Running \ (waits \cup {Main}) /\ frames[t] = <<>>
  /\ alive' = alive \ {t}
  /\ UNCHANGED <<stackVars, libVars, toolVars>>

\* The process ends, and with it its threads and its memory.
ProcessEnds ==
  /\ alive' = {} /\ traced' = {} /\ stopped' = {}
  /\ frames' = [t \in Thread |-> <<>>] /\ waits' = {} /\ dl_lock' = 0
  /\ flag' = 0 /\ error_state' = "ENONE" /\ lib' = "out" /\ ret' = "ENONE"
  /\ UNCHANGED <<saved, tool, scanVars, retry, plan, call, result>>

\* A signal ends the process.
Killed == MaySignal /\ alive # {} /\ tool # "gdb" /\ ProcessEnds

-----------------------------------------------------------------------------
(***************************************************************************)
(* libpulp, on the redirected main thread.                                 *)
(***************************************************************************)

InLib == Main \in alive \ stopped

dl_locks_held == dl_lock # 0

\* Mutant of Busy: the locks of the loader are not looked at.
Busy_flag == flag # 0

Busy == dl_locks_held \/ flag # 0

\* The entry points give up on an error, also for reasons that are not
\* modelled here (a queue that is not empty).
EntryError ==
  /\ InLib /\ lib = "entry"
  /\ lib' = "int3" /\ ret' = "ERROR"
  /\ UNCHANGED <<procVars, flag, error_state, saved, toolVars>>

\* __ulp_asunsafe_trylock. dl_locks_held asserts that the lock is 0 or 1, and
\* a failed assertion sets the error state.
Trylock ==
  /\ InLib /\ lib = "entry" /\ error_state = "ENONE"
  /\ error_state' = IF dl_lock > 1 THEN "EUNKNOWN" ELSE "ENONE"
  /\ \/ /\ Busy
        /\ lib' = "int3" /\ ret' = "EAGAIN"
        /\ UNCHANGED flag
     \/ /\ ~Busy
        /\ flag' = 1
        /\ lib' = "locked"
        /\ UNCHANGED ret
  /\ UNCHANGED <<procVars, saved, toolVars>>

\* __ulp_asunsafe_unlock: the counter is zeroed, not decremented.
Unlock ==
  /\ InLib /\ lib = "locked"
  /\ flag' = 0
  /\ lib' = "work"
  /\ UNCHANGED <<procVars, error_state, saved, ret, toolVars>>

\* load_patch or revert_all_patches_from_lib, which allocate memory and use
\* the loader: they wait for whoever is inside one of these, for ever if that
\* thread is stopped.
Work ==
  /\ InLib /\ lib = "work"
  /\ \A t \in Thread : frames[t] = <<>>
  /\ lib' = "int3"
  /\ ret' \in {"ENONE", "ERROR"}
       \cup (IF call = "revert" THEN {"ENOPATCH"} ELSE {})
  /\ UNCHANGED <<procVars, flag, error_state, saved, toolVars>>

\* The redirected thread stops for its tracer: at the int3 of ulp_interface.S
\* behind the call, or anywhere because of a signal.
Halt ==
  /\ InLib /\ Main \in traced /\ lib # "out"
  /\ lib = "int3" \/ MaySignal
  /\ stopped' = stopped \cup {Main}
  /\ UNCHANGED <<procVars, libVars, traced, tool, scanVars, retry, plan, call, result>>

\* The int3 without a tracer kills the process.
Trap ==
  /\ InLib /\ lib = "int3" /\ Main \notin traced /\ tool # "gdb"
  /\ ProcessEnds

-----------------------------------------------------------------------------
(***************************************************************************)
(* hijack_threads.                                                         *)
(***************************************************************************)

Trigger ==
  /\ tool = "idle"
  /\ tool' = "attempt"
  /\ retry' = Retries
  /\ plan' \in {"apply", "revert", "both"}
  /\ result' = "FATAL" /\ call' = "apply"
  /\ UNCHANGED <<procVars, libVars, traced, stopped, scanVars>>

\* trigger_one_process is over, with this result.
Finish(code) == tool' = "idle" /\ result' = code

\* Mutant of Attempt: does not count the attempts.
Attempt_forever ==
  /\ tool = "attempt"
  /\ UNCHANGED retry
  /\ IF retry = 0 \/ alive = {}
       THEN Finish(IF retry = 0 THEN result ELSE "ESRCH") /\ UNCHANGED scanVars
       ELSE /\ tool' = "scan"
            /\ threads' = {} /\ entries' = alive /\ loop' = 0
            /\ UNCHANGED <<next, result>>
  /\ UNCHANGED <<procVars, libVars, traced, stopped, plan, call>>

\* Next turn of the retry loop: open the task directory, which is read as it is
\* at the beginning of a pass.
Attempt ==
  /\ tool = "attempt"
  /\ \/ /\ retry = 0
        /\ Finish(result)
        /\ UNCHANGED <<retry, scanVars>>
     \/ /\ retry > 0 /\ alive = {}
        /\ retry' = retry - 1
        /\ Finish("ESRCH")
        /\ UNCHANGED scanVars
     \/ /\ retry > 0 /\ alive # {}
        /\ retry' = retry - 1
        /\ tool' = "scan"
        /\ threads' = {} /\ entries' = alive /\ loop' = 0
        /\ UNCHANGED <<next, result>>
  /\ UNCHANGED <<procVars, libVars, traced, stopped, plan, call>>

\* readdir returns an entry: a thread already dealt with, or a new one. It may
\* have gone since the directory was read.
ReadDir ==
  /\ tool = "scan"
  /\ \E t \in entries :
       /\ entries' = entries \ {t}
       /\ IF t \in threads
            THEN UNCHANGED <<tool, next, loop>>
            ELSE tool' = "attach" /\ next' = t /\ loop' = 1
  /\ UNCHANGED <<procVars, libVars, traced, stopped, threads, retry, plan, call, result>>

\* Mutant of ReadEnd: one pass over the directory.
ReadEnd_once ==
  /\ tool = "scan" /\ entries = {}
  /\ tool' = "hijacked"
  /\ UNCHANGED <<procVars, libVars, traced, stopped, scanVars, retry, plan, call,
                 result>>

\* The directory is exhausted: read it again if it had a new thread.
ReadEnd ==
  /\ tool = "scan" /\ entries = {}
  /\ IF loop = 1 THEN entries' = alive /\ loop' = 0 /\ UNCHANGED tool
                 ELSE tool' = "hijacked" /\ UNCHANGED <<entries, loop>>
  /\ next' = Main
  /\ UNCHANGED <<procVars, libVars, traced, stopped, threads, retry, plan, call, result>>

\* attach(tid) and get_regs. The context of the main thread is saved.
Attach ==
  /\ tool = "attach" /\ next \in alive \ traced
  /\ traced' = traced \cup {next}
  /\ stopped' = stopped \cup {next}
  /\ threads' = threads \cup {next}
  /\ saved' = IF next = Main THEN lib ELSE saved
  /\ tool' = "scan"
  /\ UNCHANGED <<procVars, flag, error_state, lib, ret, entries, next, loop, retry, plan,
                 call, result>>

\* Mutant of AttachFailed: the threads already stopped stay so.
AttachFailed_leaves ==
  /\ tool = "attach"
  /\ Finish("ETHRDATTACH")
  /\ UNCHANGED <<procVars, libVars, traced, stopped, threads, entries, next, loop, retry,
                 plan, call>>

\* The thread has gone, or somebody traces it, maybe the tool itself since an
\* earlier trigger: children_restore. The retry loop is left.
AttachFailed ==
  /\ tool = "attach"
  /\ traced' = traced \ threads
  /\ stopped' = stopped \ threads
  /\ threads' = {} /\ entries' = {} /\ next' = Main /\ loop' = 0
  /\ Finish(IF threads \subseteq alive THEN "ETHRDATTACH" ELSE "ETHRDDETTACH")
  /\ UNCHANGED <<procVars, libVars, retry, plan, call>>

-----------------------------------------------------------------------------
(***************************************************************************)
(* run_and_redirect and restore_threads.                                   *)
(***************************************************************************)

\* The main thread continues at routine c of libpulp; its return register
\* still has what it had.
Redirect(c) ==
  /\ Main \in alive
  /\ call' = c
  /\ lib' = "entry"
  /\ ret' \in {"ENONE", "ERROR"}
  /\ stopped' = stopped \ {Main}
  /\ tool' = "wait"

\* The memory or the registers of the process cannot be written: no call.
RedirectFailed ==
  /\ result' = "ETARGETHOOK" /\ tool' = "restore"
  /\ UNCHANGED <<call, lib, ret, stopped>>

FirstCall ==
  /\ tool = "hijacked"
  /\ \/ Redirect(IF plan = "apply" THEN "apply" ELSE "revert") /\ UNCHANGED result
     \/ RedirectFailed
  /\ UNCHANGED <<procVars, flag, error_state, saved, traced, scanVars, retry, plan>>

\* waitpid reports that the main thread stopped, wherever that was.
Stopped ==
  /\ tool = "wait" /\ Main \in stopped
  /\ tool' = "returned"
  /\ UNCHANGED <<procVars, libVars, traced, stopped, scanVars, retry, plan, call, result>>

\* waitpid reports that the process is gone, or its registers cannot be read.
WaitFailed ==
  /\ tool = "wait" /\ Main \notin alive
  /\ \/ result' = "EUNKNOWN" /\ UNCHANGED retry
     \/ result' = "FATAL" /\ retry' = 0
  /\ tool' = "restore"
  /\ UNCHANGED <<procVars, libVars, traced, stopped, scanVars, plan, call>>

\* run_and_redirect returns ETIME: the main thread goes on in libpulp.
Timeout ==
  /\ tool = "wait" /\ MayTimeout
  /\ tool' = "restore" /\ result' = "ETIME"
  /\ UNCHANGED <<procVars, libVars, traced, stopped, scanVars, retry, plan, call>>

\* Mutant of Returned: any failure of a revert lets the apply go on.
Returned_ignores ==
  /\ tool = "returned"
  /\ LET again == call = "revert" /\ plan = "both"
     IN /\ retry' = IF again \/ ret = "ENONE" THEN 0 ELSE retry
        /\ \/ again /\ result' = "ENONE" /\ Redirect("apply")
           \/ again /\ RedirectFailed
           \/ /\ ~again /\ result' = ret /\ tool' = "restore"
              /\ UNCHANGED <<call, lib, ret, stopped>>
  /\ UNCHANGED <<procVars, flag, error_state, saved, traced, scanVars, plan>>

\* What trigger_one_process makes of the return value. A revert that found
\* nothing to revert does not prevent the apply; after a revert that did
\* something there is no further attempt.
Returned ==
  /\ tool = "returned"
  /\ LET code  == IF call = "revert" /\ plan = "both" /\ ret = "ENOPATCH"
                    THEN "ENONE" ELSE ret
         again == code = "ENONE" /\ call = "revert" /\ plan = "both"
     IN /\ retry' = IF code = "ENONE" THEN 0 ELSE retry
        /\ \/ again /\ result' = code /\ Redirect("apply")
           \/ again /\ RedirectFailed
           \/ /\ ~again /\ result' = code /\ tool' = "restore"
              /\ UNCHANGED <<call, lib, ret, stopped>>
  /\ UNCHANGED <<procVars, flag, error_state, saved, traced, scanVars, plan>>

\* One turn of restore_threads: put the registers back and detach. Both fail
\* for a main thread that is still running, which stays traced.
RestoreThread(t) ==
  /\ tool = "restore" /\ t \in threads
  /\ threads' = threads \ {t}
  /\ IF t \in stopped
       THEN /\ stopped' = stopped \ {t} /\ traced' = traced \ {t}
            /\ lib' = IF t = Main THEN saved ELSE lib
            /\ UNCHANGED retry
       ELSE retry' = 0 /\ UNCHANGED <<stopped, traced, lib>>
  /\ saved' = IF t = Main THEN "out" ELSE saved
  /\ UNCHANGED <<procVars, flag, error_state, ret, tool, entries, next, loop, plan, call,
                 result>>

Restored ==
  /\ tool = "restore" /\ threads = {}
  /\ tool' = "attempt"
  /\ UNCHANGED <<procVars, libVars, traced, stopped, scanVars, retry, plan, call, result>>

\* The process of the tool ends, and with it the tracing.
ToolExit ==
  /\ tool = "idle" /\ traced # {}
  /\ traced' = {} /\ stopped' = {}
  /\ UNCHANGED <<procVars, libVars, tool, scanVars, retry, plan, call, result>>

-----------------------------------------------------------------------------
(***************************************************************************)
(* gdb_ulp_apply and gdb_ulp_revert: the same routine, called by gdb on    *)
(* the main thread while the other threads run.                            *)
(***************************************************************************)

GdbCall ==
  /\ Gdb /\ tool = "idle" /\ Main \in alive /\ lib = "out"
  /\ flag >= -MaxDrift
  /\ tool' = "gdb"
  /\ lib' = "entry" /\ saved' = lib
  /\ UNCHANGED <<procVars, flag, error_state, ret, traced, stopped, scanVars, retry, plan, call,
                 result>>

GdbReturn ==
  /\ tool = "gdb" /\ lib = "int3"
  /\ lib' = saved /\ saved' = "out"
  /\ tool' = "idle"
  /\ UNCHANGED <<procVars, flag, error_state, ret, traced, stopped, scanVars, retry, plan,
                 call, result>>

-----------------------------------------------------------------------------

ThreadStep ==
  \E t \in Thread :
    \/ EnterCall(t) \/ LeaveCall(t) \/ EnterDl(t) \/ LeaveDl(t) \/ Exit(t)
    \/ \E u \in Thread : Spawn(t, u)

LibStep == Trylock \/ Unlock \/ Work \/ EntryError \/ Halt \/ Trap

ToolStep ==
  \/ Attempt \/ ReadDir \/ ReadEnd \/ Attach \/ AttachFailed
  \/ FirstCall \/ Stopped \/ WaitFailed \/ Timeout \/ Returned
  \/ \E t \in Thread : RestoreThread(t)
  \/ Restored
  \/ GdbReturn

Next ==
  ThreadStep \/ Killed \/ LibStep \/ Trigger \/ ToolStep \/ ToolExit \/ GdbCall

\* The tool and the redirected thread run; what the threads of the process do
\* is up to the program.
Fairness == WF_vars(ToolStep) /\ WF_vars(LibStep)

Spec == Init /\ [][Next]_vars /\ Fairness

-----------------------------------------------------------------------------
(***************************************************************************)
(* Properties.                                                             *)
(***************************************************************************)

\* Once hijack_threads has returned 0, every thread of the process is stopped,
\* and stays so until restore_threads: the threads created, or gone, while the
\* directory was read were not missed ("to guarantee that threads created
\* during iterations of the inner loop are taken into account").
AllStopped ==
  /\ tool \in {"hijacked", "returned"} => alive \subseteq stopped
  /\ tool = "wait" => alive \ {Main} \subseteq stopped

\* libpulp starts to work only when no thread of the process, the redirected
\* one included, is inside malloc or the dynamic loader (man ulp(1): "libpulp.so
\* checks that these functions are not in execution anywhere in the target
\* process, before starting the live patching operation").
NoUnsafeWork ==
  lib = "work" /\ tool = "wait" => \A t \in Thread : frames[t] = <<>>

\* The interposed calls in progress.
Calls == {x \in Frames : frames[x[1]][x[2]] = "call"}

\* The counter of lib/interpose.c is the number of interposed calls in progress,
\* those made from inside others included, plus the lock of a call of libpulp
\* that has just taken it; zeroing it in __ulp_asunsafe_unlock loses none.
FlagCounts == flag = Cardinality(Calls) + (IF lib = "locked" THEN 1 ELSE 0)

\* However a trigger ends, the tool is attached to no thread of the process and
\* leaves none stopped. The one exception is a main thread whose call outlived
\* the timeout: it could not be detached, stops at the end of the call, and is
\* neither resumed nor restored.
NoThreadLeftStopped ==
  tool = "idle" => traced \cup stopped \subseteq {t \in {Main} : lib # "out"}

\* A trigger that gives up because libpulp was busy has used all its attempts,
\* and has not reverted anything ("so retry in a finite loop").
BusyIsRetried ==
  tool = "idle" /\ result = "EAGAIN" =>
     retry = 0 /\ (plan = "both" => call = "revert")

\* The trigger comes to an end: the redirected call does not wait for a lock
\* that a stopped thread holds, and reading the task directory ends.
TriggerEnds == (tool = "attempt") ~> (tool = "idle")

=============================================================================
