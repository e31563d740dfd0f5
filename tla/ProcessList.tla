---------------------------- MODULE ProcessList ----------------------------
(***************************************************************************)
(* ulp trigger over many processes: FOR_EACH_ULP_PROCESS of                *)
(* tools/patches.h, whose iterator finds the processes that have libpulp   *)
(* loaded and match the wildcards, and the loop of trigger_many_processes  *)
(* that patches each of them and adds up the outcomes.                     *)
(*                                                                         *)
(* The list is generated by a thread of its own that sends the processes   *)
(* through the queue of module PcQueue and NULL at the end ("thread"), by  *)
(* the main thread itself when threads are disabled ("direct"), or it is   *)
(* the one process the user named ("pid").                                 *)
(***************************************************************************)
EXTENDS PcQueue, FiniteSets

CONSTANTS
  Pid,   \* the processes of /proc
  File   \* the live patches in the folder the user named and its subfolders

ASSUME ProcessListAssumption ==
  /\ Elem = Pid \cup {NULL}
  /\ NULL \notin Pid
  /\ IsFiniteSet(File)

VARIABLES
  mode,     \* "thread", "direct" or "pid"
  wanted,   \* processes that match and have libpulp loaded
  dir,      \* entries of /proc not read yet
  last,     \* it->last
  listed,   \* processes in the list that starts at it->last
  gen,      \* where generate_ulp_list_thread is
  now,      \* it->now
  main,     \* where the main thread is
  wild,     \* the user gave a wildcard of live patches, not one file
  visited,  \* the processes the body of the loop ran for, in order
  results,  \* it->now->results: how often each error was annotated, up to 2
  failures, \* the counter of trigger_many_processes
  failed,   \* history: processes in which a live patch failed, not skippably
  result    \* `ret` of trigger_many_processes: "ENONE" or "ERROR"

listVars  == <<mode, wanted, dir, last, listed, gen>>
batchVars == <<wild, visited, results, failures, failed, result>>
vars      == <<queueVars, listVars, now, main, batchVars>>

\* What trigger_one_process may return. EAPPLIED stands for the skippable
\* errors that print_patched_unpatched does not hide, EUNKNOWN for the others.
ulp_error_t == {"ENONE", "EBUILDID", "ENOTARGETLIB", "EAPPLIED", "EUNKNOWN"}

NoResults == [e \in ulp_error_t |-> 0]

\* The memory of the queue is not initialized. One garbage value for all slots
\* is enough here: RingIsChannel of PcQueueProofs holds for any.
Init ==
  /\ QueueInit /\ \A i, j \in 0..(N - 1) : elem[i] = elem[j]
  /\ mode \in {"thread", "direct", "pid"}
  /\ wanted \in SUBSET Pid /\ dir = Pid
  /\ last = NULL /\ listed = {} /\ gen = "off"
  /\ now = NULL /\ main = "begin"
  /\ wild \in BOOLEAN /\ visited = <<>> /\ results = NoResults
  /\ failures = 0 /\ failed = {} /\ result = "ENONE"

-----------------------------------------------------------------------------
(***************************************************************************)
(* generate_ulp_list_thread.                                               *)
(***************************************************************************)

\* insert_target_process: on failure the list is as it was.
Insert(p) ==
  \/ last' = p /\ listed' = listed \cup {p}
  \/ UNCHANGED <<last, listed>>

\* The direct caller gets its answer.
Answer(p) == gen' = "off" /\ now' = p /\ main' = "end"

\* Mutant of Generate: a process that does not match ends the scan.
Generate_stops ==
  /\ gen = "scan"
  /\ \E p \in dir :
       /\ dir' = dir \ {p}
       /\ IF p \in wanted THEN Insert(p) ELSE UNCHANGED <<last, listed>>
       /\ IF mode = "thread"
            THEN /\ gen' = IF p \in wanted THEN "enqueue" ELSE "finish"
                 /\ UNCHANGED <<now, main>>
            ELSE Answer(IF p \in wanted THEN last' ELSE NULL)
  /\ UNCHANGED <<queueVars, mode, wanted, batchVars>>

\* An entry of /proc: it is skipped, or it->last goes to the caller, whether
\* the process could be inserted or not.
Generate ==
  /\ gen = "scan"
  /\ \E p \in dir :
       /\ dir' = dir \ {p}
       /\ IF p \notin wanted
            THEN UNCHANGED <<last, listed, gen, now, main>>
            ELSE /\ Insert(p)
                 /\ IF mode = "thread"
                      THEN gen' = "enqueue" /\ UNCHANGED <<now, main>>
                      ELSE Answer(last')
  /\ UNCHANGED <<queueVars, mode, wanted, batchVars>>

\* Mutant of GenerateEnd: the end of the directory is taken for an error and
\* tried again.
GenerateEnd_again ==
  /\ gen = "scan" /\ dir = {}
  /\ UNCHANGED vars

\* No more entries.
GenerateEnd ==
  /\ gen = "scan" /\ dir = {}
  /\ IF mode = "thread" THEN gen' = "finish" /\ UNCHANGED <<now, main>>
                        ELSE Answer(NULL)
  /\ UNCHANGED <<queueVars, mode, wanted, dir, last, listed, batchVars>>

Enqueue ==
  /\ \/ gen = "enqueue" /\ EnqueueWait(last) /\ UNCHANGED gen
     \/ gen = "finish" /\ EnqueueWait(NULL) /\ UNCHANGED gen
     \/ EnqueueStore /\ UNCHANGED gen
     \/ EnqueuePost /\ gen' = IF gen = "enqueue" THEN "scan" ELSE "done"
  /\ UNCHANGED <<mode, wanted, dir, last, listed, now, main, batchVars>>

-----------------------------------------------------------------------------
(***************************************************************************)
(* The main thread.                                                        *)
(***************************************************************************)

process_list_begin ==
  /\ main = "begin"
  /\ \/ /\ mode = "pid" /\ \E p \in Pid : Insert(p)
        /\ now' = last' /\ main' = "end"
        /\ UNCHANGED gen
     \/ /\ mode = "thread"
        /\ gen' = "scan" /\ main' = "next"
        /\ UNCHANGED <<last, listed, now>>
     \/ /\ mode = "direct"
        /\ main' = "next"
        /\ UNCHANGED <<last, listed, gen, now>>
  /\ UNCHANGED <<queueVars, mode, wanted, dir, batchVars>>

process_list_next ==
  \/ /\ main = "next" /\ mode = "pid"
     /\ now' = NULL /\ main' = "end"
     /\ UNCHANGED <<queueVars, listVars, batchVars>>
  \/ /\ main = "next" /\ mode = "direct"
     /\ gen' = "scan" /\ main' = "call"
     /\ UNCHANGED <<queueVars, mode, wanted, dir, last, listed, now, batchVars>>
  \/ /\ main = "next" /\ mode = "thread"
     /\ \/ DequeueWait /\ UNCHANGED <<now, main>>
        \/ DequeueLoad /\ UNCHANGED <<now, main>>
        \/ DequeuePost /\ now' = got /\ main' = "end"
     /\ UNCHANGED <<listVars, batchVars>>

\* Mutant of process_list_end: does not wait for the thread.
process_list_end_nojoin ==
  /\ main = "end"
  /\ main' = IF now # NULL THEN "body" ELSE "done"
  /\ UNCHANGED <<queueVars, listVars, now, batchVars>>

\* The end of the list: wait for the thread, then delete the queue.
process_list_end ==
  \/ /\ main = "end"
     /\ main' = CASE now # NULL -> "body"
                  [] now = NULL /\ mode = "thread" -> "join"
                  [] OTHER -> "done"
     /\ UNCHANGED <<queueVars, listVars, now, batchVars>>
  \/ /\ main = "join" /\ gen = "done"
     /\ main' = "done"
     /\ UNCHANGED <<queueVars, listVars, now, batchVars>>

-----------------------------------------------------------------------------
(***************************************************************************)
(* The body of the loop: trigger_many_processes.                           *)
(***************************************************************************)

skippable_error(e) == e \in {"EBUILDID", "ENOTARGETLIB", "EAPPLIED"}

\* The errors that the report hides behind any other.
Minor == {"EBUILDID", "ENOTARGETLIB"}

\* The flags of what the live patches of one folder returned.
trigger_many_ulps(es) ==
  {IF e = "ENONE" THEN "SUCCESS"
   ELSE IF skippable_error(e) THEN "SKIPPED" ELSE "ERROR" : e \in es}

\* One process, and what the live patches do to it: the one file the user
\* named, or all that match a wildcard, where `top` lie in the folder itself
\* and the others in subfolders, of which what trigger_many_ulps returned is
\* not looked at. A process that comes again keeps the results of before. With
\* a wildcard a failure is counted but does not reach `ret`.
TriggerProcess ==
  /\ main = "body"
  /\ visited' = Append(visited, now)
  /\ \E files \in SUBSET File : \E top \in SUBSET files :
     \E out \in [files -> ulp_error_t] :
       LET again  == visited # <<>> /\ visited[Len(visited)] = now
           old(e) == IF again THEN results[e] ELSE 0
           flags  == trigger_many_ulps({out[f] : f \in top})
           bad    == {f \in files : trigger_many_ulps({out[f]}) = {"ERROR"}}
       IN  /\ ~wild => Cardinality(files) = 1 /\ top = files
           /\ results' = [e \in ulp_error_t |->
                 LET n == old(e) + Cardinality({f \in files : out[f] = e})
                 IN  IF n > 2 THEN 2 ELSE n]
           /\ failures' = failures + (IF "ERROR" \in flags THEN 1 ELSE 0)
           /\ result' = IF ~wild /\ bad # {} THEN "ERROR" ELSE result
           /\ failed' = IF bad = {} THEN failed ELSE failed \cup {now}
  /\ main' = "next"
  /\ UNCHANGED <<queueVars, listVars, now, wild>>

\* Mutant of print_patched_unpatched: several results are summarized as one.
print_patched_unpatched_one(rs, summarize) ==
  LET important == {e \in ulp_error_t : rs[e] > 0} \ Minor
      e == CHOOSE e \in important : TRUE
  IN  IF important = {} THEN {}
      ELSE {IF e = "ENONE" THEN "SUCCESS" ELSE IF e = "EAPPLIED" THEN "SKIPPED" ELSE "FAILED"}

\* What is printed of a process: one verdict if a single result matters,
\* nothing if no live patch was meant for it, else a verdict per result.
print_patched_unpatched(rs, summarize) ==
  LET tried     == {e \in ulp_error_t : rs[e] > 0}
      important == tried \ Minor
      single    == important # {} /\ \A e \in important :
                      important = {e} /\ rs[e] = 1
      verdict(e) == CASE e = "ENONE" -> "SUCCESS"
                      [] e \in Minor -> "SKIPPED"
                      [] OTHER -> "FAILED"
  IN  CASE important = {} /\ Cardinality(tried) < 2 -> {}
        [] summarize /\ single -> {IF e = "EAPPLIED" THEN "SKIPPED" ELSE verdict(e) :
                                     e \in important}
        [] OTHER -> {verdict(e) : e \in IF summarize /\ important # {}
                                           THEN important ELSE tried}

-----------------------------------------------------------------------------

GenStep == Generate \/ GenerateEnd \/ Enqueue

MainStep ==
  process_list_begin \/ process_list_next \/ process_list_end \/ TriggerProcess

Finished == main = "done" /\ UNCHANGED vars

Next == GenStep \/ MainStep \/ Finished

\* Both threads of the tool are scheduled.
Fairness == WF_vars(GenStep) /\ WF_vars(MainStep)

Spec == Init /\ [][Next]_vars /\ Fairness

-----------------------------------------------------------------------------
(***************************************************************************)
(* Properties.                                                             *)
(***************************************************************************)

\* Some process that matches could not be inserted.
InsertFailed ==
  IF mode = "pid" THEN main # "begin" /\ last = NULL
                  ELSE \E p \in wanted \ dir : p \notin listed

\* The loop runs for every process that could be inserted, unless the very
\* first insertion failed and nothing is visited at all: after a later failure
\* it->last is handed out a second time, right behind the first, so that a
\* process is visited once for itself and once for each failure behind it
\* (generate_ulp_list_thread ignores what insert_target_process returned).
AllVisited ==
  main = "done" /\ mode # "pid" =>
     IF visited = <<>> THEN wanted = {} \/ InsertFailed
     ELSE /\ {visited[k] : k \in DOMAIN visited} = listed
          /\ Len(visited) = Cardinality(wanted)
          /\ \A j, k \in DOMAIN visited : \A i \in j .. k :
               visited[j] = visited[k] => visited[i] = visited[j]

\* Nothing is freed under the generator thread. process_list_end frees the
\* list before it joins the thread, which inserts at the head of that list:
\* if all processes could be inserted, the thread is then past its last
\* insertion. The queue is deleted when the thread is gone ("Make sure the
\* threads stopped before destroying the queue").
ReleasedUnused ==
  /\ main \in {"join", "done"} /\ ~InsertFailed =>
        gen \in {"off", "finish", "done"}
  /\ main = "done" => put = "out" /\ get = "out" /\ gen \in {"off", "done"}

\* The report of a process, in short or in full, says FAILED if some live patch
\* failed in it, in the folder or in a subfolder, whatever else went well or was
\* skipped there, and also when the process comes a second time. (That is all
\* that tells of a failure behind a wildcard: the exit status is 0 then.)
FailureReported ==
  visited # <<>> /\ visited[Len(visited)] \in failed =>
    \A summarize \in BOOLEAN : "FAILED" \in print_patched_unpatched(results, summarize)

\* The loop ends if all processes could be inserted: no thread waits for the
\* other for ever, however small the queue is. (After a failed insertion the
\* main thread may find a NULL early and join the generator thread, while that
\* one waits for a free slot.)
IterationEnds == <>(main = "done" \/ InsertFailed)

=============================================================================
