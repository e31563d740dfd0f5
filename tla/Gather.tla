------------------------------- MODULE Gather -------------------------------
(***************************************************************************)
(* What the ulp tool learns of a process before it works on it             *)
(* (initialize_data_structures of tools/introspection.c), and what it then *)
(* decides with it: whether a live patch is for this process               *)
(* (check_patch_sanity), or which libraries `ulp patches` reports.         *)
(*                                                                         *)
(* Only the main thread is stopped meanwhile. The dynamic loader, in other *)
(* threads, links objects into the list of link_maps that is being read,   *)
(* unlinks them, frees their nodes, and uses nodes and addresses again.    *)
(***************************************************************************)
EXTENDS Naturals, Sequences, FiniteSets

CONSTANTS
  Obj,        \* shared objects the process may load; each has a build id of its own
  Pulp,       \* libpulp.so, loaded at startup or never
  Target,     \* the object a live patch was made for
  Name,       \* file names of objects
  PulpNamed,  \* the objects whose path contains "libpulp.so"
  Hash,       \* the objects that have a DT_HASH, hence a number of symbols
  Nops,       \* the objects with a function that begins with nops
  Beyond,     \* those of them with none among the first 8000 symbols
  Patched,    \* the objects whose name is in the list of applied patches
  Node,       \* addresses of link_map nodes
  Base,       \* load addresses
  NULL,
  MaxChanges  \* bound of dlopen and dlclose

\* What a freed node or string is taken for.
Junk == "junk"

ASSUME GatherAssumption ==
  /\ {Pulp, Target} \subseteq Obj /\ Pulp \in Hash /\ Pulp # Target
  /\ Hash \subseteq Obj /\ Nops \subseteq Obj /\ Beyond \subseteq Nops /\ Patched \subseteq Obj
  /\ NULL \notin Obj \cup Node \cup Base /\ Junk \notin Obj
  /\ Pulp \in PulpNamed /\ Target \notin PulpNamed /\ PulpNamed \subseteq Obj
  /\ DOMAIN Name = Obj \cup {Junk} /\ Name[Junk] \notin {Name[o] : o \in Obj}
  /\ MaxChanges \in Nat

VARIABLES
  phase,    \* of the process: "exec", "starting", "running", "dead"
  node,     \* the object of every link_map node; NULL where it is free
  next,     \* l_next of every node, kept when the node is freed; next[NULL] is
            \* that of the main program
  mapped,   \* the object at every load address
  changes,  \* number of dlopen and dlclose so far
  pc,       \* where the tool is
  mode,     \* "trigger" or "patches": what the data is for
  stopped,  \* the main thread is attached
  cur,      \* address of the node to read
  held,     \* the copy of a link_map whose name is not read yet
  targets,  \* process->dynobj_targets, oldest first (the code has newest first)
  pulp,     \* process->dynobj_libpulp, an index of targets; 0 for NULL
  i,        \* the object the tool is at, counted down
  applied,  \* the list of applied patches was read
  listed,   \* the indices `ulp patches` reports
  ret,      \* outcome so far
  always,   \* history: the objects loaded ever since the attach
  cut,      \* history: a node the walk was about to read was freed
  denied    \* history: an attach or a detach of `ulp patches` failed

procVars == <<phase, node, next, mapped, changes>>
walkVars == <<cur, held, targets, pulp>>
toolVars == <<pc, mode, stopped, walkVars, i, applied, listed, ret>>
histVars == <<always, cut, denied>>
vars     == <<procVars, toolVars, histVars>>

Loaded   == {node[n] : n \in Node} \ {NULL}
Alive    == phase # "dead"
BaseOf(o) == CHOOSE b \in Base : mapped[b] = o

\* strstr(libname, "libpulp.so")
PulpName(name) == \E o \in PulpNamed : Name[o] = name

Init ==
  /\ phase = "exec"
  /\ node = [n \in Node |-> NULL]
  /\ next = [n \in Node \cup {NULL} |-> NULL]
  /\ mapped = [b \in Base \cup {NULL} |-> NULL]
  /\ changes = 0
  /\ pc = "find" /\ mode \in {"trigger", "patches"} /\ stopped = FALSE
  /\ cur = NULL /\ held = NULL /\ targets = <<>> /\ pulp = 0
  /\ i = 0 /\ applied = FALSE /\ listed = {} /\ ret = "ok"
  /\ always = {} /\ cut = FALSE /\ denied = FALSE

-----------------------------------------------------------------------------
(***************************************************************************)
(* The process.                                                            *)
(***************************************************************************)

\* The last node of the list.
LastNode == CHOOSE n \in Node \cup {NULL} :
           /\ n = NULL \/ node[n] # NULL
           /\ next[n] = NULL

FreeNode == {n \in Node : node[n] = NULL}
FreeBase == {b \in Base : mapped[b] = NULL}

\* An object is mapped and linked at the end of the list.
Link(o, n, b) ==
  /\ o \notin Loaded
  /\ node' = [node EXCEPT ![n] = o]
  /\ next' = [next EXCEPT ![n] = NULL, ![LastNode] = n]
  /\ mapped' = [mapped EXCEPT ![b] = o]

\* execve is done: r_debug, and with it the list, can be found.
SetDebug ==
  /\ phase = "exec" /\ ~stopped
  /\ phase' = "starting"
  /\ UNCHANGED <<node, next, mapped, changes, toolVars, histVars>>

\* The loader, in the only thread there is, loads libpulp and the libraries of
\* the program and then runs their constructors. (No address was used before, so
\* it does not matter which ones it takes.)
Startup(o) ==
  /\ phase = "starting" /\ ~stopped /\ FreeNode # {} /\ FreeBase # {}
  /\ Link(o, CHOOSE n \in FreeNode : TRUE, CHOOSE b \in FreeBase : TRUE)
  /\ UNCHANGED <<phase, changes, toolVars, histVars>>

Constructors ==
  /\ phase = "starting" /\ ~stopped
  /\ phase' = "running"
  /\ UNCHANGED <<node, next, mapped, changes, toolVars, histVars>>

dlopen(o) ==
  /\ phase = "running" /\ changes < MaxChanges /\ o # Pulp
  /\ \E n \in FreeNode, b \in FreeBase : Link(o, n, b)
  /\ changes' = changes + 1
  /\ UNCHANGED <<phase, toolVars, histVars>>

\* The nodes whose address the tool has and has not followed yet.
Ahead ==
  CASE pc = "walk" -> {cur} [] pc = "name" -> {held.next} \cup {held.at}
    [] OTHER -> {}

\* The object is unmapped, its node unlinked and freed. The memory keeps l_next.
dlclose(n) ==
  /\ phase = "running" /\ changes < MaxChanges /\ node[n] \notin {NULL, Pulp}
  /\ LET before == CHOOSE m \in Node \cup {NULL} :
                     (m = NULL \/ node[m] # NULL) /\ next[m] = n
     IN  next' = [next EXCEPT ![before] = next[n]]
  /\ node' = [node EXCEPT ![n] = NULL]
  /\ mapped' = [mapped EXCEPT ![BaseOf(node[n])] = NULL]
  /\ changes' = changes + 1
  /\ always' = always \ {node[n]} /\ cut' = (cut \/ n \in Ahead)
  /\ UNCHANGED <<phase, toolVars, denied>>

\* Another thread exits the process, or it is killed.
Exit ==
  /\ phase = "running"
  /\ phase' = "dead" /\ always' = {}
  /\ UNCHANGED <<node, next, mapped, changes, toolVars, cut, denied>>

Process ==
  \/ SetDebug \/ (\E o \in Obj : Startup(o) \/ dlopen(o)) \/ Constructors
  \/ (\E n \in Node : dlclose(n)) \/ Exit

-----------------------------------------------------------------------------
(***************************************************************************)
(* The tool: initialize_data_structures.                                   *)
(***************************************************************************)

\* has_libpulp_loaded; it is not asked when the user gives a PID.
Find ==
  /\ pc = "find"
  /\ \/ pc' = "attach" /\ UNCHANGED ret
     \/ (~Alive \/ \A o \in Loaded : ~PulpName(Name[o])) /\ pc' = "done" /\ ret' = "ENOLIBPULP"
  /\ UNCHANGED <<procVars, mode, stopped, walkVars, i, applied, listed, histVars>>

\* attach; without it the tool goes on to detach.
attach ==
  /\ pc = "attach"
  /\ \/ Alive /\ stopped' = TRUE /\ pc' = "main" /\ UNCHANGED ret
     \/ pc' = "detach" /\ ret' = "ETARGETHOOK" /\ UNCHANGED stopped
  /\ always' = IF Alive THEN Loaded ELSE {}
  /\ UNCHANGED <<procVars, mode, walkVars, i, applied, listed, cut, denied>>

\* Whether the address of the list can be read: not before the loader has
\* stored that of r_debug.
dig_main_link_map == Alive /\ phase # "exec"

\* Mutant of parse_main_dynobj: the walk begins one node too late.
parse_main_dynobj_late ==
  /\ pc = "main"
  /\ IF dig_main_link_map
       THEN cur' = next[next[NULL]] /\ pc' = "walk" /\ UNCHANGED ret
       ELSE pc' = "detach" /\ ret' = "ETARGETHOOK" /\ UNCHANGED cur
  /\ UNCHANGED <<procVars, mode, stopped, held, targets, pulp, i, applied, listed, histVars>>

\* The link_map of the program is found and copied. (Its headers are read; that
\* this failed is ignored.)
parse_main_dynobj ==
  /\ pc = "main"
  /\ IF dig_main_link_map
       THEN cur' = next[NULL] /\ pc' = "walk" /\ UNCHANGED ret
       ELSE pc' = "detach" /\ ret' = "ETARGETHOOK" /\ UNCHANGED cur
  /\ UNCHANGED <<procVars, mode, stopped, held, targets, pulp, i, applied, listed, histVars>>

\* Mutant of CopyLinkMap: a node that cannot be read is tried again.
CopyLinkMap_retry ==
  /\ pc = "walk" /\ cur # NULL /\ Alive
  /\ pc' = "name"
  /\ held' = [at |-> cur, next |-> next[cur],
              obj  |-> IF node[cur] # NULL THEN node[cur] ELSE Junk,
              base |-> IF node[cur] # NULL THEN BaseOf(node[cur]) ELSE NULL]
  /\ UNCHANGED <<procVars, mode, stopped, cur, targets, pulp, i, applied, listed, ret, histVars>>

\* get_libname_dynobj: the node is copied. A freed one can be read, with what
\* is left in it, or not; what cannot be read ends the walk, as NULL does.
CopyLinkMap ==
  /\ pc = "walk" /\ cur # NULL
  /\ \/ /\ Alive /\ pc' = "name"
        /\ held' = [at |-> cur, next |-> next[cur],
                    obj  |-> IF node[cur] # NULL THEN node[cur] ELSE Junk,
                    base |-> IF node[cur] # NULL THEN BaseOf(node[cur]) ELSE NULL]
     \/ (~Alive \/ node[cur] = NULL) /\ pc' = "libpulp" /\ UNCHANGED held
  /\ UNCHANGED <<procVars, mode, stopped, cur, targets, pulp, i, applied, listed, ret, histVars>>

EndOfList ==
  /\ pc = "walk" /\ cur = NULL
  /\ pc' = "libpulp"
  /\ UNCHANGED <<procVars, mode, stopped, walkVars, i, applied, listed, ret, histVars>>

\* What is known of an object that was listed; `obj` is history.
Dynobj(name, h) ==
  [obj |-> h.obj, name |-> name, base |-> h.base, build |-> NULL,
   syms |-> FALSE, state |-> FALSE]

\* get_libname_dynobj: the name is read and the object listed; the walk goes on
\* where the copy says. The last object with the name of libpulp is libpulp.
ReadName ==
  /\ pc = "name"
  /\ \/ \E o \in {held.obj} \cup (IF held.obj \in Loaded THEN {} ELSE {Junk}) :
          /\ Alive
          /\ targets' = Append(targets, Dynobj(Name[o], held))
          /\ pulp' = IF PulpName(Name[o]) THEN Len(targets) + 1 ELSE pulp
          /\ cur' = held.next /\ pc' = "walk"
     \/ /\ ~Alive \/ held.obj \notin Loaded
        /\ pc' = "libpulp" /\ UNCHANGED <<targets, pulp, cur>>
  /\ held' = NULL
  /\ UNCHANGED <<procVars, mode, stopped, i, applied, listed, ret, histVars>>

\* parse_dynobj_elf_headers: symbol table and build id of what is mapped at the
\* load address by now; without DT_HASH there are no symbols.
parse_dynobj_elf_headers(t) ==
  LET o == mapped[t.base]
  IN  IF ~Alive \/ o = NULL THEN t
      ELSE [t EXCEPT !.build = o, !.syms = o \in Hash]

\* get_libpulp_extern_symbols: only libpulp has the symbol __ulp_state.
get_libpulp_extern_symbols(t) ==
  [t EXCEPT !.state = Alive /\ t.syms /\ mapped[t.base] = Pulp]

\* parse_lib_dynobj; nothing is read twice.
parse_lib_dynobj(t) ==
  IF t.syms THEN t
  ELSE LET u == parse_dynobj_elf_headers(t)
       IN  IF PulpName(t.name) THEN get_libpulp_extern_symbols(u) ELSE u

\* parse_libs_dynobj, after the walk: libpulp first.
ParseLibpulp ==
  /\ pc = "libpulp"
  /\ IF pulp = 0
       THEN pc' = "detach" /\ ret' = "ENOLIBPULP" /\ UNCHANGED <<targets, i>>
       ELSE /\ targets' = [targets EXCEPT ![pulp] = parse_lib_dynobj(@)]
            /\ i' = Len(targets) /\ pc' = "libs" /\ UNCHANGED ret
  /\ UNCHANGED <<procVars, mode, stopped, cur, held, pulp, applied, listed, histVars>>

\* Mutant of ParseLib: dynobj_libpulp stays what the walk found.
ParseLib_named ==
  /\ pc = "libs" /\ i > 0
  /\ LET t == IF i = pulp THEN targets[i] ELSE parse_lib_dynobj(targets[i])
     IN  targets' = [targets EXCEPT ![i] = t]
  /\ i' = i - 1
  /\ UNCHANGED <<procVars, pc, mode, stopped, cur, held, pulp, applied, listed, ret, histVars>>

\* Then the others, newest first; one that has libpulp's symbols is libpulp.
ParseLib ==
  /\ pc = "libs" /\ i > 0
  /\ LET t == IF i = pulp THEN targets[i] ELSE parse_lib_dynobj(targets[i])
     IN  /\ targets' = [targets EXCEPT ![i] = t]
         /\ pulp' = IF t.state THEN i ELSE pulp
  /\ i' = i - 1
  /\ UNCHANGED <<procVars, pc, mode, stopped, cur, held, applied, listed, ret, histVars>>

\* load_state is read: it is set by libpulp's constructor.
ReadState ==
  /\ pc = "libs" /\ i = 0
  /\ ret' = IF phase = "running" /\ targets[pulp].state THEN "ok" ELSE "EAGAIN"
  /\ pc' = "detach"
  /\ UNCHANGED <<procVars, mode, stopped, walkVars, i, applied, listed, histVars>>

detach ==
  /\ pc = "detach"
  /\ stopped' = FALSE
  /\ pc' = IF ret = "ok" THEN mode ELSE "done"
  /\ UNCHANGED <<procVars, mode, walkVars, i, applied, listed, ret, histVars>>

-----------------------------------------------------------------------------
(***************************************************************************)
(* What the data is used for.                                              *)
(***************************************************************************)

Named   == {k \in DOMAIN targets : targets[k].name = Name[Target]}
Matches == {k \in Named : targets[k].build = Target}

\* One object has to have the name and the build id that the live patch is for.
\* (Before that, the functions of the patch are looked up in its container.)
check_patch_sanity ==
  /\ pc = "trigger"
  /\ \/ ret' = IF Matches # {} THEN "ok"
               ELSE IF Named # {} THEN "EBUILDID" ELSE "ENOTARGETLIB"
     \/ ret' = "EUNKNOWN"
  /\ pc' = "done"
  /\ UNCHANGED <<procVars, mode, stopped, walkVars, i, applied, listed, histVars>>

\* ulp_read_state: the list of applied patches is read, after another attach; a
\* process without one is left out if the user wants only those that have one.
ulp_read_state ==
  /\ pc = "patches"
  /\ applied' \in {FALSE, Alive} /\ denied' = ~applied'
  /\ \/ i' = Len(targets) /\ pc' = "report" /\ UNCHANGED ret
     \/ /\ Patched = {} \/ ~applied'
        /\ pc' = "done" /\ ret' = "unpatched" /\ UNCHANGED i
  /\ UNCHANGED <<procVars, mode, stopped, walkVars, listed, always, cut>>

PatchedName(name) == \E o \in Patched : Name[o] = name

\* Mutant of is_library_livepatchable: the symbols are taken to be those of the
\* object that was loaded last.
is_library_livepatchable_last(t) ==
  IF applied /\ PatchedName(t.name) THEN {TRUE}
  ELSE IF ~t.syms THEN BOOLEAN
  ELSE {Alive /\ mapped[targets[Len(targets)].base] \in Nops \ Beyond}

\* is_library_livepatchable: the list of patches knows the name, or one of the
\* first 8000 symbols has the nops. Without symbols the result is not initialised.
is_library_livepatchable(t) ==
  IF applied /\ PatchedName(t.name) THEN {TRUE}
  ELSE IF ~t.syms THEN BOOLEAN
  ELSE {Alive /\ mapped[t.base] \in Nops \ Beyond}

\* print_process, one object after the other. Looking at the symbols takes an
\* attach and a detach, too; if one of them fails the object is not reported.
print_process ==
  /\ pc = "report"
  /\ IF i = 0
       THEN pc' = "done" /\ UNCHANGED <<i, listed, denied>>
       ELSE /\ i' = i - 1 /\ UNCHANGED pc
            /\ \/ /\ \E b \in is_library_livepatchable(targets[i]) :
                       listed' = IF b THEN listed \cup {i} ELSE listed
                  /\ UNCHANGED denied
               \/ /\ ~(applied /\ PatchedName(targets[i].name))
                  /\ denied' = TRUE /\ UNCHANGED listed
  /\ UNCHANGED <<procVars, mode, stopped, walkVars, applied, ret, always, cut>>

Tool ==
  \/ Find \/ attach \/ parse_main_dynobj \/ CopyLinkMap \/ ReadName \/ EndOfList
  \/ ParseLibpulp \/ ParseLib \/ ReadState \/ detach
  \/ check_patch_sanity \/ ulp_read_state \/ print_process

Next == Process \/ Tool

\* The tool is scheduled, and no call it makes blocks for ever.
Spec == Init /\ [][Next]_vars /\ WF_vars(Tool)

-----------------------------------------------------------------------------
(***************************************************************************)
(* Properties.                                                             *)
(***************************************************************************)

Listed == {targets[k].obj : k \in DOMAIN targets}

\* Whatever is loaded and unloaded during the walk of the link map, the objects
\* that are there all the time are listed, unless the very node the tool was
\* about to read was freed (get_libname_dynobj).
ListedAll ==
  pc \in {"libpulp", "libs", "trigger", "patches", "report"} /\ ~cut => always \subseteq Listed

\* A process that is ready is not refused for want of libpulp, and check_patch_sanity
\* refuses none that has the library, in the right build, all the time; unless
\* the walk was cut short.
RefusedRightly ==
  ~cut =>
    /\ pc = "detach" /\ phase = "running" /\ ret \in {"ENOLIBPULP", "EAGAIN"} =>
         Pulp \notin always
    /\ pc = "done" /\ ret \in {"ENOTARGETLIB", "EBUILDID"} => Target \notin always

\* Of the libraries that are there all the time and whose symbols were found,
\* `ulp patches` reports none that can not be and has not been live patched. It
\* reports all that were patched, and all that can be with a function among the
\* first 8000 symbols, provided every attach and detach of it succeeded
\* (is_library_livepatchable, with addresses gathered while objects moved).
ReportedRightly ==
  pc = "done" /\ mode = "patches" /\ ret = "ok" =>
    \A k \in DOMAIN targets :
       LET t == targets[k]
       IN  t.obj \in always /\ t.syms =>
             /\ k \in listed => t.obj \in Nops \/ PatchedName(t.name)
             /\ t.obj \in Nops \ Beyond \/ PatchedName(t.name) => denied \/ k \in listed

\* Gathering and what follows it come to an end, even if the walk runs through
\* nodes that were freed and used again.
GatheringEnds == <>(pc = "done")

=============================================================================
