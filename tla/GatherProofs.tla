---------------------------- MODULE GatherProofs ----------------------------
(***************************************************************************)
(* What the tool learns of a process, for every set of objects, nodes and  *)
(* addresses and however often the loader changes the list meanwhile.      *)
(***************************************************************************)
EXTENDS Gather, TLAPS

-----------------------------------------------------------------------------
(***************************************************************************)
(* Types and the memory of the process.                                    *)
(***************************************************************************)

Object == Obj \cup {Junk}

\* A copy of a link_map, and what is known of an object.
LinkMap == [at : Node, next : Node \cup {NULL}, obj : Object, base : Base \cup {NULL}]
Entry   == [obj : Object, name : {Name[o] : o \in Object}, base : Base \cup {NULL},
            build : Obj \cup {NULL}, syms : BOOLEAN, state : BOOLEAN]

ProcessType ==
  /\ phase \in {"exec", "starting", "running", "dead"}
  /\ node \in [Node -> Obj \cup {NULL}]
  /\ next \in [Node \cup {NULL} -> Node \cup {NULL}]
  /\ mapped \in [Base \cup {NULL} -> Obj \cup {NULL}]
  /\ always \subseteq Obj

ToolType ==
  /\ pc \in {"find", "attach", "main", "walk", "name", "libpulp", "libs", "detach",
             "trigger", "patches", "report", "done"}
  /\ mode \in {"trigger", "patches"} /\ stopped \in BOOLEAN
  /\ cur \in Node \cup {NULL}
  /\ pc = "name" => held \in LinkMap
  /\ targets \in Seq(Entry)
  /\ pulp \in 0..Len(targets) /\ i \in 0..Len(targets)
  /\ cut \in BOOLEAN /\ applied \in BOOLEAN /\ denied \in BOOLEAN

\* No object is linked twice, all that are linked are mapped; what was there all
\* the time is there.
MemInv ==
  /\ \A m, n \in Node : node[m] # NULL /\ node[m] = node[n] => m = n
  /\ \A o \in Loaded : \E b \in Base : mapped[b] = o
  /\ always \subseteq Loaded
  /\ ~Alive => always = {}
  /\ pc \in {"find", "attach"} => always = {}

\* The process runs its constructors, and goes from one list to another, only
\* while the main thread is not stopped.
ControlInv ==
  /\ pc \in {"main", "walk", "name", "libpulp", "libs"} => stopped
  /\ pc = "detach" /\ ret # "ETARGETHOOK" => stopped
  /\ pc \in {"find", "attach", "main"} => targets = << >> /\ pulp = 0
  /\ pc # "done" => ret \notin {"ENOTARGETLIB", "EBUILDID"}

StateInv == ProcessType /\ ToolType /\ MemInv /\ ControlInv

\* What the assumption on the constants says.
LEMMA GatherFacts ==
  /\ Pulp \in Obj /\ Target \in Obj /\ Pulp \in Hash /\ Pulp \in PulpNamed
  /\ NULL \notin Obj /\ NULL \notin Node /\ NULL \notin Base /\ Junk \notin Obj
BY GatherAssumption

\* An object that is linked is mapped where BaseOf says.
LEMMA BaseOfLoaded ==
  ASSUME MemInv, NEW o \in Loaded
  PROVE  BaseOf(o) \in Base /\ mapped[BaseOf(o)] = o
<1>1. \E b \in Base : mapped[b] = o
  BY DEF MemInv
<1> QED BY <1>1 DEF BaseOf

\* What Link does to the memory, wherever it takes node and address from.
LEMMA LinkMem ==
  ASSUME ProcessType, MemInv, NEW o \in Obj, NEW n \in Node, NEW b \in Base,
         node[n] = NULL, mapped[b] = NULL, Link(o, n, b)
  PROVE  /\ node' \in [Node -> Obj \cup {NULL}] /\ mapped' \in [Base \cup {NULL} -> Obj \cup {NULL}]
         /\ Loaded' = Loaded \cup {o} /\ o \notin Loaded
         /\ \A m, k \in Node : node'[m] # NULL /\ node'[m] = node'[k] => m = k
         /\ \A p \in Loaded' : \E a \in Base : mapped'[a] = p
         /\ \A a \in Base \cup {NULL} : mapped[a] # NULL => mapped'[a] = mapped[a]
<1> USE GatherFacts
<1>1. /\ o \notin Loaded /\ node' = [node EXCEPT ![n] = o]
      /\ mapped' = [mapped EXCEPT ![b] = o]
  BY DEF Link
<1>2. node' \in [Node -> Obj \cup {NULL}] /\ mapped' \in [Base \cup {NULL} -> Obj \cup {NULL}]
  BY <1>1 DEF ProcessType
<1>3. node'[n] = o /\ (\A m \in Node : m # n => node'[m] = node[m]) /\ mapped'[b] = o
      /\ \A a \in Base \cup {NULL} : a # b => mapped'[a] = mapped[a]
  BY <1>1 DEF ProcessType
<1>4. Loaded' = Loaded \cup {o}
  BY <1>3 DEF Loaded
<1>5. \A m \in Node : node[m] # o
  BY <1>1 DEF Loaded
<1>6. \A m, k \in Node : node'[m] # NULL /\ node'[m] = node'[k] => m = k
  BY <1>3, <1>5 DEF MemInv
<1>7. \A a \in Base \cup {NULL} : mapped[a] # NULL => mapped'[a] = mapped[a]
  BY <1>3
<1>8. \A p \in Loaded' : \E a \in Base : mapped'[a] = p
  <2> SUFFICES ASSUME NEW p \in Loaded' PROVE \E a \in Base : mapped'[a] = p
    OBVIOUS
  <2>1. CASE p = o
    BY <1>3, <2>1
  <2>2. CASE p # o
    <3>1. p \in Loaded
      BY <1>4, <2>2
    <3>2. PICK a \in Base : mapped[a] = p
      BY <3>1 DEF MemInv
    <3>3. p # NULL
      BY <3>1 DEF Loaded
    <3> QED BY <1>7, <3>2, <3>3
  <2> QED BY <2>1, <2>2
<1> QED BY <1>1, <1>2, <1>4, <1>6, <1>7, <1>8

\* What dlclose does to it.
LEMMA CloseMem ==
  ASSUME ProcessType, MemInv, NEW n \in Node, dlclose(n)
  PROVE  /\ node' \in [Node -> Obj \cup {NULL}] /\ mapped' \in [Base \cup {NULL} -> Obj \cup {NULL}]
         /\ node[n] # NULL /\ Loaded' = Loaded \ {node[n]}
         /\ \A m, k \in Node : node'[m] # NULL /\ node'[m] = node'[k] => m = k
         /\ \A p \in Loaded' : \E a \in Base : mapped'[a] = p
         /\ \A a \in Base \cup {NULL} : mapped[a] # node[n] => mapped'[a] = mapped[a]
         /\ always' = always \ {node[n]} /\ always' \subseteq Loaded'
<1> USE GatherFacts
<1>1. /\ node[n] # NULL /\ node[n] \in Loaded /\ node' = [node EXCEPT ![n] = NULL]
      /\ mapped' = [mapped EXCEPT ![BaseOf(node[n])] = NULL]
      /\ always' = always \ {node[n]}
  BY DEF dlclose, Loaded
<1>2. BaseOf(node[n]) \in Base /\ mapped[BaseOf(node[n])] = node[n]
  BY <1>1, BaseOfLoaded
<1>3. node' \in [Node -> Obj \cup {NULL}] /\ mapped' \in [Base \cup {NULL} -> Obj \cup {NULL}]
  BY <1>1, <1>2 DEF ProcessType
<1>4. node'[n] = NULL /\ (\A m \in Node : m # n => node'[m] = node[m])
      /\ \A a \in Base \cup {NULL} : mapped[a] # node[n] => mapped'[a] = mapped[a]
  BY <1>1, <1>2 DEF ProcessType
<1>5. \A m \in Node : m # n => node[m] # node[n]
  BY <1>1 DEF MemInv
<1>6. Loaded' = Loaded \ {node[n]}
  BY <1>4, <1>5 DEF Loaded
<1>7. \A m, k \in Node : node'[m] # NULL /\ node'[m] = node'[k] => m = k
  BY <1>4 DEF MemInv
<1>8. \A p \in Loaded' : \E a \in Base : mapped'[a] = p
  BY <1>4, <1>6 DEF MemInv
<1>9. always' \subseteq Loaded'
  BY <1>1, <1>6 DEF MemInv
<1> QED BY <1>1, <1>3, <1>4, <1>6, <1>7, <1>8, <1>9

\* The node in front of a free place is a node or the program's.
LEMMA LinkNext ==
  ASSUME ProcessType, NEW o, NEW n \in Node, NEW b, Link(o, n, b)
  PROVE  next' \in [Node \cup {NULL} -> Node \cup {NULL}]
BY DEF Link, ProcessType

\* What the loader does, as far as the tool can tell from what it has gathered:
\* what was there all the time is where it was.
LEMMA ProcessEffect ==
  ASSUME StateInv, Process
  PROVE  /\ ProcessType' /\ MemInv'
         /\ UNCHANGED <<toolVars, denied>> /\ (cut => cut') /\ cut' \in BOOLEAN
         /\ always' \subseteq always
         /\ \A b \in Base \cup {NULL} : mapped[b] \in always' => mapped'[b] = mapped[b]
         /\ phase \in {"running", "dead"} => phase' \in {"running", "dead"}
         /\ phase' = "running" /\ phase # "running" => ~stopped
         /\ ~Alive => ~Alive'
<1> USE GatherFacts DEF StateInv
<1>0. NULL \notin always
  BY DEF ProcessType
<1>1. CASE SetDebug \/ Constructors
  <2>1. /\ UNCHANGED <<node, next, mapped, toolVars, histVars>> /\ phase # "dead" /\ ~stopped
        /\ phase' \in {"starting", "running"} /\ phase \in {"exec", "starting"}
    BY <1>1 DEF SetDebug, Constructors
  <2>2. Loaded' = Loaded /\ pc' = pc /\ Alive' /\ Alive
    BY <2>1 DEF Loaded, Alive, toolVars
  <2>3. ProcessType' /\ MemInv'
    BY <2>1, <2>2 DEF ProcessType, MemInv, histVars
  <2> QED BY <2>1, <2>2, <2>3 DEF histVars, ToolType
<1>2. CASE \E o \in Obj : Startup(o) \/ dlopen(o)
  <2>1. PICK o \in Obj, n \in Node, b \in Base :
          Link(o, n, b) /\ node[n] = NULL /\ mapped[b] = NULL
    <3>1. PICK o \in Obj : Startup(o) \/ dlopen(o)
      BY <1>2
    <3>2. CASE Startup(o)
      BY <3>2 DEF Startup, FreeNode, FreeBase
    <3>3. CASE dlopen(o)
      BY <3>3 DEF dlopen, FreeNode, FreeBase
    <3> QED BY <3>1, <3>2, <3>3
  <2>2. UNCHANGED <<phase, toolVars, histVars>> /\ phase \in {"starting", "running"}
    BY <1>2 DEF Startup, dlopen
  <2>3. /\ node' \in [Node -> Obj \cup {NULL}] /\ mapped' \in [Base \cup {NULL} -> Obj \cup {NULL}]
        /\ next' \in [Node \cup {NULL} -> Node \cup {NULL}]
        /\ Loaded' = Loaded \cup {o}
        /\ \A m, k \in Node : node'[m] # NULL /\ node'[m] = node'[k] => m = k
        /\ \A p \in Loaded' : \E a \in Base : mapped'[a] = p
        /\ \A a \in Base \cup {NULL} : mapped[a] # NULL => mapped'[a] = mapped[a]
    BY <2>1, LinkMem, LinkNext
  <2>4. ProcessType' /\ MemInv'
    BY <2>2, <2>3 DEF ProcessType, MemInv, histVars, toolVars, Alive
  <2> QED BY <1>0, <2>2, <2>3, <2>4 DEF histVars, ToolType, Alive
<1>3. CASE \E n \in Node : dlclose(n)
  <2>1. PICK n \in Node : dlclose(n)
    BY <1>3
  <2>2. /\ UNCHANGED <<phase, toolVars, denied>> /\ phase = "running"
        /\ cut' = (cut \/ n \in Ahead)
    BY <2>1 DEF dlclose
  <2>3. /\ node' \in [Node -> Obj \cup {NULL}] /\ mapped' \in [Base \cup {NULL} -> Obj \cup {NULL}]
        /\ \A m, k \in Node : node'[m] # NULL /\ node'[m] = node'[k] => m = k
        /\ \A p \in Loaded' : \E a \in Base : mapped'[a] = p
        /\ \A a \in Base \cup {NULL} : mapped[a] # node[n] => mapped'[a] = mapped[a]
        /\ always' = always \ {node[n]} /\ always' \subseteq Loaded'
    BY <2>1, CloseMem
  <2>4. next' \in [Node \cup {NULL} -> Node \cup {NULL}]
    BY <2>1 DEF dlclose, ProcessType
  <2>5. ProcessType' /\ MemInv'
    BY <2>2, <2>3, <2>4 DEF ProcessType, MemInv, toolVars, Alive
  <2> QED BY <2>2, <2>3, <2>5 DEF ToolType, Alive
<1>4. CASE Exit
  <2>1. /\ UNCHANGED <<node, next, mapped, toolVars, cut, denied>>
        /\ phase' = "dead" /\ phase = "running" /\ always' = {}
    BY <1>4 DEF Exit
  <2>2. ProcessType' /\ MemInv'
    BY <2>1 DEF ProcessType, MemInv, Loaded, Alive
  <2> QED BY <2>1, <2>2 DEF ToolType, Alive
<1> QED BY <1>1, <1>2, <1>3, <1>4 DEF Process

-----------------------------------------------------------------------------
(***************************************************************************)
(* The tool.                                                               *)
(***************************************************************************)

\* What the tool knows of an object stays of its type.
LEMMA ParseType ==
  ASSUME ProcessType, NEW t \in Entry
  PROVE  /\ parse_lib_dynobj(t) \in Entry
         /\ parse_lib_dynobj(t).obj = t.obj /\ parse_lib_dynobj(t).name = t.name
         /\ parse_lib_dynobj(t).base = t.base
<1> DEFINE u == parse_dynobj_elf_headers(t)
<1>1. /\ u \in Entry /\ u.obj = t.obj /\ u.name = t.name /\ u.base = t.base
  <2>1. mapped[t.base] \in Obj \cup {NULL} /\ (mapped[t.base] \in Hash) \in BOOLEAN
    BY DEF ProcessType, Entry
  <2> QED BY <2>1 DEF parse_dynobj_elf_headers, Entry
<1> HIDE DEF u
<1>2. LET v == get_libpulp_extern_symbols(u)
      IN  v \in Entry /\ v.obj = u.obj /\ v.name = u.name /\ v.base = u.base
  <2>1. (Alive /\ u.syms /\ mapped[u.base] = Pulp) \in BOOLEAN
    BY <1>1 DEF Entry
  <2> QED BY <1>1, <2>1 DEF get_libpulp_extern_symbols, Entry
<1> QED BY <1>1, <1>2 DEF parse_lib_dynobj, u

\* Only the attach begins a new history, and the process does not move.
LEMMA ToolFrame ==
  ASSUME Tool
  PROVE  /\ UNCHANGED procVars /\ cut' = cut /\ mode' = mode
         /\ ~attach => always' = always
         /\ ~ReadName /\ ~ParseLibpulp /\ ~ParseLib => targets' = targets /\ pulp' = pulp
         /\ attach => always' = IF Alive THEN Loaded ELSE {}
BY DEF Tool, Find, attach, parse_main_dynobj, CopyLinkMap, ReadName, EndOfList, ParseLibpulp,
   ParseLib, ReadState, detach, check_patch_sanity, ulp_read_state, print_process, histVars,
   walkVars

\* The memory is as it was after a step of the tool.
LEMMA ToolMem ==
  ASSUME StateInv, Tool
  PROVE  ProcessType' /\ MemInv' /\ Loaded' = Loaded /\ Alive' = Alive
<1>1. /\ UNCHANGED <<phase, node, next, mapped>> /\ Loaded' = Loaded /\ (Alive' <=> Alive)
      /\ Alive' = Alive
  BY ToolFrame DEF procVars, Loaded, Alive
<1>2. always' \subseteq Loaded /\ (~Alive => always' = {}) /\ Loaded \subseteq Obj
  BY ToolFrame DEF StateInv, MemInv, Loaded, ProcessType
<1>3. ProcessType'
  BY <1>1, <1>2 DEF StateInv, ProcessType
<1>4. pc' \in {"find", "attach"} => pc = "find" /\ always' = always
  BY DEF Tool, Find, attach, parse_main_dynobj, CopyLinkMap, ReadName, EndOfList, ParseLibpulp,
     ParseLib, ReadState, detach, check_patch_sanity, ulp_read_state, print_process, histVars,
     StateInv, ToolType
<1>5. MemInv'
  BY <1>1, <1>2, <1>4 DEF StateInv, MemInv
<1> QED BY <1>1, <1>3, <1>5

\* The tool keeps its types, and the thread stopped as long as it reads.
LEMMA ToolState ==
  ASSUME StateInv, Tool
  PROVE  ToolType' /\ ControlInv'
<1> USE GatherFacts DEF StateInv, ToolType, ControlInv
<1>0. mode' = mode /\ cut' = cut
  BY ToolFrame
<1>1. CASE Find
  BY <1>0, <1>1 DEF Find, walkVars, histVars
<1>2. CASE attach
  BY <1>0, <1>2 DEF attach, walkVars
<1>3. CASE parse_main_dynobj
  BY <1>0, <1>3 DEF parse_main_dynobj, ProcessType, histVars
<1>4. CASE CopyLinkMap
  <2>1. ASSUME Alive, pc' = "name",
               held' = [at |-> cur, next |-> next[cur],
                        obj  |-> IF node[cur] # NULL THEN node[cur] ELSE Junk,
                        base |-> IF node[cur] # NULL THEN BaseOf(node[cur]) ELSE NULL]
        PROVE  held' \in LinkMap
    <3>1. cur \in Node /\ next[cur] \in Node \cup {NULL} /\ node[cur] \in Obj \cup {NULL}
      BY <1>4 DEF CopyLinkMap, ProcessType
    <3>2. node[cur] # NULL => BaseOf(node[cur]) \in Base
      <4>1. node[cur] # NULL => node[cur] \in Loaded
        BY <3>1 DEF Loaded
      <4> QED BY <4>1, BaseOfLoaded
    <3> QED BY <2>1, <3>1, <3>2 DEF LinkMap, Object
  <2> QED BY <1>0, <1>4, <2>1 DEF CopyLinkMap, histVars
<1>5. CASE ReadName
  <2>1. held \in LinkMap /\ pc = "name" /\ pc' \in {"walk", "libpulp"}
    BY <1>5 DEF ReadName
  <2>2. \/ /\ cur' = held.next
           /\ \E o \in Object : /\ targets' = Append(targets, Dynobj(Name[o], held))
                                /\ pulp' \in {pulp, Len(targets) + 1}
        \/ UNCHANGED <<targets, pulp, cur>>
    BY <1>5, <2>1 DEF ReadName, LinkMap, Object
  <2>3. \A o \in Object : Dynobj(Name[o], held) \in Entry
    BY <2>1 DEF Dynobj, Entry, LinkMap
  <2>4. CASE UNCHANGED <<targets, pulp, cur>>
    BY <1>0, <1>5, <2>1, <2>4 DEF ReadName, histVars
  <2>5. CASE /\ cur' = held.next
             /\ \E o \in Object : /\ targets' = Append(targets, Dynobj(Name[o], held))
                                  /\ pulp' \in {pulp, Len(targets) + 1}
    <3>1. PICK t \in Entry : targets' = Append(targets, t) /\ pulp' \in {pulp, Len(targets) + 1}
      BY <2>3, <2>5
    <3>2. targets' \in Seq(Entry) /\ Len(targets') = Len(targets) + 1 /\ Len(targets) \in Nat
      BY <3>1
    <3>3. cur' \in Node \cup {NULL}
      BY <2>1, <2>5 DEF LinkMap
    <3>4. pulp' \in 0..Len(targets') /\ i \in 0..Len(targets')
      BY <3>1, <3>2
    <3> QED BY <1>0, <1>5, <2>1, <3>2, <3>3, <3>4 DEF ReadName, histVars
  <2> QED BY <2>2, <2>4, <2>5
<1>6. CASE EndOfList
  BY <1>0, <1>6 DEF EndOfList, walkVars, histVars
<1>7. CASE ParseLibpulp
  <2>1. CASE pulp = 0
    BY <1>0, <1>7, <2>1 DEF ParseLibpulp, histVars
  <2>2. CASE pulp # 0
    <3>1. targets' = [targets EXCEPT ![pulp] = parse_lib_dynobj(targets[pulp])]
      BY <1>7, <2>2 DEF ParseLibpulp
    <3>2. pulp \in 1..Len(targets) /\ targets[pulp] \in Entry
      BY <2>2
    <3>3. parse_lib_dynobj(targets[pulp]) \in Entry
      BY <3>2, ParseType
    <3>4. targets' \in Seq(Entry) /\ Len(targets') = Len(targets) /\ Len(targets) \in Nat
      BY <3>1, <3>2, <3>3
    <3> HIDE <3>1
    <3> QED BY <1>0, <1>7, <2>2, <3>4 DEF ParseLibpulp, histVars
  <2> QED BY <2>1, <2>2
<1>8. CASE ParseLib
  <2>1. PICK t : /\ t = IF i = pulp THEN targets[i] ELSE parse_lib_dynobj(targets[i])
                 /\ targets' = [targets EXCEPT ![i] = t]
                 /\ pulp' = IF t.state THEN i ELSE pulp
    BY <1>8 DEF ParseLib
  <2>2. i \in 1..Len(targets) /\ targets[i] \in Entry
    BY <1>8 DEF ParseLib
  <2>3. t \in Entry
    BY <2>1, <2>2, ParseType
  <2>4. targets' \in Seq(Entry) /\ Len(targets') = Len(targets) /\ Len(targets) \in Nat
    BY <2>1, <2>2, <2>3
  <2>5. pulp' \in 0..Len(targets') /\ i' \in 0..Len(targets')
    BY <1>8, <2>1, <2>2, <2>4 DEF ParseLib
  <2> HIDE <2>1
  <2> QED BY <1>0, <1>8, <2>4, <2>5 DEF ParseLib, histVars
<1>9. CASE ReadState
  BY <1>0, <1>9 DEF ReadState, walkVars, histVars
<1>10. CASE detach
  BY <1>0, <1>10 DEF detach, walkVars, histVars
<1>11. CASE check_patch_sanity
  BY <1>0, <1>11 DEF check_patch_sanity, walkVars, histVars
<1>12. CASE ulp_read_state
  <2>1. Len(targets) \in 0..Len(targets) /\ Alive \in BOOLEAN
    BY DEF Alive
  <2> QED BY <1>0, <1>12, <2>1 DEF ulp_read_state, walkVars
<1>13. CASE print_process
  <2>1. /\ pc = "report" /\ pc' \in {"report", "done"}
        /\ UNCHANGED <<stopped, cur, held, targets, pulp, applied, ret>>
        /\ denied' \in BOOLEAN
    BY <1>13 DEF print_process, walkVars
  <2>2. i' \in 0..Len(targets)
    <3>1. i' = IF i = 0 THEN i ELSE i - 1
      BY <1>13 DEF print_process
    <3> QED BY <3>1
  <2> QED BY <1>0, <2>1, <2>2
<1> QED BY <1>1, <1>2, <1>3, <1>4, <1>5, <1>6, <1>7, <1>8, <1>9, <1>10, <1>11, <1>12, <1>13
        DEF Tool

\* The types are kept.
LEMMA NextStateInv == StateInv /\ [Next]_vars => StateInv'
<1> SUFFICES ASSUME StateInv, [Next]_vars PROVE StateInv'
  OBVIOUS
<1>1. CASE Process
  <2>1. /\ ProcessType' /\ MemInv' /\ UNCHANGED <<toolVars, denied>> /\ cut' \in BOOLEAN
    BY <1>1, ProcessEffect
  <2>2. ToolType' /\ ControlInv'
    BY <2>1 DEF StateInv, ToolType, ControlInv, toolVars, walkVars
  <2> QED BY <2>1, <2>2 DEF StateInv
<1>2. CASE Tool
  BY <1>2, ToolMem, ToolState DEF StateInv
<1>3. CASE UNCHANGED vars
  BY <1>3 DEF StateInv, ProcessType, ToolType, MemInv, ControlInv, Loaded, Alive,
     vars, procVars, toolVars, histVars, walkVars
<1> QED BY <1>1, <1>2, <1>3 DEF Next

\* The state at the start.
LEMMA InitStateInv == Init => StateInv
<1> SUFFICES ASSUME Init PROVE StateInv
  OBVIOUS
<1>1. ProcessType /\ ControlInv
  BY DEF Init, ProcessType, ControlInv
<1>4. ToolType
  <2>1. targets = << >> /\ targets \in Seq(Entry) /\ Len(targets) = 0
    BY DEF Init
  <2>2. pulp \in 0..Len(targets) /\ i \in 0..Len(targets)
    BY <2>1 DEF Init
  <2>3. cut \in BOOLEAN /\ applied \in BOOLEAN /\ denied \in BOOLEAN /\ stopped \in BOOLEAN
    BY Zenon DEF Init
  <2>4. pc = "find" /\ mode \in {"trigger", "patches"} /\ cur = NULL
    BY DEF Init
  <2> QED BY <2>1, <2>2, <2>3, <2>4 DEF ToolType
<1>2. Loaded = {} /\ \A n \in Node : node[n] = NULL
  BY DEF Init, Loaded
<1>3. MemInv
  BY <1>2 DEF Init, MemInv, Alive
<1> QED BY <1>1, <1>3, <1>4 DEF StateInv

-----------------------------------------------------------------------------
(***************************************************************************)
(* The data that was gathered.                                             *)
(***************************************************************************)

\* The data was gathered with success.
Gathered == pc \in {"trigger", "patches", "report"} \/ (pc = "detach" /\ ret = "ok")

-----------------------------------------------------------------------------
(***************************************************************************)
(* What is known of the objects that are there all the time.               *)
(***************************************************************************)

\* The headers of the object itself were read.
Parsed(t) ==
  t.build = t.obj /\ (t.syms <=> t.obj \in Hash) /\ (t.obj = Pulp => t.state)

\* What is known of an object is true of it if it is there all the time.
Faithful(t) ==
  t.obj \in always => /\ t.name = Name[t.obj] /\ mapped[t.base] = t.obj
                      /\ t.syms => Parsed(t)

TargetInv ==
  /\ pc = "name" /\ held.obj \in always => mapped[held.base] = held.obj
  /\ \A k \in 1..Len(targets) : Faithful(targets[k])
  /\ pulp = 0 => \A k \in 1..Len(targets) : ~PulpName(targets[k].name)

\* Objects are parsed newest first, but libpulp before all others.
ParsedInv ==
  /\ pc = "libs" =>
       /\ pulp # 0
       /\ \A k \in 1..Len(targets) :
            (k > i \/ k = pulp) /\ targets[k].obj \in always => Parsed(targets[k])
       /\ (\E k \in 1..Len(targets) : k > i /\ targets[k].obj = Pulp) /\ Pulp \in always =>
            targets[pulp].state
  /\ Gathered => \A k \in 1..Len(targets) :
                    targets[k].obj \in always => Parsed(targets[k])

KnownInv == TargetInv /\ ParsedInv

\* Parsing an object that is there all the time tells the truth.
LEMMA ParseRight ==
  ASSUME StateInv, NEW t \in Entry, Faithful(t)
  PROVE  /\ t.obj \in always => Parsed(parse_lib_dynobj(t))
         /\ Faithful(parse_lib_dynobj(t))
<1> DEFINE u == parse_lib_dynobj(t)
<1>1. u \in Entry /\ u.obj = t.obj /\ u.name = t.name /\ u.base = t.base
  BY ParseType DEF StateInv
<1>2. ASSUME t.obj \in always PROVE Parsed(u)
  <2>1. /\ Alive /\ mapped[t.base] = t.obj /\ t.obj # NULL /\ t.name = Name[t.obj]
        /\ t.obj \in Obj
    BY <1>2, GatherFacts DEF StateInv, MemInv, ProcessType, Faithful
  <2>2. CASE t.syms
    BY <1>2, <2>2 DEF Faithful, parse_lib_dynobj
  <2>3. CASE ~t.syms
    <3> DEFINE h == parse_dynobj_elf_headers(t)
    <3>1. h = [t EXCEPT !.build = t.obj, !.syms = t.obj \in Hash]
      BY <2>1 DEF parse_dynobj_elf_headers
    <3>2. /\ h.build = t.obj /\ h.obj = t.obj /\ h.base = t.base /\ (h.syms <=> t.obj \in Hash)
          /\ h \in Entry
      <4>1. (t.obj \in Hash) \in BOOLEAN
        OBVIOUS
      <4> QED BY <2>1, <3>1, <4>1 DEF Entry
    <3> HIDE DEF h
    <3>3. CASE PulpName(t.name)
      <4>1. u = [h EXCEPT !.state = Alive /\ h.syms /\ mapped[h.base] = Pulp]
        BY <2>3, <3>3 DEF parse_lib_dynobj, get_libpulp_extern_symbols, h
      <4>2. /\ u.build = t.obj /\ u.obj = t.obj /\ u.syms = h.syms
            /\ u.state = (Alive /\ h.syms /\ mapped[h.base] = Pulp)
        BY <3>2, <4>1 DEF Entry
      <4>3. t.obj = Pulp => Alive /\ h.syms /\ mapped[h.base] = Pulp
        BY <2>1, <3>2, GatherFacts
      <4> QED BY <3>2, <4>2, <4>3 DEF Parsed
    <3>4. CASE ~PulpName(t.name)
      <4>1. u = h
        BY <2>3, <3>4 DEF parse_lib_dynobj, h
      <4>2. t.obj # Pulp
        BY <2>1, <3>4, GatherFacts DEF PulpName
      <4> QED BY <3>2, <4>1, <4>2 DEF Parsed
    <3> QED BY <3>3, <3>4
  <2> QED BY <2>2, <2>3
<1> HIDE DEF u
<1>3. Faithful(u)
  BY <1>1, <1>2 DEF Faithful
<1> QED BY <1>2, <1>3 DEF u

\* What is known stays true while the process goes on.
LEMMA FaithfulKept ==
  ASSUME NEW t \in Entry, Faithful(t), always' \subseteq always,
         \A b \in Base \cup {NULL} : mapped[b] \in always' => mapped'[b] = mapped[b]
  PROVE  Faithful(t)'
BY DEF Faithful, Parsed, Entry

\* The steps of the process.
LEMMA ProcessKnown ==
  ASSUME StateInv, KnownInv, Process
  PROVE  KnownInv'
<1>1. /\ UNCHANGED <<pc, held, targets, pulp, i, ret>> /\ always' \subseteq always
      /\ \A b \in Base \cup {NULL} : mapped[b] \in always' => mapped'[b] = mapped[b]
  BY ProcessEffect DEF toolVars, walkVars
<1>2. \A k \in 1..Len(targets) : targets[k] \in Entry
  BY DEF StateInv, ToolType
<1>3. \A k \in 1..Len(targets) : Faithful(targets[k])'
  <2> TAKE k \in 1..Len(targets)
  <2>1. PICK t \in Entry : t = targets[k] /\ Faithful(t)
    BY <1>2 DEF KnownInv, TargetInv
  <2>2. Faithful(t)'
    BY <1>1, <2>1, FaithfulKept
  <2> QED BY <1>1, <2>1, <2>2 DEF Faithful, Parsed
<1>4. pc = "name" /\ held.obj \in always' => mapped'[held.base] = held.obj
  <2>1. pc = "name" => held.base \in Base \cup {NULL}
    BY DEF StateInv, ToolType, LinkMap
  <2> QED BY <1>1, <2>1 DEF KnownInv, TargetInv
<1>5. TargetInv'
  BY <1>1, <1>3, <1>4 DEF KnownInv, TargetInv, PulpName
<1>6. ParsedInv'
  BY <1>1 DEF KnownInv, ParsedInv, Parsed, Gathered
<1> QED BY <1>5, <1>6 DEF KnownInv

\* A name is read: it is that of the object if the object is still there.
LEMMA ReadNameKnown ==
  ASSUME StateInv, KnownInv, ReadName
  PROVE  KnownInv'
<1>1. /\ pc = "name" /\ pc' \in {"walk", "libpulp"} /\ UNCHANGED <<mapped, always>>
      /\ held \in LinkMap /\ targets \in Seq(Entry) /\ Len(targets) \in Nat
  BY DEF ReadName, procVars, histVars, StateInv, ToolType
<1>2. ParsedInv'
  BY <1>1 DEF ParsedInv, Gathered
<1>3. CASE UNCHANGED <<targets, pulp>>
  BY <1>1, <1>2, <1>3 DEF KnownInv, TargetInv, Faithful, Parsed, PulpName
<1>4. CASE \E o \in {held.obj} \cup (IF held.obj \in Loaded THEN {} ELSE {Junk}) :
             /\ targets' = Append(targets, Dynobj(Name[o], held))
             /\ pulp' = IF PulpName(Name[o]) THEN Len(targets) + 1 ELSE pulp
  <2>1. PICK o \in {held.obj} \cup (IF held.obj \in Loaded THEN {} ELSE {Junk}) :
             /\ targets' = Append(targets, Dynobj(Name[o], held))
             /\ pulp' = IF PulpName(Name[o]) THEN Len(targets) + 1 ELSE pulp
    BY <1>4
  <2> DEFINE t == Dynobj(Name[o], held)
  <2>2. o \in Object /\ t \in Entry
    BY <1>1, <2>1 DEF LinkMap, Object, Dynobj, Entry
  <2>3. t.obj = held.obj /\ t.name = Name[o] /\ t.base = held.base /\ t.syms = FALSE
    BY DEF Dynobj
  <2>4. held.obj \in always => o = held.obj
    BY <2>1 DEF StateInv, MemInv
  <2>5. Faithful(t)
    BY <1>1, <2>3, <2>4 DEF Faithful, KnownInv, TargetInv
  <2> HIDE DEF t
  <2>6. /\ Len(targets') = Len(targets) + 1 /\ targets'[Len(targets) + 1] = t
        /\ \A k \in 1..Len(targets) : targets'[k] = targets[k]
    BY <1>1, <2>1, <2>2 DEF t
  <2>7. \A k \in 1..Len(targets') : k \in 1..Len(targets) \/ k = Len(targets) + 1
    BY <1>1, <2>6
  <2>8. \A k \in 1..Len(targets') : Faithful(targets'[k])
    BY <2>5, <2>6, <2>7 DEF KnownInv, TargetInv
  <2>9. \A k \in 1..Len(targets') : Faithful(targets[k])'
    BY <1>1, <2>8 DEF Faithful, Parsed
  <2>10. pulp' = 0 => pulp = 0 /\ ~PulpName(t.name)
    BY <1>1, <2>1, <2>3
  <2>11. pulp' = 0 => \A k \in 1..Len(targets') : ~PulpName(targets'[k].name)
    BY <2>6, <2>7, <2>10 DEF KnownInv, TargetInv
  <2>12. pc' # "name"
    BY <1>1
  <2> QED BY <1>2, <2>9, <2>11, <2>12 DEF KnownInv, TargetInv, PulpName
<1> QED BY <1>3, <1>4 DEF ReadName

\* Libpulp is parsed.
LEMMA ParseLibpulpKnown ==
  ASSUME StateInv, KnownInv, ParseLibpulp
  PROVE  KnownInv'
<1>1. /\ pc = "libpulp" /\ UNCHANGED <<mapped, always, pulp>>
      /\ targets \in Seq(Entry) /\ Len(targets) \in Nat /\ pulp \in 0..Len(targets)
  BY DEF ParseLibpulp, procVars, histVars, StateInv, ToolType
<1>2. CASE pulp = 0
  <2>1. pc' = "detach" /\ ret' = "ENOLIBPULP" /\ UNCHANGED targets
    BY <1>2 DEF ParseLibpulp
  <2> QED BY <1>1, <2>1 DEF KnownInv, TargetInv, ParsedInv, Gathered, Faithful, Parsed, PulpName
<1>3. CASE pulp # 0
  <2>1. /\ targets' = [targets EXCEPT ![pulp] = parse_lib_dynobj(targets[pulp])]
        /\ i' = Len(targets) /\ pc' = "libs"
    BY <1>3 DEF ParseLibpulp
  <2>2. pulp \in 1..Len(targets) /\ targets[pulp] \in Entry /\ Faithful(targets[pulp])
    BY <1>1, <1>3 DEF KnownInv, TargetInv
  <2>3. PICK t : t = parse_lib_dynobj(targets[pulp])
    OBVIOUS
  <2>4. /\ t.obj \in always => Parsed(t)
        /\ Faithful(t) /\ t \in Entry
        /\ t.obj = targets[pulp].obj
    BY <2>2, <2>3, ParseRight, ParseType DEF StateInv
  <2>5. /\ targets'[pulp] = t /\ Len(targets') = Len(targets)
        /\ \A k \in 1..Len(targets) : k # pulp => targets'[k] = targets[k]
    BY <1>1, <2>1, <2>2, <2>3, <2>4
  <2>6. \A k \in 1..Len(targets') : Faithful(targets'[k])
    BY <2>4, <2>5 DEF KnownInv, TargetInv
  <2>7. TargetInv'
    BY <1>1, <1>3, <2>1, <2>5, <2>6 DEF TargetInv, Faithful, Parsed
  <2>8. \A k \in 1..Len(targets') : ~(k > i') /\
          (k = pulp' /\ targets'[k].obj \in always' => Parsed(targets'[k]))
    BY <1>1, <2>1, <2>4, <2>5
  <2>9. ParsedInv'
    BY <1>1, <1>3, <2>1, <2>8 DEF ParsedInv, Gathered, Parsed
  <2> QED BY <2>7, <2>9 DEF KnownInv
<1> QED BY <1>2, <1>3

\* Another object is parsed; if it is libpulp it is taken for it.
LEMMA ParseLibKnown ==
  ASSUME StateInv, KnownInv, ParseLib
  PROVE  KnownInv'
<1>1. /\ pc = "libs" /\ pc' = "libs" /\ UNCHANGED <<mapped, always>> /\ i' = i - 1
      /\ targets \in Seq(Entry) /\ Len(targets) \in Nat /\ pulp \in 1..Len(targets)
      /\ i \in 1..Len(targets)
  BY DEF ParseLib, procVars, histVars, StateInv, ToolType, KnownInv, ParsedInv
<1>2. PICK t : /\ t = IF i = pulp THEN targets[i] ELSE parse_lib_dynobj(targets[i])
               /\ targets' = [targets EXCEPT ![i] = t]
               /\ pulp' = IF t.state THEN i ELSE pulp
  BY DEF ParseLib
<1>3. targets[i] \in Entry /\ Faithful(targets[i])
  BY <1>1 DEF KnownInv, TargetInv
<1>4. /\ t.obj \in always => Parsed(t)
      /\ Faithful(t) /\ t \in Entry /\ t.obj = targets[i].obj
  <2>1. CASE i = pulp
    BY <1>1, <1>2, <1>3, <2>1 DEF KnownInv, ParsedInv
  <2>2. CASE i # pulp
    BY <1>2, <1>3, <2>2, ParseRight, ParseType DEF StateInv
  <2> QED BY <2>1, <2>2
<1>5. /\ targets'[i] = t /\ Len(targets') = Len(targets)
      /\ \A k \in 1..Len(targets) : k # i => targets'[k] = targets[k]
  BY <1>1, <1>2, <1>4
<1>6. \A k \in 1..Len(targets') : Faithful(targets'[k])
  BY <1>4, <1>5 DEF KnownInv, TargetInv
<1>7. pulp' \in {i, pulp} /\ pulp' # 0 /\ (t.state => pulp' = i) /\ (~t.state => pulp' = pulp)
  BY <1>1, <1>2
<1>8. TargetInv'
  BY <1>1, <1>6, <1>7 DEF TargetInv, Faithful, Parsed
<1>9. \A k \in 1..Len(targets) : k > i' => k = i \/ k > i
  BY <1>1
<1>10. \A k \in 1..Len(targets') :
         (k > i' \/ k = pulp') /\ targets'[k].obj \in always => Parsed(targets'[k])
  <2> SUFFICES ASSUME NEW k \in 1..Len(targets'), k > i' \/ k = pulp', targets'[k].obj \in always
               PROVE  Parsed(targets'[k])
    OBVIOUS
  <2>1. CASE k = i
    BY <1>4, <1>5, <2>1
  <2>2. CASE k # i
    <3>1. k > i \/ k = pulp
      BY <1>5, <1>7, <1>9, <2>2
    <3> QED BY <1>1, <1>5, <2>2, <3>1 DEF KnownInv, ParsedInv
  <2> QED BY <2>1, <2>2
<1>11. ASSUME NEW k \in 1..Len(targets'), k > i', targets'[k].obj = Pulp, Pulp \in always
       PROVE  targets'[pulp'].state
  <2>1. CASE t.state
    BY <1>5, <1>7, <2>1
  <2>2. CASE ~t.state
    <3>1. t.obj # Pulp
      BY <1>4, <1>11, <2>2 DEF Parsed
    <3>2. k # i /\ k > i /\ targets[k].obj = Pulp
      BY <1>5, <1>9, <1>11, <3>1
    <3>3. targets[pulp].state
      BY <1>1, <1>5, <1>11, <3>2 DEF KnownInv, ParsedInv
    <3>4. CASE i = pulp
      BY <1>2, <2>2, <3>3, <3>4
    <3>5. CASE i # pulp
      BY <1>1, <1>5, <1>7, <2>2, <3>3, <3>5
    <3> QED BY <3>4, <3>5
  <2> QED BY <2>1, <2>2
<1>12. ParsedInv'
  BY <1>1, <1>7, <1>10, <1>11 DEF ParsedInv, Gathered, Parsed
<1> QED BY <1>8, <1>12 DEF KnownInv

\* Every step keeps what is known true.
LEMMA NextKnownInv == StateInv /\ KnownInv /\ [Next]_vars => KnownInv'
<1> SUFFICES ASSUME StateInv, KnownInv, [Next]_vars PROVE KnownInv'
  OBVIOUS
<1>1. CASE Process
  BY <1>1, ProcessKnown
<1>2. CASE ReadName \/ ParseLibpulp \/ ParseLib
  BY <1>2, ReadNameKnown, ParseLibpulpKnown, ParseLibKnown
<1>3. CASE attach
  <2>1. targets' = << >> /\ pc' \in {"main", "detach"} /\ (pc' = "detach" => ret' = "ETARGETHOOK")
    BY <1>3 DEF attach, walkVars, StateInv, ControlInv
  <2>2. Len(targets') = 0
    BY <2>1
  <2> QED BY <2>1, <2>2 DEF KnownInv, TargetInv, ParsedInv, Gathered
<1>4. CASE CopyLinkMap
  <2>1. /\ UNCHANGED <<targets, pulp, mapped, always, i>> /\ pc' \in {"name", "libpulp"}
        /\ cur \in Node
    BY <1>4 DEF CopyLinkMap, procVars, histVars, StateInv, ToolType
  <2>2. pc' = "name" /\ held'.obj \in always => mapped[held'.base] = held'.obj
    <3> SUFFICES ASSUME pc' = "name", held'.obj \in always PROVE mapped[held'.base] = held'.obj
      OBVIOUS
    <3>1. /\ held'.obj = IF node[cur] # NULL THEN node[cur] ELSE Junk
          /\ held'.base = IF node[cur] # NULL THEN BaseOf(node[cur]) ELSE NULL
      BY <1>4 DEF CopyLinkMap
    <3>2. node[cur] # NULL /\ node[cur] \in Loaded
      BY <2>1, <3>1, GatherFacts DEF StateInv, ProcessType, Loaded
    <3> QED BY <3>1, <3>2, BaseOfLoaded DEF StateInv
  <2> QED BY <2>1, <2>2 DEF KnownInv, TargetInv, ParsedInv, Gathered, Faithful, Parsed, PulpName
<1>5. CASE Find \/ parse_main_dynobj \/ EndOfList \/ check_patch_sanity
  <2>1. /\ UNCHANGED <<targets, pulp, mapped, always>> /\ pc' \notin {"libs", "name"}
        /\ Gathered' => Gathered
    BY <1>5 DEF Find, parse_main_dynobj, EndOfList, check_patch_sanity, procVars, histVars,
       walkVars, Gathered
  <2> QED BY <2>1 DEF KnownInv, TargetInv, ParsedInv, Faithful, Parsed, PulpName
<1>6. CASE detach \/ ulp_read_state \/ print_process
  <2>1. /\ UNCHANGED <<targets, pulp, mapped, always>> /\ pc' \notin {"libs", "name"}
        /\ Gathered' => Gathered
    BY <1>6 DEF detach, ulp_read_state, print_process, procVars, histVars,
       walkVars, Gathered, StateInv, ToolType
  <2> QED BY <2>1 DEF KnownInv, TargetInv, ParsedInv, Faithful, Parsed, PulpName
<1>7. CASE ReadState
  <2>1. /\ UNCHANGED <<targets, pulp, mapped, always>> /\ pc' = "detach" /\ pc = "libs" /\ i = 0
    BY <1>7 DEF ReadState, procVars, histVars, walkVars
  <2>2. \A k \in 1..Len(targets) : k > i
    BY <2>1 DEF StateInv, ToolType
  <2> QED BY <2>1, <2>2 DEF KnownInv, TargetInv, ParsedInv, Faithful, Parsed, PulpName
<1>8. CASE UNCHANGED vars
  BY <1>8 DEF KnownInv, TargetInv, ParsedInv, Gathered, Faithful, Parsed, PulpName,
     vars, procVars, toolVars, histVars, walkVars
<1> QED BY <1>1, <1>2, <1>3, <1>4, <1>5, <1>6, <1>7, <1>8 DEF Next, Tool

\* Nothing is known at the start.
LEMMA InitKnownInv == Init => KnownInv
<1> SUFFICES ASSUME Init PROVE KnownInv
  OBVIOUS
<1>1. Len(targets) = 0 /\ pc = "find"
  BY DEF Init
<1> QED BY <1>1 DEF KnownInv, TargetInv, ParsedInv, Gathered

-----------------------------------------------------------------------------
(***************************************************************************)
(* What `ulp patches` reports.                                             *)
(***************************************************************************)

\* The entry k of the report is right.
Right(k) ==
  targets[k].obj \in always /\ targets[k].syms =>
     /\ k \in listed => targets[k].obj \in Nops \/ PatchedName(targets[k].name)
     /\ targets[k].obj \in Nops \ Beyond \/ PatchedName(targets[k].name) =>
          denied \/ k \in listed

ReportInv ==
  /\ pc \in {"trigger", "patches"} => pc = mode
  /\ pc = "report" => mode = "patches"
  /\ pc \notin {"report", "done"} => listed = {}
  /\ pc = "report" => /\ applied \/ denied
                      /\ \A k \in listed : k \in Nat /\ k > i
                      /\ \A k \in 1..Len(targets) : k > i => Right(k)
  /\ ReportedRightly

\* The report is right where every entry is.
LEMMA AllRight ==
  ReportedRightly <=>
    (pc = "done" /\ mode = "patches" /\ ret = "ok" => \A k \in DOMAIN targets : Right(k))
BY DEF ReportedRightly, Right

\* One more object is reported, or not.
LEMMA PrintReport ==
  ASSUME StateInv, KnownInv, ReportInv, print_process
  PROVE  ReportInv'
<1>1. /\ pc = "report" /\ UNCHANGED <<mode, targets, applied, ret, always, mapped, phase>>
      /\ mode = "patches" /\ i \in 0..Len(targets)
      /\ targets \in Seq(Entry) /\ Len(targets) \in Nat
  BY DEF print_process, walkVars, procVars, ReportInv, StateInv, ToolType
<1>2. CASE i = 0
  <2>1. pc' = "done" /\ UNCHANGED <<i, listed, denied>>
    BY <1>2 DEF print_process
  <2>2. \A k \in 1..Len(targets) : Right(k)
    BY <1>1, <1>2 DEF ReportInv
  <2>3. \A k \in DOMAIN targets : Right(k)'
    BY <1>1, <2>1, <2>2 DEF Right, PatchedName
  <2>4. ReportedRightly'
    BY <1>1, <2>3 DEF ReportedRightly, Right
  <2> QED BY <2>1, <2>4 DEF ReportInv
<1>3. CASE i # 0
  <2>1. /\ i' = i - 1 /\ pc' = "report" /\ i \in 1..Len(targets)
        /\ \/ /\ \E b \in is_library_livepatchable(targets[i]) :
                   listed' = IF b THEN listed \cup {i} ELSE listed
              /\ UNCHANGED denied
           \/ /\ ~(applied /\ PatchedName(targets[i].name))
              /\ denied' = TRUE /\ UNCHANGED listed
    BY <1>1, <1>3 DEF print_process
  <2>2. /\ listed' \subseteq listed \cup {i} /\ listed \subseteq listed'
        /\ denied => denied'
        /\ i \notin listed
    BY <1>1, <2>1 DEF ReportInv
  <2>3. \A k \in 1..Len(targets) : k > i => Right(k)'
    <3> SUFFICES ASSUME NEW k \in 1..Len(targets), k > i PROVE Right(k)'
      OBVIOUS
    <3>1. k # i /\ Right(k) /\ (k \in listed' <=> k \in listed)
      BY <1>1, <2>1, <2>2 DEF ReportInv
    <3> QED BY <1>1, <2>2, <3>1 DEF Right, PatchedName
  <2>5. ASSUME targets[i].obj \in always, targets[i].syms
        PROVE  /\ i \in listed' => targets[i].obj \in Nops \/ PatchedName(targets[i].name)
               /\ targets[i].obj \in Nops \ Beyond \/ PatchedName(targets[i].name) =>
                     denied' \/ i \in listed'
    <3>1. Alive /\ mapped[targets[i].base] = targets[i].obj
      BY <2>1, <2>5 DEF KnownInv, TargetInv, Faithful, StateInv, MemInv
    <3>2. applied \/ denied
      BY <1>1 DEF ReportInv
    <3>3. CASE applied /\ PatchedName(targets[i].name)
      <4>1. is_library_livepatchable(targets[i]) = {TRUE}
        BY <3>3 DEF is_library_livepatchable
      <4> QED BY <2>1, <3>3, <4>1
    <3>4. CASE ~(applied /\ PatchedName(targets[i].name))
      <4>1. is_library_livepatchable(targets[i]) = {Alive /\ mapped[targets[i].base] \in Nops \ Beyond}
        BY <2>5, <3>4 DEF is_library_livepatchable
      <4>2. \A b \in is_library_livepatchable(targets[i]) : b <=> targets[i].obj \in Nops \ Beyond
        BY <3>1, <4>1
      <4> QED BY <2>1, <2>2, <3>2, <3>4, <4>2
    <3> QED BY <3>3, <3>4
  <2>6. \A k \in 1..Len(targets) : k > i' => Right(k)'
    <3> SUFFICES ASSUME NEW k \in 1..Len(targets), k > i' PROVE Right(k)'
      OBVIOUS
    <3>1. PICK m : m = i
      OBVIOUS
    <3>2. CASE k = m
      BY <1>1, <2>5, <3>1, <3>2 DEF Right, PatchedName
    <3>3. CASE k # m
      BY <1>1, <2>1, <2>3, <3>1, <3>3
    <3> QED BY <3>2, <3>3
  <2>7. \A k \in listed' : k \in Nat /\ k > i'
    BY <1>1, <2>1, <2>2 DEF ReportInv
  <2>8. applied' \/ denied'
    BY <1>1, <2>2 DEF ReportInv
  <2>9. ReportedRightly'
    BY <2>1 DEF ReportedRightly
  <2> QED BY <1>1, <2>1, <2>6, <2>7, <2>8, <2>9 DEF ReportInv
<1> QED BY <1>2, <1>3

\* Every step keeps the report right.
LEMMA NextReportInv == StateInv /\ KnownInv /\ ReportInv /\ [Next]_vars => ReportInv'
<1> SUFFICES ASSUME StateInv, KnownInv, ReportInv, [Next]_vars PROVE ReportInv'
  OBVIOUS
<1>1. CASE Process \/ UNCHANGED vars
  <2>1. /\ UNCHANGED <<pc, mode, targets, i, applied, listed, ret, denied>>
        /\ always' \subseteq always
    BY <1>1, ProcessEffect DEF vars, toolVars, walkVars, histVars
  <2>2. \A k \in DOMAIN targets : Right(k) => Right(k)'
    BY <2>1 DEF Right, PatchedName
  <2>3. ReportedRightly'
    <3>1. pc = "done" /\ mode = "patches" /\ ret = "ok" => \A k \in DOMAIN targets : Right(k)'
      BY <2>2, AllRight DEF ReportInv
    <3> QED BY <2>1, <3>1 DEF ReportedRightly, Right
  <2>4. pc = "report" => \A k \in 1..Len(targets) : k > i => Right(k)'
    BY <2>2 DEF ReportInv, StateInv, ToolType
  <2> QED BY <2>1, <2>3, <2>4 DEF ReportInv
<1>2. CASE print_process
  BY <1>2, PrintReport
<1>3. CASE ulp_read_state
  <2>1. /\ pc = "patches" /\ UNCHANGED <<mode, targets, listed>> /\ listed = {} /\ mode = "patches"
        /\ \/ i' = Len(targets) /\ pc' = "report"
           \/ pc' = "done" /\ ret' = "unpatched"
        /\ denied' = ~applied' /\ applied' \in BOOLEAN
    BY <1>3 DEF ulp_read_state, walkVars, ReportInv, Alive
  <2>2. ReportedRightly'
    BY <2>1 DEF ReportedRightly
  <2>3. \A k \in 1..Len(targets) : ~(k > Len(targets))
    BY DEF StateInv, ToolType
  <2> QED BY <2>1, <2>2, <2>3 DEF ReportInv
<1>4. CASE detach
  <2>1. /\ pc = "detach" /\ UNCHANGED <<mode, listed, ret>> /\ listed = {}
        /\ pc' = IF ret = "ok" THEN mode ELSE "done"
        /\ mode \in {"trigger", "patches"}
    BY <1>4 DEF detach, ReportInv, StateInv, ToolType
  <2>2. ReportedRightly'
    BY <2>1 DEF ReportedRightly
  <2> QED BY <2>1, <2>2 DEF ReportInv
<1>5. CASE check_patch_sanity
  <2>1. pc' = "done" /\ mode' = "trigger"
    BY <1>5 DEF check_patch_sanity, ReportInv
  <2>2. ReportedRightly'
    BY <2>1 DEF ReportedRightly
  <2> QED BY <2>1, <2>2 DEF ReportInv
<1>6. CASE Find \/ attach \/ parse_main_dynobj \/ CopyLinkMap \/ ReadName \/ EndOfList
           \/ ParseLibpulp \/ ParseLib \/ ReadState
  <2>1. /\ listed' = listed /\ listed = {}
        /\ \/ pc' \in {"attach", "main", "walk", "name", "libpulp", "libs", "detach"}
           \/ pc' = "done" /\ ret' = "ENOLIBPULP"
    BY <1>6 DEF Find, attach, parse_main_dynobj, CopyLinkMap, ReadName, EndOfList, ParseLibpulp,
       ParseLib, ReadState, ReportInv
  <2>2. ReportedRightly'
    BY <2>1 DEF ReportedRightly
  <2> QED BY <2>1, <2>2 DEF ReportInv
<1> QED BY <1>1, <1>2, <1>3, <1>4, <1>5, <1>6 DEF Next, Tool

\* `ulp patches` reports, of the libraries that are there all the time and whose
\* symbols were found, none that can not be and has not been live patched, and
\* all others if it could attach: the addresses it looks at were gathered while
\* objects came and went (is_library_livepatchable, print_process).
THEOREM ReportIsRight == Spec => []ReportedRightly
<1>1. Init => ReportInv
  BY DEF Init, ReportInv, ReportedRightly
<1>2. ReportInv => ReportedRightly
  BY DEF ReportInv
<1> QED BY <1>1, <1>2, InitStateInv, NextStateInv, InitKnownInv, NextKnownInv, NextReportInv,
        PTL DEF Spec

-----------------------------------------------------------------------------
(***************************************************************************)
(* The list of link_maps.                                                  *)
(***************************************************************************)

\* The node at place k of the list; at place 0 is that of the program.
At(L, k) == IF k = 0 THEN NULL ELSE L[k]

\* The nodes in use, in the order of the list, are L.
Chain(L) ==
  /\ L \in Seq(Node)
  /\ \A j, k \in 1..Len(L) : L[j] = L[k] => j = k
  /\ \A n \in Node : node[n] # NULL <=> \E k \in 1..Len(L) : L[k] = n
  /\ \A k \in 0..Len(L) : next[At(L, k)] = IF k = Len(L) THEN NULL ELSE L[k + 1]

\* The list without the node at place m.
Without(L, m) == [k \in 1..(Len(L) - 1) |-> IF k < m THEN L[k] ELSE L[k + 1]]

\* The places of the list are different nodes.
LEMMA ChainPlaces ==
  ASSUME NEW L, Chain(L)
  PROVE  /\ Len(L) \in Nat
         /\ \A k \in 1..Len(L) : L[k] \in Node /\ L[k] # NULL /\ node[L[k]] # NULL
         /\ \A k \in 0..Len(L) : At(L, k) \in Node \cup {NULL}
         /\ \A j, k \in 0..Len(L) : At(L, j) = At(L, k) => j = k
         /\ \A n \in Node \cup {NULL} :
              n = NULL \/ node[n] # NULL => \E k \in 0..Len(L) : n = At(L, k)
<1>1. Len(L) \in Nat /\ \A k \in 1..Len(L) : L[k] \in Node /\ L[k] # NULL
  BY GatherFacts DEF Chain
<1>2. \A k \in 1..Len(L) : node[L[k]] # NULL
  BY <1>1 DEF Chain
<1>3. \A k \in 0..Len(L) : k = 0 \/ k \in 1..Len(L)
  BY <1>1
<1>4. \A k \in 0..Len(L) : At(L, k) \in Node \cup {NULL}
  BY <1>1, <1>3 DEF At
<1>5. \A j, k \in 0..Len(L) : At(L, j) = At(L, k) => j = k
  BY <1>1, <1>3 DEF At, Chain
<1>6. \A n \in Node \cup {NULL} :
        n = NULL \/ node[n] # NULL => \E k \in 0..Len(L) : n = At(L, k)
  <2> SUFFICES ASSUME NEW n \in Node \cup {NULL}, n = NULL \/ node[n] # NULL
               PROVE  \E k \in 0..Len(L) : n = At(L, k)
    OBVIOUS
  <2>1. CASE n = NULL
    <3>1. 0 \in 0..Len(L) /\ n = At(L, 0)
      BY <1>1, <2>1 DEF At
    <3> QED BY <3>1
  <2>2. CASE n # NULL
    <3>1. PICK k \in 1..Len(L) : L[k] = n
      BY <2>2 DEF Chain
    <3>2. k \in 0..Len(L) /\ k # 0
      BY <1>1
    <3> QED BY <3>1, <3>2 DEF At
  <2> QED BY <2>1, <2>2
<1> QED BY <1>1, <1>2, <1>4, <1>5, <1>6

\* The last node is the last of the list.
LEMMA LastIsLast ==
  ASSUME NEW L, Chain(L)
  PROVE  LastNode = At(L, Len(L))
<1>1. At(L, Len(L)) \in Node \cup {NULL} /\ next[At(L, Len(L))] = NULL
  BY ChainPlaces DEF Chain
<1>2. At(L, Len(L)) = NULL \/ node[At(L, Len(L))] # NULL
  BY ChainPlaces DEF At
<1>3. \A n \in Node \cup {NULL} :
        (n = NULL \/ node[n] # NULL) /\ next[n] = NULL => n = At(L, Len(L))
  <2> SUFFICES ASSUME NEW n \in Node \cup {NULL}, n = NULL \/ node[n] # NULL, next[n] = NULL
               PROVE  n = At(L, Len(L))
    OBVIOUS
  <2>1. PICK k \in 0..Len(L) : n = At(L, k)
    BY ChainPlaces
  <2>2. CASE k = Len(L)
    BY <2>1, <2>2
  <2>3. CASE k # Len(L)
    <3>1. next[n] = L[k + 1] /\ k + 1 \in 1..Len(L)
      BY <2>1, <2>3, ChainPlaces DEF Chain
    <3> QED BY <3>1, ChainPlaces
  <2> QED BY <2>2, <2>3
<1> QED BY <1>1, <1>2, <1>3 DEF LastNode

\* An object is linked at the end.
LEMMA ChainLink ==
  ASSUME ProcessType, NEW L, Chain(L), NEW o \in Obj, NEW n \in Node, NEW b,
         node[n] = NULL, Link(o, n, b)
  PROVE  Chain(Append(L, n))'
<1> DEFINE M == Append(L, n)
<1>1. /\ Len(L) \in Nat /\ L \in Seq(Node)
      /\ M \in Seq(Node) /\ Len(M) = Len(L) + 1 /\ M[Len(L) + 1] = n
      /\ \A k \in 1..Len(L) : M[k] = L[k]
  BY DEF Chain
<1> HIDE DEF M
<1>2. \A k \in 1..Len(M) : k \in 1..Len(L) \/ k = Len(L) + 1
  BY <1>1
<1>3. \A k \in 1..Len(L) : L[k] # n
  BY ChainPlaces
<1>4. \A j, k \in 1..Len(M) : M[j] = M[k] => j = k
  BY <1>1, <1>2, <1>3 DEF Chain
<1>5. \A m \in Node : node'[m] # NULL <=> \E k \in 1..Len(M) : M[k] = m
  <2>1. node'[n] # NULL /\ \A m \in Node : m # n => node'[m] = node[m]
    BY GatherFacts DEF Link, ProcessType
  <2> SUFFICES ASSUME NEW m \in Node
               PROVE  node'[m] # NULL <=> \E k \in 1..Len(M) : M[k] = m
    OBVIOUS
  <2>2. CASE m = n
    <3>1. Len(L) + 1 \in 1..Len(M)
      BY <1>1
    <3> QED BY <1>1, <2>1, <2>2, <3>1
  <2>3. CASE m # n
    <3>1. \A k \in 1..Len(L) : k \in 1..Len(M)
      BY <1>1
    <3>2. node'[m] # NULL <=> \E k \in 1..Len(L) : L[k] = m
      BY <2>1, <2>3 DEF Chain
    <3> QED BY <1>1, <1>2, <2>3, <3>1, <3>2
  <2> QED BY <2>2, <2>3
<1>6. /\ next'[At(L, Len(L))] = n /\ next'[n] = NULL
      /\ \A m \in Node \cup {NULL} : m # n /\ m # At(L, Len(L)) => next'[m] = next[m]
  <2>1. At(L, Len(L)) \in Node \cup {NULL} /\ At(L, Len(L)) # n
    BY <1>1, <1>3, ChainPlaces, GatherFacts DEF At
  <2>2. next' = [next EXCEPT ![n] = NULL, ![At(L, Len(L))] = n]
    BY LastIsLast DEF Link
  <2> QED BY <2>1, <2>2 DEF ProcessType
<1>7. \A k \in 0..Len(M) : next'[At(M, k)] = IF k = Len(M) THEN NULL ELSE M[k + 1]
  <2> SUFFICES ASSUME NEW k \in 0..Len(M)
               PROVE  next'[At(M, k)] = IF k = Len(M) THEN NULL ELSE M[k + 1]
    OBVIOUS
  <2>1. CASE k = Len(M)
    <3>1. At(M, k) = n
      BY <1>1, <2>1 DEF At
    <3> QED BY <1>6, <2>1, <3>1
  <2>2. CASE k = Len(L)
    <3>1. At(M, k) = At(L, Len(L)) /\ k # Len(M) /\ M[k + 1] = n
      BY <1>1, <2>2 DEF At
    <3> QED BY <1>6, <3>1
  <2>3. CASE k # Len(M) /\ k # Len(L)
    <3>1. k \in 0..Len(L) /\ k + 1 \in 1..Len(L) /\ Len(L) \in 0..Len(L)
      BY <1>1, <2>3
    <3>2. At(M, k) = At(L, k) /\ M[k + 1] = L[k + 1]
      BY <1>1, <3>1 DEF At
    <3>3. At(L, k) # n /\ At(L, k) # At(L, Len(L)) /\ At(L, k) \in Node \cup {NULL}
      <4>1. At(L, k) # n
        BY <1>1, <1>3, <3>1, GatherFacts DEF At
      <4> QED BY <2>3, <3>1, <4>1, ChainPlaces
    <3>4. next[At(L, k)] = L[k + 1]
      BY <2>3, <3>1 DEF Chain
    <3> QED BY <1>6, <2>3, <3>2, <3>3, <3>4
  <2> QED BY <2>1, <2>2, <2>3
<1>8. \A k : At(M, k)' = At(M, k)
  BY DEF At
<1> QED BY <1>1, <1>4, <1>5, <1>7, <1>8 DEF Chain, M, At

\* A node is unlinked and freed: those behind it move up.
LEMMA ChainClose ==
  ASSUME ProcessType, NEW L, Chain(L), NEW n \in Node, dlclose(n)
  PROVE  \E m \in 1..Len(L) : L[m] = n /\ Chain(Without(L, m))'
<1>1. node[n] # NULL
  BY DEF dlclose
<1>2. PICK m \in 1..Len(L) : L[m] = n
  BY <1>1 DEF Chain
<1> DEFINE M == Without(L, m)
<1>3. /\ Len(L) \in Nat /\ L \in Seq(Node) /\ m \in Nat /\ m > 0 /\ m <= Len(L)
      /\ \A k \in 1..Len(L) : L[k] \in Node /\ L[k] # NULL /\ node[L[k]] # NULL
  BY <1>2, ChainPlaces DEF Chain
<1>4. /\ M \in Seq(Node) /\ Len(M) = Len(L) - 1
      /\ \A k \in 1..Len(M) : M[k] = IF k < m THEN L[k] ELSE L[k + 1]
  <2>1. \A k \in 1..(Len(L) - 1) : k \in 1..Len(L) /\ k + 1 \in 1..Len(L)
    BY <1>3
  <2> QED BY <1>3, <2>1 DEF Without
<1> HIDE DEF M
<1>5. \A k \in 1..Len(M) : k \in 1..Len(L) /\ k + 1 \in 1..Len(L)
  BY <1>3, <1>4
<1>6. \A j, k \in 1..Len(M) : M[j] = M[k] => j = k
  <2> SUFFICES ASSUME NEW j \in 1..Len(M), NEW k \in 1..Len(M), M[j] = M[k]
               PROVE  j = k
    OBVIOUS
  <2>1. PICK p \in 1..Len(L), q \in 1..Len(L) :
          /\ M[j] = L[p] /\ M[k] = L[q]
          /\ p = IF j < m THEN j ELSE j + 1
          /\ q = IF k < m THEN k ELSE k + 1
    BY <1>4, <1>5
  <2>2. p = q
    <3>1. L[p] = L[q]
      BY <2>1
    <3> QED BY <3>1 DEF Chain
  <2> QED BY <1>3, <1>4, <2>1, <2>2
<1>7. \A p \in Node : node'[p] # NULL <=> \E k \in 1..Len(M) : M[k] = p
  <2>1. node'[n] = NULL /\ \A p \in Node : p # n => node'[p] = node[p]
    BY DEF dlclose, ProcessType
  <2> SUFFICES ASSUME NEW p \in Node
               PROVE  node'[p] # NULL <=> \E k \in 1..Len(M) : M[k] = p
    OBVIOUS
  <2>2. ASSUME NEW k \in 1..Len(M), M[k] = p PROVE node'[p] # NULL
    <3>1. PICK q \in 1..Len(L) : M[k] = L[q] /\ q # m
      <4>1. k \in 1..Len(L) /\ k + 1 \in 1..Len(L) /\ k \in Nat
        BY <1>5
      <4>2. M[k] = IF k < m THEN L[k] ELSE L[k + 1]
        BY <1>4
      <4>3. CASE k < m
        BY <1>3, <4>1, <4>2, <4>3
      <4>4. CASE ~(k < m)
        <5>1. k + 1 # m
          BY <1>3, <4>1, <4>4
        <5> QED BY <4>1, <4>2, <4>4, <5>1
      <4> QED BY <4>3, <4>4
    <3>2. p # n
      BY <1>2, <2>2, <3>1 DEF Chain
    <3> QED BY <1>3, <2>1, <2>2, <3>1, <3>2
  <2>3. ASSUME node'[p] # NULL PROVE \E k \in 1..Len(M) : M[k] = p
    <3>1. p # n /\ node[p] # NULL
      BY <2>1, <2>3
    <3>2. PICK q \in 1..Len(L) : L[q] = p
      BY <3>1 DEF Chain
    <3>3. q # m
      BY <1>2, <3>1, <3>2
    <3>4. CASE q < m
      <4>1. q \in 1..Len(M)
        BY <1>3, <1>4, <3>4
      <4> QED BY <1>4, <3>2, <3>4, <4>1
    <3>5. CASE q > m
      <4>1. q - 1 \in 1..Len(M) /\ ~(q - 1 < m) /\ (q - 1) + 1 = q
        BY <1>3, <1>4, <3>5
      <4> QED BY <1>4, <3>2, <4>1
    <3> QED BY <1>3, <3>3, <3>4, <3>5
  <2> QED BY <2>2, <2>3
<1>8. At(L, m - 1) \in Node \cup {NULL} /\ m - 1 \in 0..Len(L) /\ next[At(L, m - 1)] = n
  <2>1. m - 1 \in 0..Len(L) /\ m - 1 # Len(L) /\ (m - 1) + 1 = m
    BY <1>3
  <2> QED BY <1>2, <2>1, ChainPlaces DEF Chain
<1>9. next' = [next EXCEPT ![At(L, m - 1)] = next[n]]
  <2>1. At(L, m - 1) = NULL \/ node[At(L, m - 1)] # NULL
    BY <1>3, <1>8 DEF At
  <2>2. \A p \in Node \cup {NULL} :
          (p = NULL \/ node[p] # NULL) /\ next[p] = n => p = At(L, m - 1)
    <3> SUFFICES ASSUME NEW p \in Node \cup {NULL}, p = NULL \/ node[p] # NULL, next[p] = n
                 PROVE  p = At(L, m - 1)
      OBVIOUS
    <3>1. PICK k \in 0..Len(L) : p = At(L, k)
      BY ChainPlaces
    <3>2. k # Len(L)
      BY <3>1, GatherFacts DEF Chain
    <3>3. L[k + 1] = L[m] /\ k + 1 \in 1..Len(L)
      BY <1>2, <1>3, <3>1, <3>2 DEF Chain
    <3>4. k + 1 = m
      BY <3>3 DEF Chain
    <3>5. k = m - 1
      BY <1>3, <3>4
    <3> QED BY <3>1, <3>5
  <2>3. (CHOOSE p \in Node \cup {NULL} : (p = NULL \/ node[p] # NULL) /\ next[p] = n)
          = At(L, m - 1)
    BY <1>8, <2>1, <2>2
  <2> QED BY <2>3 DEF dlclose
<1>10. next[n] = IF m = Len(L) THEN NULL ELSE L[m + 1]
  <2>1. At(L, m) = n /\ m \in 0..Len(L)
    BY <1>2, <1>3 DEF At
  <2> QED BY <2>1 DEF Chain
<1>11. \A k \in 0..Len(M) : next'[At(M, k)] = IF k = Len(M) THEN NULL ELSE M[k + 1]
  <2> SUFFICES ASSUME NEW k \in 0..Len(M)
               PROVE  next'[At(M, k)] = IF k = Len(M) THEN NULL ELSE M[k + 1]
    OBVIOUS
  <2>1. CASE k < m - 1
    <3>1. k \in 0..Len(L) /\ k # m - 1 /\ k # Len(M) /\ k # Len(L) /\ k + 1 \in 1..Len(M) /\ k + 1 < m
      BY <1>3, <1>4, <2>1
    <3>2. At(M, k) = At(L, k) /\ M[k + 1] = L[k + 1]
      BY <1>3, <1>4, <3>1 DEF At
    <3>3. At(L, k) # At(L, m - 1) /\ At(L, k) \in Node \cup {NULL}
      BY <1>8, <3>1, ChainPlaces
    <3>4. next'[At(L, k)] = next[At(L, k)]
      BY <1>8, <1>9, <3>3 DEF ProcessType
    <3> QED BY <3>1, <3>2, <3>4 DEF Chain
  <2>2. CASE k = m - 1
    <3>1. At(M, k) = At(L, m - 1)
      BY <1>3, <1>4, <2>2 DEF At
    <3>2. next'[At(L, m - 1)] = next[n]
      BY <1>8, <1>9 DEF ProcessType
    <3>3. k = Len(M) <=> m = Len(L)
      BY <1>3, <1>4, <2>2
    <3>4. k # Len(M) => M[k + 1] = L[m + 1]
      BY <1>3, <1>4, <2>2
    <3> QED BY <1>10, <3>1, <3>2, <3>3, <3>4
  <2>3. CASE k > m - 1
    <3>1. k \in 1..Len(M) /\ k + 1 \in 0..Len(L) /\ k + 1 # m - 1 /\ ~(k < m)
      BY <1>3, <1>4, <2>3
    <3>2. At(M, k) = At(L, k + 1)
      BY <1>3, <1>4, <3>1 DEF At
    <3>3. At(L, k + 1) # At(L, m - 1) /\ At(L, k + 1) \in Node \cup {NULL}
      BY <1>8, <3>1, ChainPlaces
    <3>4. next'[At(L, k + 1)] = next[At(L, k + 1)]
      BY <1>8, <1>9, <3>3 DEF ProcessType
    <3>5. next[At(L, k + 1)] = IF k + 1 = Len(L) THEN NULL ELSE L[(k + 1) + 1]
      BY <3>1 DEF Chain
    <3>6. k + 1 = Len(L) <=> k = Len(M)
      BY <1>3, <1>4
    <3>7. k # Len(M) => M[k + 1] = L[(k + 1) + 1]
      <4> SUFFICES ASSUME k # Len(M) PROVE M[k + 1] = L[(k + 1) + 1]
        OBVIOUS
      <4>1. k + 1 \in 1..Len(M) /\ ~(k + 1 < m)
        BY <1>3, <1>4, <3>1
      <4> QED BY <1>4, <4>1
    <3> QED BY <3>2, <3>4, <3>5, <3>6, <3>7
  <2> QED BY <1>3, <1>4, <2>1, <2>2, <2>3
<1>12. Chain(M)'
  BY <1>4, <1>6, <1>7, <1>11 DEF Chain, At
<1> QED BY <1>2, <1>12 DEF M

-----------------------------------------------------------------------------
(***************************************************************************)
(* The walk along the list.                                                *)
(***************************************************************************)

\* An object that is there all the time and not listed yet.
Missing(o) == o \in always /\ o \notin Listed

\* Unless the walk was cut, the objects that are still to be listed lie in front
\* of it: from the node that is read next on, or in the copy that is held.
Walk(L) ==
  ~cut =>
    /\ pc = "walk" =>
         /\ cur # NULL => node[cur] # NULL
         /\ \A k \in 1..Len(L) : Missing(node[L[k]]) => \E j \in 1..k : L[j] = cur
    /\ pc = "name" =>
         /\ node[held.at] = held.obj /\ held.obj # NULL
         /\ held.next # NULL => node[held.next] # NULL
         /\ \A k \in 1..Len(L) : Missing(node[L[k]]) =>
              L[k] = held.at \/ \E j \in 1..k : L[j] = held.next
    /\ pc \in {"libpulp", "libs"} \/ Gathered => always \subseteq Listed

WalkInv == \E L : Chain(L) /\ Walk(L)

\* An object is linked: it was not there all the time.
LEMMA LinkWalk ==
  ASSUME StateInv, NEW L, Chain(L), Walk(L), NEW o \in Obj, NEW n \in Node, NEW b \in Base,
         node[n] = NULL, mapped[b] = NULL, Link(o, n, b),
         UNCHANGED <<toolVars, histVars>>
  PROVE  Walk(Append(L, n))'
<1> DEFINE M == Append(L, n)
<1>1. /\ Len(L) \in Nat /\ Len(M) = Len(L) + 1 /\ M[Len(L) + 1] = n
      /\ \A k \in 1..Len(L) : M[k] = L[k] /\ L[k] \in Node /\ L[k] # n
  BY ChainPlaces DEF Chain
<1> HIDE DEF M
<1>2. node'[n] = o /\ (\A m \in Node : m # n => node'[m] = node[m]) /\ o \notin always
  BY DEF Link, StateInv, ProcessType, MemInv
<1>3. UNCHANGED <<pc, cur, held, targets, ret, always, cut, Listed>>
  BY DEF toolVars, walkVars, histVars, Listed
<1>4. \A k \in 1..Len(M) : Missing(node[M[k]])' =>
        k \in 1..Len(L) /\ Missing(node[L[k]]) /\ M[k] = L[k]
  <2> SUFFICES ASSUME NEW k \in 1..Len(M), Missing(node[M[k]])'
               PROVE  k \in 1..Len(L) /\ Missing(node[L[k]]) /\ M[k] = L[k]
    OBVIOUS
  <2>1. node'[M[k]] \in always /\ node'[M[k]] \notin Listed
    BY <1>3 DEF Missing
  <2>2. k # Len(L) + 1
    BY <1>1, <1>2, <2>1
  <2>3. k \in 1..Len(L)
    BY <1>1, <2>2
  <2> QED BY <1>1, <1>2, <2>1, <2>3 DEF Missing
<1>5. \A k \in 1..Len(L) : \A j \in 1..k : M[j] = L[j]
  BY <1>1
<1>6. \A m \in Node : node[m] # NULL => node'[m] = node[m]
  BY <1>2
<1>7. cur # NULL => cur \in Node
  BY DEF StateInv, ToolType
<1>8. pc = "name" => held.at \in Node /\ (held.next # NULL => held.next \in Node)
  BY DEF StateInv, ToolType, LinkMap
<1> SUFFICES ASSUME ~cut PROVE Walk(M)'
  BY <1>3 DEF Walk, M
<1>9. ASSUME pc = "walk"
      PROVE  /\ cur # NULL => node'[cur] # NULL
             /\ \A k \in 1..Len(M) : Missing(node[M[k]])' => \E j \in 1..k : M[j] = cur
  BY <1>4, <1>5, <1>6, <1>7, <1>9 DEF Walk
<1>10. ASSUME pc = "name"
       PROVE  /\ node'[held.at] = held.obj /\ held.obj # NULL
              /\ held.next # NULL => node'[held.next] # NULL
              /\ \A k \in 1..Len(M) : Missing(node[M[k]])' =>
                   M[k] = held.at \/ \E j \in 1..k : M[j] = held.next
  BY <1>4, <1>5, <1>6, <1>8, <1>10 DEF Walk
<1>11. (pc \in {"libpulp", "libs"} \/ Gathered)' => always \subseteq Listed
  BY <1>3 DEF Walk, Gathered
<1> QED BY <1>3, <1>9, <1>10, <1>11 DEF Walk

\* A node is freed: if the walk was not about to read it, what lies in front of
\* the walk still does.
LEMMA CloseWalk ==
  ASSUME StateInv, NEW L, Chain(L), Walk(L), NEW n \in Node, dlclose(n),
         NEW m \in 1..Len(L), L[m] = n
  PROVE  Walk(Without(L, m))'
<1> DEFINE M == Without(L, m)
<1>1. /\ Len(L) \in Nat /\ L \in Seq(Node) /\ m \in Nat /\ m > 0 /\ m <= Len(L)
      /\ \A k \in 1..Len(L) : L[k] \in Node
  BY ChainPlaces DEF Chain
<1>2. Len(M) = Len(L) - 1 /\ \A k \in 1..Len(M) : M[k] = IF k < m THEN L[k] ELSE L[k + 1]
  BY <1>1 DEF Without
<1> HIDE DEF M
<1>3. /\ UNCHANGED <<pc, cur, held, targets, ret, Listed>> /\ always' = always \ {node[n]}
      /\ cut' = (cut \/ n \in Ahead)
      /\ \A p \in Node : p # n => node'[p] = node[p]
  BY DEF dlclose, toolVars, walkVars, Listed, StateInv, ProcessType
<1>4. \A p \in 1..Len(L) : p # m => L[p] # n
  BY DEF Chain
\* Where a node of the list is afterwards.
<1>5. ASSUME NEW k \in 1..Len(M)
      PROVE  \E p \in 1..Len(L) :
               /\ p # m /\ M[k] = L[p]
               /\ \A j \in 1..p : j # m => \E i2 \in 1..k : M[i2] = L[j]
  <2> DEFINE p == IF k < m THEN k ELSE k + 1
  <2>1. p \in 1..Len(L) /\ p # m /\ M[k] = L[p] /\ k \in 1..Len(M) /\ k \in Nat
    BY <1>1, <1>2
  <2>2. ASSUME NEW j \in 1..p, j # m PROVE \E i2 \in 1..k : M[i2] = L[j]
    <3>1. CASE j < m
      <4>1. j \in 1..k /\ j \in 1..Len(M)
        BY <1>1, <1>2, <2>1, <2>2, <3>1
      <4> QED BY <1>2, <3>1, <4>1
    <3>2. CASE j > m
      <4>1. j - 1 \in 1..k /\ j - 1 \in 1..Len(M) /\ ~(j - 1 < m) /\ (j - 1) + 1 = j
        BY <1>1, <1>2, <2>1, <2>2, <3>2
      <4> QED BY <1>2, <4>1
    <3>3. j \in Nat /\ m \in Nat
      BY <1>1, <2>1
    <3>4. j < m \/ j > m
      BY <2>2, <3>3
    <3> QED BY <3>1, <3>2, <3>4
  <2> HIDE DEF p
  <2> QED BY <2>1, <2>2
<1>6. \A p \in 1..Len(L) : p # m /\ Missing(node[L[p]])' => Missing(node[L[p]])
  BY <1>1, <1>3, <1>4 DEF Missing
<1> SUFFICES ASSUME ~cut, n \notin Ahead PROVE Walk(M)'
  BY <1>3 DEF Walk, M
<1>7. ASSUME pc = "walk"
      PROVE  /\ cur # NULL => node'[cur] # NULL
             /\ \A k \in 1..Len(M) : Missing(node[M[k]])' => \E j \in 1..k : M[j] = cur
  <2>1. cur # n /\ (cur # NULL => cur \in Node)
    BY <1>7 DEF Ahead, StateInv, ToolType
  <2>2. ASSUME NEW k \in 1..Len(M), Missing(node[M[k]])' PROVE \E j \in 1..k : M[j] = cur
    <3>1. PICK p \in 1..Len(L) :
               /\ p # m /\ M[k] = L[p]
               /\ \A j \in 1..p : j # m => \E i2 \in 1..k : M[i2] = L[j]
      BY <1>5
    <3>2. Missing(node[L[p]])'
      BY <2>2, <3>1 DEF Missing
    <3>3. PICK j \in 1..p : L[j] = cur
      BY <1>6, <1>7, <3>1, <3>2 DEF Walk
    <3>4. j # m
      BY <2>1, <3>3
    <3> QED BY <3>1, <3>3, <3>4
  <2> QED BY <1>3, <1>7, <2>1, <2>2 DEF Walk
<1>8. ASSUME pc = "name"
      PROVE  /\ node'[held.at] = held.obj /\ held.obj # NULL
             /\ held.next # NULL => node'[held.next] # NULL
             /\ \A k \in 1..Len(M) : Missing(node[M[k]])' =>
                  M[k] = held.at \/ \E j \in 1..k : M[j] = held.next
  <2>1. /\ held.at # n /\ held.next # n /\ held.at \in Node
        /\ held.next # NULL => held.next \in Node
    BY <1>8 DEF Ahead, StateInv, ToolType, LinkMap
  <2>2. ASSUME NEW k \in 1..Len(M), Missing(node[M[k]])'
        PROVE  M[k] = held.at \/ \E j \in 1..k : M[j] = held.next
    <3>1. PICK p \in 1..Len(L) :
               /\ p # m /\ M[k] = L[p]
               /\ \A j \in 1..p : j # m => \E i2 \in 1..k : M[i2] = L[j]
      BY <1>5
    <3>2. Missing(node[L[p]])'
      BY <2>2, <3>1 DEF Missing
    <3>3. L[p] = held.at \/ \E j \in 1..p : L[j] = held.next
      BY <1>6, <1>8, <3>1, <3>2 DEF Walk
    <3>4. \A j \in 1..p : L[j] = held.next => j # m
      BY <2>1
    <3> QED BY <3>1, <3>3, <3>4
  <2> QED BY <1>3, <1>8, <2>1, <2>2 DEF Walk
<1>9. (pc \in {"libpulp", "libs"} \/ Gathered)' => always' \subseteq Listed
  BY <1>3 DEF Walk, Gathered
<1> QED BY <1>3, <1>7, <1>8, <1>9 DEF Walk

\* The objects that are loaded are those of the nodes of the list.
LEMMA LoadedInChain ==
  ASSUME NEW L, Chain(L), NEW o \in Loaded
  PROVE  \E k \in 1..Len(L) : node[L[k]] = o
<1>1. PICK n \in Node : node[n] = o /\ o # NULL
  BY DEF Loaded
<1>2. PICK k \in 1..Len(L) : L[k] = n
  BY <1>1 DEF Chain
<1> QED BY <1>1, <1>2

\* The node that is read next is copied, or could not be read because the process
\* is gone.
LEMMA CopyWalk ==
  ASSUME StateInv, NEW L, Chain(L), Walk(L), CopyLinkMap
  PROVE  Walk(L)'
<1>1. /\ pc = "walk" /\ cur # NULL /\ cur \in Node /\ ~Gathered'
      /\ UNCHANGED <<node, next, targets, cut, always, Listed>>
  BY DEF CopyLinkMap, procVars, histVars, Listed, StateInv, ToolType, Gathered
<1> SUFFICES ASSUME ~cut PROVE Walk(L)'
  BY <1>1 DEF Walk
<1>2. node[cur] # NULL /\ \A k \in 1..Len(L) : Missing(node[L[k]]) => \E j \in 1..k : L[j] = cur
  BY <1>1 DEF Walk
<1>3. \A k : Missing(node[L[k]])' <=> Missing(node[L[k]])
  BY <1>1 DEF Missing
<1>4. CASE /\ pc' = "name"
           /\ held' = [at |-> cur, next |-> next[cur],
                       obj  |-> IF node[cur] # NULL THEN node[cur] ELSE Junk,
                       base |-> IF node[cur] # NULL THEN BaseOf(node[cur]) ELSE NULL]
  <2>1. held'.at = cur /\ held'.next = next[cur] /\ held'.obj = node[cur]
    BY <1>2, <1>4
  <2>2. PICK c \in 1..Len(L) : L[c] = cur
    BY <1>1, <1>2 DEF Chain
  <2>3. Len(L) \in Nat /\ c \in 0..Len(L) /\ c # 0 /\ At(L, c) = cur
    BY <2>2, ChainPlaces DEF At
  <2>4. next[cur] = IF c = Len(L) THEN NULL ELSE L[c + 1]
    BY <2>3 DEF Chain
  <2>5. next[cur] # NULL => node[next[cur]] # NULL
    <3>1. c # Len(L) => c + 1 \in 1..Len(L)
      BY <2>2, <2>3
    <3> QED BY <2>4, <3>1, ChainPlaces
  <2>6. ASSUME NEW k \in 1..Len(L), Missing(node[L[k]])
        PROVE  L[k] = cur \/ \E j \in 1..k : L[j] = next[cur]
    <3>1. PICK j \in 1..k : L[j] = cur
      BY <1>2, <2>6
    <3>2. j = c /\ c \in 1..k
      <4>1. j \in 1..Len(L)
        BY <2>3
      <4>2. L[j] = L[c]
        BY <2>2, <3>1
      <4>3. j = c
        BY <4>1, <4>2 DEF Chain
      <4> QED BY <3>1, <4>3
    <3>3. CASE c = k
      BY <2>2, <3>3
    <3>4. CASE c # k
      <4>1. c + 1 \in 1..k /\ c # Len(L)
        BY <2>3, <3>2, <3>4
      <4> QED BY <2>4, <4>1
    <3> QED BY <3>3, <3>4
  <2> QED BY <1>1, <1>2, <1>3, <1>4, <2>1, <2>5, <2>6 DEF Walk
<1>5. CASE (~Alive \/ node[cur] = NULL) /\ pc' = "libpulp"
  <2>1. always = {}
    BY <1>2, <1>5 DEF StateInv, MemInv
  <2> QED BY <1>1, <1>5, <2>1 DEF Walk
<1> QED BY <1>4, <1>5 DEF CopyLinkMap

\* The object whose node is held is listed, and the walk goes on behind it.
LEMMA NameWalk ==
  ASSUME StateInv, NEW L, Chain(L), Walk(L), ReadName
  PROVE  Walk(L)'
<1>1. /\ pc = "name" /\ UNCHANGED <<node, cut, always>> /\ ~Gathered'
      /\ held \in LinkMap /\ targets \in Seq(Entry) /\ Len(targets) \in Nat
  BY DEF ReadName, procVars, histVars, StateInv, ToolType, Gathered
<1> SUFFICES ASSUME ~cut PROVE Walk(L)'
  BY <1>1 DEF Walk
<1>2. /\ node[held.at] = held.obj /\ held.obj # NULL
      /\ held.next # NULL => node[held.next] # NULL
      /\ \A k \in 1..Len(L) : Missing(node[L[k]]) =>
           L[k] = held.at \/ \E j \in 1..k : L[j] = held.next
  BY <1>1 DEF Walk
<1>3. held.obj \in Loaded
  BY <1>1, <1>2 DEF Loaded, LinkMap
<1>4. CASE \E o \in Object : /\ targets' = Append(targets, Dynobj(Name[o], held))
                             /\ cur' = held.next /\ pc' = "walk"
  <2>1. PICK o \in Object : targets' = Append(targets, Dynobj(Name[o], held))
    BY <1>4
  <2>2. Dynobj(Name[o], held) \in Entry /\ Dynobj(Name[o], held).obj = held.obj
    BY <1>1 DEF Dynobj, Entry, LinkMap
  <2>3. /\ Len(targets') = Len(targets) + 1 /\ targets' \in Seq(Entry)
        /\ targets'[Len(targets) + 1].obj = held.obj
        /\ \A k \in 1..Len(targets) : targets'[k] = targets[k]
    BY <1>1, <2>1, <2>2
  <2>4. Listed \subseteq Listed' /\ held.obj \in Listed'
    BY <1>1, <2>3 DEF Listed
  <2>5. \A k \in 1..Len(L) : Missing(node[L[k]])' => \E j \in 1..k : L[j] = held.next
    BY <1>1, <1>2, <2>4 DEF Missing
  <2> QED BY <1>1, <1>2, <1>4, <2>5 DEF Walk
<1>5. CASE (~Alive \/ held.obj \notin Loaded) /\ pc' = "libpulp"
  <2>1. always = {}
    BY <1>3, <1>5 DEF StateInv, MemInv
  <2> QED BY <1>1, <1>5, <2>1 DEF Walk
<1>6. {held.obj} \cup (IF held.obj \in Loaded THEN {} ELSE {Junk}) \subseteq Object
  BY <1>1 DEF LinkMap, Object
<1> QED BY <1>4, <1>5, <1>6 DEF ReadName

\* Parsing an object does not change which it is.
LEMMA ParseListed ==
  ASSUME StateInv, ParseLibpulp \/ ParseLib
  PROVE  Listed' = Listed
<1>1. targets \in Seq(Entry) /\ Len(targets) \in Nat /\ pulp \in 0..Len(targets) /\ i \in 0..Len(targets)
  BY DEF StateInv, ToolType
<1>2. \/ targets' = targets
      \/ \E k \in 1..Len(targets) :
           \/ targets' = [targets EXCEPT ![k] = targets[k]]
           \/ targets' = [targets EXCEPT ![k] = parse_lib_dynobj(targets[k])]
  BY <1>1 DEF ParseLibpulp, ParseLib
<1>3. ASSUME NEW k \in 1..Len(targets), NEW t \in Entry, t.obj = targets[k].obj,
             targets' = [targets EXCEPT ![k] = t]
      PROVE  Listed' = Listed
  <2>1. /\ DOMAIN targets' = DOMAIN targets
        /\ \A j \in DOMAIN targets : targets'[j].obj = targets[j].obj
    BY <1>1, <1>3
  <2> QED BY <2>1 DEF Listed
<1>4. \A k \in 1..Len(targets) :
        /\ targets[k] \in Entry /\ parse_lib_dynobj(targets[k]) \in Entry
        /\ parse_lib_dynobj(targets[k]).obj = targets[k].obj
  BY <1>1, ParseType DEF StateInv
<1>5. CASE targets' = targets
  BY <1>5 DEF Listed
<1> QED BY <1>2, <1>3, <1>4, <1>5

\* Every step keeps the objects that are not listed yet in front of the walk.
LEMMA NextWalkInv == StateInv /\ WalkInv /\ [Next]_vars => WalkInv'
<1> SUFFICES ASSUME StateInv, WalkInv, [Next]_vars PROVE \E L : Chain(L)' /\ Walk(L)'
  BY DEF WalkInv
<1>1. PICK L : Chain(L) /\ Walk(L)
  BY DEF WalkInv
<1>2. ASSUME UNCHANGED <<node, next>> PROVE Chain(L)'
  BY <1>1, <1>2 DEF Chain, At
<1>3. CASE SetDebug \/ Constructors \/ Exit \/ UNCHANGED vars
  <2>1. /\ UNCHANGED <<node, next, pc, cur, held, targets, ret, Listed, cut>>
        /\ always' \subseteq always
    BY <1>3 DEF SetDebug, Constructors, Exit, vars, procVars, toolVars, walkVars, histVars, Listed
  <2>2. \A k : Missing(node[L[k]])' => Missing(node[L[k]])
    BY <2>1 DEF Missing
  <2>3. (Gathered' => Gathered) /\ Listed' = Listed
    BY <2>1 DEF Gathered
  <2> QED BY <1>1, <1>2, <2>1, <2>2, <2>3 DEF Walk
<1>4. CASE \E o \in Obj : Startup(o) \/ dlopen(o)
  <2>1. PICK o \in Obj, n \in Node, b \in Base :
          Link(o, n, b) /\ node[n] = NULL /\ mapped[b] = NULL
    <3>1. PICK o \in Obj : Startup(o) \/ dlopen(o)
      BY <1>4
    <3>2. CASE Startup(o)
      BY <3>2 DEF Startup, FreeNode, FreeBase
    <3>3. CASE dlopen(o)
      BY <3>3 DEF dlopen, FreeNode, FreeBase
    <3> QED BY <3>1, <3>2, <3>3
  <2>2. UNCHANGED <<toolVars, histVars>>
    BY <1>4 DEF Startup, dlopen
  <2>3. Chain(Append(L, n))' /\ Walk(Append(L, n))'
    BY <1>1, <2>1, <2>2, ChainLink, LinkWalk DEF StateInv
  <2> QED BY <2>3
<1>5. CASE \E n \in Node : dlclose(n)
  BY <1>1, <1>5, ChainClose, CloseWalk DEF StateInv
<1>6. CASE CopyLinkMap \/ ReadName
  <2>1. UNCHANGED <<node, next>>
    BY <1>6 DEF CopyLinkMap, ReadName, procVars
  <2> QED BY <1>1, <1>2, <1>6, <2>1, CopyWalk, NameWalk
<1>7. CASE parse_main_dynobj
  <2>1. /\ UNCHANGED <<node, next, cut, always>>
        /\ \/ cur' = next[NULL] /\ pc' = "walk"
           \/ pc' = "detach" /\ ret' = "ETARGETHOOK"
    BY <1>7 DEF parse_main_dynobj, procVars, histVars
  <2>2. next[NULL] = IF Len(L) = 0 THEN NULL ELSE L[1]
    <3>1. Len(L) \in Nat /\ 0 \in 0..Len(L) /\ At(L, 0) = NULL
      BY <1>1, ChainPlaces DEF At
    <3> QED BY <1>1, <3>1 DEF Chain
  <2>3. next[NULL] # NULL => node[next[NULL]] # NULL
    <3>1. Len(L) # 0 => 1 \in 1..Len(L)
      BY <1>1, ChainPlaces
    <3> QED BY <1>1, <2>2, <3>1, ChainPlaces
  <2>4. \A k \in 1..Len(L) : \E j \in 1..k : L[j] = next[NULL]
    <3> TAKE k \in 1..Len(L)
    <3>1. 1 \in 1..k /\ Len(L) # 0
      BY <1>1, ChainPlaces
    <3> QED BY <2>2, <3>1
  <2> QED BY <1>1, <1>2, <2>1, <2>3, <2>4 DEF Walk, Gathered
<1>8. CASE EndOfList
  <2>1. /\ UNCHANGED <<node, next, cut, always, targets, Listed>>
        /\ pc = "walk" /\ cur = NULL /\ pc' = "libpulp"
    BY <1>8 DEF EndOfList, procVars, histVars, walkVars, Listed
  <2>2. ~cut => always \subseteq Listed
    <3> SUFFICES ASSUME ~cut, NEW o \in always PROVE o \in Listed
      OBVIOUS
    <3>1. PICK k \in 1..Len(L) : node[L[k]] = o
      BY <1>1, LoadedInChain DEF StateInv, MemInv
    <3>2. \A j \in 1..k : j \in 1..Len(L) /\ L[j] # NULL
      BY <1>1, ChainPlaces
    <3> QED BY <1>1, <2>1, <3>1, <3>2 DEF Walk, Missing
  <2> QED BY <1>1, <1>2, <2>1, <2>2 DEF Walk
<1>9. CASE ParseLibpulp \/ ParseLib
  <2>1. /\ UNCHANGED <<node, next, cut, always>>
        /\ pc \in {"libpulp", "libs"} /\ pc' \notin {"walk", "name"}
    BY <1>9 DEF ParseLibpulp, ParseLib, procVars, histVars
  <2>2. Listed' = Listed
    BY <1>9, ParseListed
  <2> QED BY <1>1, <1>2, <2>1, <2>2 DEF Walk
<1>10. CASE attach
  <2>1. UNCHANGED <<node, next>> /\ pc' \in {"main", "detach"} /\ (pc' = "detach" => ret' # "ok")
    BY <1>10 DEF attach, procVars
  <2> QED BY <1>1, <1>2, <2>1 DEF Walk, Gathered
<1>11. CASE Find \/ ReadState \/ detach \/ check_patch_sanity \/ ulp_read_state \/ print_process
  <2>1. /\ UNCHANGED <<node, next, cut, always, targets, Listed>>
        /\ pc' \notin {"walk", "name", "libpulp", "libs"}
        /\ Gathered' => Gathered \/ pc = "libs"
    BY <1>11 DEF Find, ReadState, detach, check_patch_sanity, ulp_read_state, print_process,
       procVars, histVars, walkVars, Listed, Gathered, StateInv, ToolType
  <2> QED BY <1>1, <1>2, <2>1 DEF Walk
<1> QED BY <1>3, <1>4, <1>5, <1>6, <1>7, <1>8, <1>9, <1>10, <1>11 DEF Next, Process, Tool

\* Nothing is linked at the start.
LEMMA InitWalkInv == Init => WalkInv
<1> SUFFICES ASSUME Init PROVE Chain(<< >>) /\ Walk(<< >>)
  BY DEF WalkInv
<1>1. Chain(<< >>)
  <2>1. << >> \in Seq(Node) /\ Len(<< >>) = 0
    OBVIOUS
  <2>2. \A n \in Node : node[n] = NULL
    BY DEF Init
  <2>3. next[NULL] = NULL
    BY DEF Init
  <2> QED BY <2>1, <2>2, <2>3 DEF Chain, At
<1>2. Walk(<< >>)
  BY DEF Init, Walk, Gathered
<1> QED BY <1>1, <1>2

\* Whatever is loaded and unloaded during the walk, and however often nodes and
\* addresses are used again, the objects that are there all the time are listed,
\* unless the very node the tool was about to read was freed
\* (get_libname_dynobj, parse_libs_dynobj).
THEOREM AllListed == Spec => []ListedAll
<1>1. WalkInv => ListedAll
  BY DEF WalkInv, Walk, Gathered, ListedAll
<1> QED BY <1>1, InitStateInv, NextStateInv, InitWalkInv, NextWalkInv, PTL DEF Spec

-----------------------------------------------------------------------------
(***************************************************************************)
(* What is refused is refused rightly.                                     *)
(***************************************************************************)

\* An object that was listed has an entry.
LEMMA ListedEntry ==
  ASSUME StateInv, NEW o \in Listed
  PROVE  \E k \in 1..Len(targets) : targets[k].obj = o
BY DEF Listed, StateInv, ToolType

\* Every step keeps refusals right.
LEMMA NextRefused ==
  StateInv /\ KnownInv /\ WalkInv /\ RefusedRightly /\ [Next]_vars => RefusedRightly'
<1> SUFFICES ASSUME StateInv, KnownInv, WalkInv, RefusedRightly, [Next]_vars, ~cut'
             PROVE  /\ (pc = "detach" /\ phase = "running" /\ ret \in {"ENOLIBPULP", "EAGAIN"})'
                          => Pulp \notin always'
                    /\ (pc = "done" /\ ret \in {"ENOTARGETLIB", "EBUILDID"})'
                          => Target \notin always'
  BY DEF RefusedRightly
<1>1. CASE Process \/ UNCHANGED vars
  <2>1. /\ UNCHANGED <<pc, ret, stopped>> /\ always' \subseteq always /\ ~cut
        /\ phase' = "running" /\ phase # "running" => ~stopped
    BY <1>1, ProcessEffect DEF vars, procVars, toolVars, histVars
  <2>2. pc = "detach" /\ ret \in {"ENOLIBPULP", "EAGAIN"} => stopped
    BY DEF StateInv, ControlInv
  <2> QED BY <2>1, <2>2 DEF RefusedRightly
<1>2. CASE ParseLibpulp
  <2>1. UNCHANGED <<always, cut>> /\ pc = "libpulp" /\ pc' \in {"detach", "libs"}
    BY <1>2 DEF ParseLibpulp, histVars
  <2>2. pc' = "detach" => pulp = 0
    BY <1>2 DEF ParseLibpulp
  <2>3. ASSUME pulp = 0, Pulp \in always PROVE FALSE
    <3>1. Pulp \in Listed
      BY <2>1, <2>3 DEF WalkInv, Walk
    <3>2. PICK k \in 1..Len(targets) : targets[k].obj = Pulp
      BY <3>1, ListedEntry
    <3>3. targets[k].name = Name[Pulp]
      BY <2>3, <3>2 DEF KnownInv, TargetInv, Faithful
    <3>4. PulpName(targets[k].name)
      BY <3>3, GatherFacts DEF PulpName
    <3> QED BY <2>3, <3>4 DEF KnownInv, TargetInv
  <2> QED BY <2>1, <2>2, <2>3
<1>3. CASE ReadState
  <2>1. /\ UNCHANGED <<always, cut, phase>> /\ pc = "libs" /\ i = 0 /\ pc' = "detach"
        /\ ret' = IF phase = "running" /\ targets[pulp].state THEN "ok" ELSE "EAGAIN"
    BY <1>3 DEF ReadState, histVars, procVars
  <2>2. ASSUME Pulp \in always PROVE targets[pulp].state
    <3>1. Pulp \in Listed
      BY <2>1, <2>2 DEF WalkInv, Walk
    <3>2. PICK k \in 1..Len(targets) : targets[k].obj = Pulp
      BY <3>1, ListedEntry
    <3>3. k > i
      BY <2>1, <3>2 DEF StateInv, ToolType
    <3> QED BY <2>1, <2>2, <3>2, <3>3 DEF KnownInv, ParsedInv
  <2> QED BY <2>1, <2>2
<1>4. CASE check_patch_sanity
  <2>1. /\ UNCHANGED <<always, cut>> /\ pc = "trigger" /\ pc' = "done"
        /\ ret' \in {"ENOTARGETLIB", "EBUILDID"} => Matches = {}
    BY <1>4 DEF check_patch_sanity, histVars
  <2>2. ASSUME Target \in always PROVE Matches # {}
    <3>1. Target \in Listed
      BY <2>1, <2>2 DEF WalkInv, Walk, Gathered
    <3>2. PICK k \in 1..Len(targets) : targets[k].obj = Target
      BY <3>1, ListedEntry
    <3>3. targets[k].name = Name[Target] /\ targets[k].build = Target
      BY <2>1, <2>2, <3>2 DEF KnownInv, TargetInv, ParsedInv, Faithful, Parsed, Gathered
    <3>4. k \in DOMAIN targets
      BY <3>2 DEF StateInv, ToolType
    <3> QED BY <3>3, <3>4 DEF Matches, Named
  <2> QED BY <2>1, <2>2
<1>5. CASE Find \/ attach \/ parse_main_dynobj \/ CopyLinkMap \/ ReadName \/ EndOfList \/ ParseLib
  <2>1. /\ pc' = "detach" => ret' = "ETARGETHOOK"
        /\ pc' = "done" => ret' = "ENOLIBPULP"
    BY <1>5 DEF Find, attach, parse_main_dynobj, CopyLinkMap, ReadName, EndOfList, ParseLib
  <2> QED BY <2>1
<1>6. CASE detach \/ ulp_read_state \/ print_process
  <2>1. /\ UNCHANGED <<always, cut>> /\ pc' # "detach"
        /\ ret' \in {ret, "unpatched"}
    BY <1>6 DEF detach, ulp_read_state, print_process, histVars, StateInv, ToolType
  <2>2. pc' = "done" /\ ret' \in {"ENOTARGETLIB", "EBUILDID"} => FALSE
    BY <1>6 DEF detach, ulp_read_state, print_process, StateInv, ControlInv
  <2> QED BY <2>1, <2>2
<1> QED BY <1>1, <1>2, <1>3, <1>4, <1>5, <1>6 DEF Next, Tool

\* A process that is ready is not refused for want of libpulp, and no process that
\* has the library in the right build all the time is refused a live patch for it,
\* unless the walk was cut short (parse_libs_dynobj, check_patch_sanity).
THEOREM RefusalsRight == Spec => []RefusedRightly
<1>1. Init => RefusedRightly
  BY DEF Init, RefusedRightly
<1> QED BY <1>1, InitStateInv, NextStateInv, InitKnownInv, NextKnownInv, InitWalkInv,
        NextWalkInv, NextRefused, PTL DEF Spec

=============================================================================
