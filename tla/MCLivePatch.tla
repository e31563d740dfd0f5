---------------------------- MODULE MCLivePatch ----------------------------
(***************************************************************************)
(* Instances of LivePatch for TLC. Library L has functions f1 and f2,      *)
(* library M has f3. Patch p1 replaces f1 and f2 and has one reference to  *)
(* static data, p2 replaces f2, and p3 replaces f3 of the other library.   *)
(* The instances differ in who depends on whom, in which functions can be  *)
(* patched and in the build ids.                                           *)
(***************************************************************************)
EXTENDS LivePatch, TLC

CONSTANTS f1, f2, f3, r1, p1, p2, p3, p4, L, M, id1, id2, id3

MCLibOf == (p1 :> L) @@ (p2 :> L) @@ (p3 :> M)
MCUnits == (p1 :> <<f1, f2>>) @@ (p2 :> <<f2>>) @@ (p3 :> <<f3>>)
MCRefs  == (p1 :> <<r1>>) @@ (p2 :> <<>>) @@ (p3 :> <<>>)

\* Nobody depends on anybody: patches of a library come and go in any order.
NoDeps == [p \in Patch |-> {}]

\* p2 was made on top of p1, and p3 needs nothing.
SameLibDeps == (p1 :> {}) @@ (p2 :> {p1}) @@ (p3 :> {})

\* p3, of library M, needs p1, of library L.
CrossLibDeps == (p1 :> {}) @@ (p2 :> {}) @@ (p3 :> {p1})

MCBuildIdOf == (L :> id1) @@ (M :> id2)
MCTargetBuildId == (p1 :> id1) @@ (p2 :> id1) @@ (p3 :> id2)

\* p2 was made for another build of library L, whose id no library has.
OtherBuild == (p1 :> id1) @@ (p2 :> id3) @@ (p3 :> id2)

\* Three patches of L replace the same function; p4 is for library M.
StackLibOf   == (p4 :> M) @@ [p \in {p1, p2, p3} |-> L]
StackUnits   == (p1 :> <<f1, f2>>) @@ (p4 :> <<f3>>) @@ [p \in {p2, p3} |-> <<f2>>]
StackRefs    == (p1 :> <<r1>>) @@ [p \in {p2, p3, p4} |-> <<>>]
StackBuildId == (p4 :> id2) @@ [p \in {p1, p2, p3} |-> id1]

=============================================================================
