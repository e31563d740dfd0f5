----------------------------- MODULE MCUlpStack -----------------------------
(***************************************************************************)
(* The instance of UlpStack for TLC. A page of one entry makes the stack   *)
(* grow from 0 to 2 and to 6 entries, so that three nested calls meet an    *)
(* empty, a full and a moved stack.                                        *)
(***************************************************************************)
EXTENDS UlpStack, TLC

CONSTANTS s1, s2, v1, a1, a2, a3

\* Addresses and callers are only compared for equality.
Symmetry == Permutations(Addr) \cup Permutations(Site)

=============================================================================
