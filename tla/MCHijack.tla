------------------------------ MODULE MCHijack ------------------------------
(***************************************************************************)
(* Instances of Hijack for TLC: the main thread and two more, which come   *)
(* and go.                                                                 *)
(***************************************************************************)
EXTENDS Hijack

CONSTANTS m, t1, t2

=============================================================================
