--------------------------- MODULE MCProcessList ---------------------------
(***************************************************************************)
(* The instance of ProcessList for TLC: three processes and a ring of      *)
(* two slots. With the terminating NULL there are four elements, so that   *)
(* the generator thread meets a full ring, and head and tail wrap around.  *)
(* There are two live patches, so that one can fail where the other does   *)
(* not, in the same folder or not.                                         *)
(***************************************************************************)
EXTENDS ProcessList

CONSTANTS q1, q2, q3, a1, a2

=============================================================================
