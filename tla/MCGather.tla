------------------------------ MODULE MCGather ------------------------------
(***************************************************************************)
(* libpulp, a library a live patch is for, another build of that library,  *)
(* with more than 8000 symbols, and one without DT_HASH whose path happens *)
(* to contain the name of libpulp and that has been patched.               *)
(***************************************************************************)
EXTENDS Gather

CONSTANTS lp, tg, other, fake, n1, n2, n3, b1, b2, b3

MCObj   == {lp, tg, other, fake}
MCNode  == {n1, n2, n3}
MCBase  == {b1, b2, b3}
MCName  == [o \in MCObj \cup {"junk"} |->
              CASE o = lp -> "libpulp" [] o = fake -> "lookalike"
                [] o \in {tg, other} -> "target" [] OTHER -> "none"]
MCHash  == {lp, tg, other}
MCNops  == {tg, other}
MCBeyond == {other}
MCPulpNamed == {lp, fake}
MCPatched == {fake}
=============================================================================
