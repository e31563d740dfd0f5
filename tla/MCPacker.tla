------------------------------ MODULE MCPacker ------------------------------
(***************************************************************************)
(* An instance of Packer for TLC: a description may have every kind of     *)
(* line, valid and not; two functions and two variables.                   *)
(***************************************************************************)
EXTENDS Packer

MCTargetSymbols == (<<1>> :> 5) @@ (<<2, 2>> :> 6)

MCPatchSymbols == (<<3>> :> 7) @@ (<<4, 4>> :> 17)

MCLine ==
    {[text |-> 1, kind |-> "comment"],
     [text |-> 2, kind |-> "container", opens |-> TRUE],
     [text |-> 3, kind |-> "object", opens |-> TRUE],
     [text |-> 4, kind |-> "object", opens |-> FALSE],
     [text |-> 5, kind |-> "dep", type |-> 1, id |-> <<2, 2>>],
     [text |-> 7, kind |-> "dep", type |-> 2, id |-> <<2, 4>>],
     [text |-> 8, kind |-> "unit", old |-> <<1>>, new |-> <<3>>],
     [text |-> 9, kind |-> "unit", old |-> <<2, 2>>, new |-> <<4, 4>>],
     [text |-> 10, kind |-> "unit", old |-> <<1>>, new |-> <<5>>],
     [text |-> 11, kind |-> "ref", target |-> <<1>>, ref |-> <<3>>, manual |-> FALSE,
      toff |-> 0, poff |-> 0, tls |-> 1],
     [text |-> 12, kind |-> "ref", target |-> <<2, 2>>, ref |-> <<5>>, manual |-> TRUE,
      toff |-> 0, poff |-> 18, tls |-> 0],
     [text |-> 13, kind |-> "ref", target |-> <<5>>, ref |-> <<5>>, manual |-> TRUE,
      toff |-> 0, poff |-> 3, tls |-> 0],
     [text |-> 14, kind |-> "blank"],
     [text |-> 15, kind |-> "broken"]}

MCLibName == <<6, 6>>

MCBuildId == <<9>>

MCPath == <<7>>

Text(n) == CHOOSE l \in MCLine : l.text = n

MCOlder == <<Text(2), Text(5), Text(3), Text(9), Text(8), Text(11)>>

=============================================================================
