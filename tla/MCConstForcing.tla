--------------------------- MODULE MCConstForcing ---------------------------
(* A small instance of ConstForcing.  Leaves come to anything, a body with   *)
(* one mention returns or loops, one with two mentions returns.              *)
EXTENDS ConstForcing

Body(mentions, own) == [mentions |-> mentions, own |-> own]

MCBodies ==
  {Body(<<>>, own) : own \in Own}
    \cup {Body(<<u>>, own) : u \in Unit, own \in {"value", "loop"}}
    \cup {Body(<<u, v>>, "value") : u \in Unit, v \in Unit}
=============================================================================
