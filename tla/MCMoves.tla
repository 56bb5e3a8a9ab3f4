-------------------------------- MODULE MCMoves --------------------------------
(* Moves over bodies of four blocks, a statement and a terminator each:      *)
(* branching and joining, looping, with a way out of the middle; a const     *)
(* trap that may go on; a trap that a branch goes round to a join, and one   *)
(* with a loop behind it that comes back to it.                              *)
EXTENDS Moves

MCLocal == {"x", "t", "r"}
MCBlock == 1..4

Reading(how, l) == <<[how |-> how, place |-> Whole(l)]>>
Ins(kind, reads, dest, succs, user, blamed) ==
  [kind |-> kind, reads |-> reads, dest |-> dest, succs |-> succs,
   user |-> user, blamed |-> blamed]

Assign(dest, reads, user) == Ins("assign", reads, dest, <<>>, user, NoLocal)
StorageDead(l) == Ins("dead", <<>>, Whole(l), <<>>, FALSE, NoLocal)

\* Give x a value, borrow it, give it away, write into it, end it; fill the
\* temporary from nothing, or give x what it holds.
Menu == { Assign(Whole("x"), <<>>, TRUE),
          Assign(Whole("r"), Reading("shared", "x"), FALSE),
          Assign(Whole("r"), Reading("copy", "x"), FALSE),
          Assign([local |-> "x", proj |-> <<"f">>], Reading("move", "x"), TRUE),
          StorageDead("x"),
          Assign(Whole("t"), <<>>, FALSE),
          Assign(Whole("x"), Reading("copy", "t"), TRUE) }

\* What takes a parameter without a name apart.
TakeTemporary == Assign(Whole("r"), Reading("copy", "t"), FALSE)

\* A trap of lowering's gives t no value and may blame x.
Trap(k, l) == Ins("trap", <<>>, Whole("t"), <<k>>, FALSE, l)
ConstTrap(k) == Ins("const_trap", <<>>, Nowhere, <<k>>, FALSE, NoLocal)

Goto(k) == Ins("goto", <<>>, Nowhere, <<k>>, FALSE, NoLocal)
Switch(j, k) == Ins("switch", <<>>, Nowhere, <<j, k>>, FALSE, NoLocal)
CallTwice(k) == Ins("call", Reading("move", "x") \o Reading("copy", "x"),
                    Whole("r"), <<k>>, FALSE, NoLocal)
Return == Ins("return", <<>>, Nowhere, <<>>, FALSE, NoLocal)

\* The terminators of the four blocks; a call may read x twice.
Shapes == { <<Switch(2, 3), Goto(4), Goto(4), Return>>,
            <<Switch(2, 3), Trap(3, "x"), Goto(4), Return>>,
            <<Goto(2), Trap(3, NoLocal), Switch(2, 4), Return>>,
            <<Goto(2), Switch(3, 4), ConstTrap(2), Return>>,
            <<Goto(2), Switch(3, 4), CallTwice(2), Return>>,
            <<Switch(2, 4), Switch(3, 4), Switch(1, 2), Return>> }

Linear == [forget |-> FALSE, borrow |-> FALSE, copyable |-> FALSE]
Affine == [forget |-> TRUE, borrow |-> FALSE, copyable |-> FALSE]
Borrow == [forget |-> TRUE, borrow |-> TRUE, copyable |-> FALSE]

\* What x is, and the parameters: of those without a name the first
\* statement takes what there is.
Headers == { <<Linear, {}>>, <<Linear, {"x"}>>, <<Affine, {}>>, <<Borrow, {"x"}>>,
             <<Linear, {"t"}>> }

\* A temporary's type is linear; the return place's is not.
Data(kind) ==
  [l \in MCLocal |->
     [binding |-> l = "x", materialized |-> FALSE,
      forget |-> IF l = "x" THEN kind.forget ELSE l = "r",
      borrow |-> l = "x" /\ kind.borrow, copyable |-> l = "r"]]

MCBodies ==
  { [code |-> [k \in MCBlock |-> <<CASE k = 4 -> StorageDead("x")
                                    [] k = 1 /\ "t" \in h[2] -> TakeTemporary
                                    [] OTHER -> m[k], s[k]>>],
     entry |-> 1, params |-> h[2], ret |-> "r", data |-> Data(h[1])] :
    m \in [1..3 -> Menu], s \in Shapes, h \in Headers }
=============================================================================
