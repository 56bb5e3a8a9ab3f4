-------------------------------- MODULE MCLoans --------------------------------
(* Loans over bodies of three blocks that branch, loop, call or trap: a      *)
(* record a of the body's own, a parameter p pointing at the caller's, a     *)
(* temp t standing for p's place, and pointers to either, r exclusive and s  *)
(* shared.                                                                   *)
EXTENDS Loans

MCLocal == {"a", "p", "r", "s", "t", "x", "ret"}
MCBlock == 1..3

Ins(kind, reads, dest, succs) ==
  [kind |-> kind, reads |-> reads, dest |-> dest, succs |-> succs,
   user |-> FALSE, blamed |-> NoLocal]
Assign(dest, reads) == Ins("assign", reads, dest, <<>>)
Read1(how, l, proj) == <<[how |-> how, place |-> [local |-> l, proj |-> proj]]>>
Field(l) == [local |-> l, proj |-> <<"f">>]
Through(l) == [local |-> l, proj |-> <<"*", "f">>]

CopyPlace == Assign(Whole("t"), Read1("copy", "p", <<>>))

\* r comes to point at a, or at a field of what p points at, as a walk down a
\* list does; s at a field of a, or at what r does.
Exclusive == { Assign(Whole("r"), Read1("mut", "a", <<>>)),
               Assign(Whole("r"), Read1("mut", "t", <<"*", "f">>)) }
Shared == { Assign(Whole("s"), Read1("shared", "a", <<"f">>)),
            Assign(Whole("s"), Read1("shared", "r", <<"*">>)) }

Uses == { Assign(Whole("x"), Read1("copy", "r", <<"*", "f">>)),
          Assign(Whole("x"), Read1("copy", "s", <<"*", "f">>)),
          Assign(Whole("ret"), Read1("copy", "r", <<>>)),
          Assign(Through("t"), <<>>) }

\* Accesses that may be foreign: of a field of a, of all of it, of the other
\* field; of what p points at; of p itself.
Others == { Assign(Field("a"), <<>>),
            Assign(Whole("x"), Read1("copy", "a", <<"f">>)),
            Assign(Whole("x"), Read1("move", "a", <<>>)),
            Assign([local |-> "a", proj |-> <<"g">>], <<>>),
            Ins("dead", <<>>, Whole("a"), <<>>),
            Assign(Through("p"), <<>>),
            Assign(Whole("p"), Read1("copy", "r", <<>>)) }

Goto(k) == Ins("goto", <<>>, Nowhere, <<k>>)
Switch(j, k) == Ins("switch", <<>>, Nowhere, <<j, k>>)
Return == Ins("return", <<>>, Nowhere, <<>>)
ConstTrap(k) == Ins("const_trap", <<>>, Nowhere, <<k>>)

\* A call that is given a pointer and gives one back.
Call(dest, arg, k) == Ins("call", Read1("copy", arg, <<>>), Whole(dest), <<k>>)

\* What is lent to a call or handed to the caller comes back before the end
\* of the body, or goes with it.
Shapes == { <<Switch(2, 3), ConstTrap(3), Return>>,
            <<Goto(2), Switch(2, 3), Return>>,
            <<Call("r", "r", 2), Switch(1, 3), Return>>,
            <<Goto(2), Call("ret", "r", 3), Return>> }

MCData(code) ==
  [l \in MCLocal |->
     [binding |-> l \in {"a", "p", "r", "s"}, materialized |-> FALSE, forget |-> TRUE,
      borrow |-> \/ l \in {"p", "r", "s", "t"}
                 \/ /\ l = "ret"
                    /\ \E k \in MCBlock : \E i \in DOMAIN code[k] :
                         code[k][i].dest = Whole("ret"),
      copyable |-> l \in {"s", "x"}]]

Steps == Exclusive \cup Shared \cup Uses \cup Others

\* p's place is loaded for what goes through it.
Loads(steps) ==
  IF steps \cap {Assign(Whole("r"), Read1("mut", "t", <<"*", "f">>)), Assign(Through("t"), <<>>)} # {}
    THEN <<CopyPlace>> ELSE <<>>

Written ==
  { [code |-> code, entry |-> 1, params |-> {"p"}, ret |-> "ret", data |-> MCData(code)] :
    code \in { << Loads({m1, m3, m4, m5}) \o <<m1, m2, s[1]>>, <<m3, m4, s[2]>>, <<m5, s[3]>> >> :
               m1 \in Exclusive, m2 \in Shared, m3 \in Steps, m4 \in Uses \cup Others,
               m5 \in Uses, s \in Shapes } }

\* An exclusive borrow is read whole once, and what is returned is written.
MCBodies ==
  { b \in Written :
      LET before == liveness(b)
      IN  /\ b.data["ret"].borrow => "ret" \notin before[1][1]
          /\ \A p \in Points(b) :
               (/\ InstrAt(b, p).reads # <<>> /\ InstrAt(b, p).reads[1].place = Whole("r")
                /\ InstrAt(b, p).dest # Whole("r")) =>
                 \A q \in NextPoints(b, p) : "r" \notin before[q.block][q.index] }
=============================================================================
