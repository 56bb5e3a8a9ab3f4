------------------------------- MODULE MCVotes -------------------------------
(* A callee f, a member or caller g, and three more bodies that use them.   *)
EXTENDS Votes

CONSTANTS i32, u8, bool

MCAtom == {i32, u8, bool}
MCIntAtom == {i32, u8}

Says(item, sig) == [item |-> item, sig |-> sig]
Unannotated(kinds, own, mentions) ==
  [typed |-> FALSE, kinds |-> kinds, own |-> own, mentions |-> mentions]
FullyTyped(kinds, mentions) ==
  [typed |-> TRUE, kinds |-> kinds, own |-> <<bool, bool>>, mentions |-> mentions]

f == 1
g == 2
Two == <<Open, Open>>

Callees ==
  { Unannotated(Two, <<1, 2>>, <<>>), Unannotated(Two, <<1, 1>>, <<>>),
    Unannotated(Two, <<1, 2>>, <<Says(g, <<2, 1>>)>>) }

Seconds ==
  { Unannotated(Two, <<1, 2>>, <<Says(f, <<1, 2>>)>>),
    Unannotated(Two, <<1, 2>>, <<Says(f, <<i32, 2>>)>>),
    Unannotated(Two, <<1, Error>>, <<Says(f, <<2, 1>>)>>),
    Unannotated(Two, <<1, 1>>, <<>>),
    FullyTyped(Two, <<Says(f, <<bool, 1>>)>>) }

Callers ==
  { FullyTyped(Two, <<Says(f, <<i32, i32>>)>>),
    FullyTyped(Two, <<Says(f, <<u8, 1>>)>>),
    FullyTyped(Two, <<Says(f, <<i32, 1>>), Says(g, <<1, i32>>)>>),
    FullyTyped(Two, <<Says(g, <<u8, u8>>), Says(g, <<u8, u8>>)>>),
    FullyTyped(Two, <<Says(f, <<1, 2>>), Says(g, <<2, 1>>)>>),
    FullyTyped(<<Number>>, <<Says(f, <<1, bool>>)>>),
    Unannotated(Two, <<1, 2>>, <<Says(f, <<u8, 1>>)>>) }

\* An annotated item is one too: nothing of it is inferred.
MentionsTyped(l) ==
  \E i, j \in DOMAIN l : l[j].typed /\ \E k \in DOMAIN l[i].mentions : l[i].mentions[k].item = j

MCLibraries ==
  {l \in {<<a, b, c, d, e>> : a \in Callees, b \in Seconds, c \in Callers, d \in Callers, e \in Callers} :
     ~MentionsTyped(l)}
=============================================================================
