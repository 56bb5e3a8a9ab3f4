------------------------------ MODULE MCMemory ------------------------------
(* A small instance of Memory: places one step deep, pointers up to one past *)
(* the end of an aggregate.                                                  *)
EXTENDS Memory, TLC

MCPath == {<<>>, <<0>>, <<1>>}
MCRanges == {{<<0>>}, {<<1>>}, {<<0>>, <<1>>}}
Sym == Permutations(Val)

\* Bound: two borrows of one local, or one borrow beside a call, a second local
\* or a second allocation, or a call and a second allocation.
MCNamed == {<<i, l>> \in (DOMAIN frames) \X Name :
              l \in DOMAIN frames[i].locals \cup DOMAIN frames[i].promoted}
MCSmall == Len(frames) + Len(memory) + Len(borrow_nodes) + Cardinality(MCNamed) <= 6
=============================================================================
