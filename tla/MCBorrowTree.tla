---------------------------- MODULE MCBorrowTree ----------------------------
(* BorrowLocations, BorrowTree with it, over records {a, b}, with one range   *)
(* over the two fields.                                                      *)
EXTENDS BorrowLocations, TLC

MCPathElem == {"a", "b"}
MCPath == {<<>>, <<"a">>, <<"b">>}
MCRange == {{p} : p \in MCPath} \cup {{<<"a">>, <<"b">>}}
MCLoc == {<<"a">>, <<"b">>}

AllocSymmetry == Permutations(Alloc)
=============================================================================
