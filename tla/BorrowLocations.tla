-------------------------- MODULE BorrowLocations --------------------------
(***************************************************************************)
(* BorrowTree beside the semantics its header says it approximates: one    *)
(* permission per node AND location.  The code keeps one state per node    *)
(* and lets a foreign access to any part of a wide node take the whole     *)
(* node (machine.rs, "Per-location state is APPROXIMATED").  `perm` is     *)
(* what exact tracking would hold after the accesses the code accepted.    *)
(***************************************************************************)
EXTENDS BorrowTree

CONSTANT Loc  \* the scalar locations: the longest paths of an allocation

ASSUME LocAssumption == Loc \subseteq Seq(PathElem)

VARIABLE perm  \* tag -> location -> NodeState

lvars == <<borrow_nodes, borrow_roots, borrow_nodes_of, verdict, perm>>

covers(path, loc) == DOMAIN path \subseteq DOMAIN loc
                     /\ \A i \in DOMAIN path : path[i] = loc[i]

Touches(paths, loc) == \E p \in paths : covers(p, loc)

Everywhere(state) == [l \in Loc |-> state]

\* One foreign access at one location.
Demoted(state, access) ==
  IF access = "Write" THEN "Disabled"
  ELSE IF state = "Unique" THEN "Frozen" ELSE state

ExactForeign(tag, other) ==
  /\ borrow_nodes[other].alloc = borrow_nodes[tag].alloc
  /\ ~is_descendant_of(borrow_nodes, tag, other)

ExactAfter(tag, paths, access) ==
  [t \in Minted |->
     [l \in Loc |->
        IF ExactForeign(tag, t) /\ Touches(paths, l)
          THEN Demoted(perm[t][l], access)
          ELSE perm[t][l]]]

LInit == Init /\ perm = <<>>

LAccess(tag, paths, access) ==
  /\ AccessThrough(tag, paths, access)
  /\ perm' = IF verdict' = "ok" THEN ExactAfter(tag, paths, access) ELSE perm

LMint(parent, path, mutable) ==
  /\ MintBelow(parent, path, mutable)
  /\ perm' =
       IF verdict' = "ok"
         THEN Append(ExactAfter(parent, {path}, IF mutable THEN "Write" ELSE "Read"),
                     Everywhere(IF mutable THEN "Unique" ELSE "Frozen"))
         ELSE perm

LMintFirst(alloc, path, mutable) ==
  /\ MintFirst(alloc, path, mutable)
  /\ perm' = perm \o <<Everywhere("Unique"),
                       Everywhere(IF mutable THEN "Unique" ELSE "Frozen")>>

\* An untracked access speaks through the root.
LAccessUntracked(alloc, paths, access) ==
  /\ alloc \in DOMAIN borrow_roots
  /\ LAccess(borrow_roots[alloc], paths, access)

LMintUntracked(alloc, path, mutable) ==
  \/ LMintFirst(alloc, path, mutable)
  \/ /\ alloc \in DOMAIN borrow_roots
     /\ LMint(borrow_roots[alloc], path, mutable)

LNext ==
  \/ \E tag \in Minted, paths \in Ranges, access \in Access :
       LAccess(tag, paths, access)
  \/ \E alloc \in Alloc, paths \in Ranges, access \in Access :
       LAccessUntracked(alloc, paths, access)
  \/ \E parent \in Minted, path \in Path, mutable \in BOOLEAN :
       LMint(parent, path, mutable)
  \/ \E alloc \in Alloc, path \in Path, mutable \in BOOLEAN :
       LMintUntracked(alloc, path, mutable)

LSpec == LInit /\ [][LNext]_lvars
-----------------------------------------------------------------------------
\* Exact tracking would refuse this access: the accessor has lost, at some
\* location of its own path that the access touches, the permission needed.
ExactRefuses(tag, paths, access) ==
  \E l \in Loc :
    /\ covers(borrow_nodes[tag].path, l)
    /\ Touches(paths, l)
    /\ \/ perm[tag][l] = "Disabled"
       \/ perm[tag][l] = "Frozen" /\ access = "Write"

\* The approximation only ever errs towards reporting: an access one state
\* per node accepts is one exact per-location tracking accepts, in every
\* history of borrows and accesses (aliasing_access over paths_overlap).
NoViolationMissed ==
  \A tag \in Minted, paths \in Ranges, access \in Access :
    Judge(borrow_nodes[tag], access) = "ok" => ~ExactRefuses(tag, paths, access)
=============================================================================
