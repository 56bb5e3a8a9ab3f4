---------------------------- MODULE TreeBorrows ----------------------------
(***************************************************************************)
(* What the aliasing tree promises, with no scan lists: an access through  *)
(* a node is judged by that node's permission, and then EVERY node of the  *)
(* allocation that is neither the accessor nor above it and whose path     *)
(* overlaps reacts -- a foreign write disables it, a foreign read freezes  *)
(* an exclusive one.  A borrow is an access through its parent (a write    *)
(* for .&mut, a read for .&) followed by a new leaf.                       *)
(***************************************************************************)
EXTENDS Naturals, Sequences

CONSTANTS Alloc, Path, Ranges, MaxNodes

VARIABLES
  tree,    \* sequence of nodes [alloc, above, path, perm], by tag
  refused  \* the run has been stopped for undefined behaviour

vars == <<tree, refused>>

Access == {"Read", "Write"}

Allowed(perm, access) ==
  perm = "Unique" \/ (perm = "Frozen" /\ access = "Read")

After(perm, access) ==
  CASE access = "Write"                    -> "Disabled"
    [] access = "Read" /\ perm = "Unique"  -> "Frozen"
    [] OTHER                               -> perm

Overlap(p, q) == \A i \in DOMAIN p \cap DOMAIN q : p[i] = q[i]

Foreign(tag, other, paths) ==
  /\ tree[other].alloc = tree[tag].alloc
  /\ other # tag
  /\ other \notin tree[tag].above
  /\ \E p \in paths : Overlap(p, tree[other].path)

Accessed(tag, paths, access) ==
  [t \in DOMAIN tree |->
     IF Foreign(tag, t, paths)
       THEN [tree[t] EXCEPT !.perm = After(@, access)]
       ELSE tree[t]]

Leaf(alloc, above, path, perm) ==
  [alloc |-> alloc, above |-> above, path |-> path, perm |-> perm]

Init == tree = <<>> /\ refused = FALSE

Use(tag, paths, access) ==
  /\ ~refused
  /\ IF Allowed(tree[tag].perm, access)
       THEN tree' = Accessed(tag, paths, access) /\ UNCHANGED refused
       ELSE refused' = TRUE /\ UNCHANGED tree

Borrow(tag, path, perm) ==
  LET access == IF perm = "Unique" THEN "Write" ELSE "Read"
      leaf   == Leaf(tree[tag].alloc, tree[tag].above \cup {tag}, path, perm)
  IN  /\ ~refused
      /\ Len(tree) < MaxNodes
      /\ IF Allowed(tree[tag].perm, access)
           THEN /\ tree' = Append(Accessed(tag, {path}, access), leaf)
                /\ UNCHANGED refused
           ELSE refused' = TRUE /\ UNCHANGED tree

\* The first safe borrow of an allocation brings its root with it.
Plant(alloc, path, perm) ==
  LET root == Len(tree) + 1
  IN  /\ ~refused
      /\ root < MaxNodes
      /\ \A t \in DOMAIN tree : tree[t].alloc # alloc
      /\ tree' = Append(Append(tree, Leaf(alloc, {}, <<>>, "Unique")),
                        Leaf(alloc, {root}, path, perm))
      /\ UNCHANGED refused

Next ==
  \/ \E tag \in DOMAIN tree, paths \in Ranges, access \in Access :
       Use(tag, paths, access)
  \/ \E tag \in DOMAIN tree, path \in Path, perm \in {"Unique", "Frozen"} :
       Borrow(tag, path, perm)
  \/ \E alloc \in Alloc, path \in Path, perm \in {"Unique", "Frozen"} :
       Plant(alloc, path, perm)

Spec == Init /\ [][Next]_vars
=============================================================================
