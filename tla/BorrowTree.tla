----------------------------- MODULE BorrowTree -----------------------------
(***************************************************************************)
(* The aliasing tree of the MIR interpreter, crates/eval/src/machine.rs:   *)
(* one table of borrow nodes, the root each allocation gets on its first   *)
(* safe borrow, and per allocation the two scan lists that keep an access  *)
(* from looking at every borrow the program ever made.                     *)
(*                                                                         *)
(* Abstracted: element paths are the constant set Path of short sequences, *)
(* source sites (born, invalidated) are reduced to whether they are there, *)
(* and a scan list is a set (its order decides nothing).                   *)
(***************************************************************************)
EXTENDS Naturals, Sequences, FiniteSets

CONSTANTS
  Alloc,      \* the allocations safe borrows may cover
  PathElem,   \* field and index steps
  Path,       \* the element paths a place can name
  Ranges,     \* the sets of paths one range primitive touches
  MaxNodes    \* bound on the nodes one run mints (u32 in the code)

ASSUME PathAssumption == Path \subseteq Seq(PathElem) /\ <<>> \in Path
ASSUME RangesAssumption == Ranges \subseteq SUBSET Path
ASSUME MaxNodesAssumption == MaxNodes \in Nat

VARIABLES
  borrow_nodes,     \* tag -> node: every node ever minted, never removed
  borrow_roots,     \* alloc -> its root's tag, on the allocations that have one
  borrow_nodes_of,  \* alloc -> [unique, settled], the scan lists
  verdict           \* "ok", or why the run stopped with undefined behaviour

vars == <<borrow_nodes, borrow_roots, borrow_nodes_of, verdict>>

NodeState == {"Unique", "Frozen", "Disabled"}
Access == {"Read", "Write"}
Tag == 1..MaxNodes
NoParent == 0

\* `above` is the parent chain (what is_descendant_of walks), kept closed;
\* `mutable`, the flavour a node was minted with, is history the code drops.
BorrowNode == [alloc: Alloc, parent: Tag \cup {NoParent}, above: SUBSET Tag,
               path: Path, state: NodeState, invalidated: BOOLEAN,
               mutable: BOOLEAN]
AllocNodes == [unique: SUBSET Tag, settled: SUBSET Tag]

Minted == DOMAIN borrow_nodes
NextTag == Len(borrow_nodes) + 1
-----------------------------------------------------------------------------
(* The pieces of aliasing_access, over the nodes and lists they are given.  *)

\* Mutant: two paths conflict only when they are the same place.
EqualPathsOnly(a, b) == a = b

\* True exactly when one path is a prefix of the other.
paths_overlap(a, b) == \A i \in DOMAIN a \cap DOMAIN b : a[i] = b[i]

\* Mutant: the walk up the parents is forgotten.
OwnNodeOnly(nodes, node, ancestor) == node = ancestor

\* Whether `node` is `ancestor` or below it.
is_descendant_of(nodes, node, ancestor) ==
  node = ancestor \/ ancestor \in nodes[node].above

\* Mutant: every access scans the exclusive nodes only.
ScanUniqueOnly(list, access) == list.unique

Scan(list, access) ==
  IF access = "Read" THEN list.unique ELSE list.unique \cup list.settled

\* Mutant: a range access conflicts only with what overlaps all its elements.
VictimsOfAll(nodes, list, tag, paths, access) ==
  {other \in Scan(list, access) :
     /\ ~is_descendant_of(nodes, tag, other)
     /\ \A p \in paths : paths_overlap(p, nodes[other].path)}

\* Mutant: an access reacts only with the borrows at or below its own place.
VictimsInside(nodes, list, tag, paths, access) ==
  {other \in Scan(list, access) :
     /\ ~is_descendant_of(nodes, tag, other)
     /\ \E p \in paths : /\ Len(p) <= Len(nodes[other].path)
                         /\ paths_overlap(p, nodes[other].path)}

\* The scanned nodes an access through `tag` covering `paths` is foreign to.
Victims(nodes, list, tag, paths, access) ==
  {other \in Scan(list, access) :
     /\ ~is_descendant_of(nodes, tag, other)
     /\ \E p \in paths : paths_overlap(p, nodes[other].path)}

\* A write disables what it reaches, a read suspends an exclusive borrow; a
\* node already there keeps the site that put it there.
React(node, access) ==
  CASE access = "Write" /\ node.state # "Disabled" ->
         [node EXCEPT !.state = "Disabled", !.invalidated = TRUE]
    [] access = "Read" /\ node.state = "Unique" ->
         [node EXCEPT !.state = "Frozen", !.invalidated = TRUE]
    [] OTHER -> node

Reacted(nodes, victims, access) ==
  [t \in DOMAIN nodes |->
     IF t \in victims THEN React(nodes[t], access) ELSE nodes[t]]

\* Mutant: nodes leave the exclusive list without joining the settled one.
RefiledLosing(nodes, list, touched) ==
  IF ~touched THEN list
  ELSE [unique  |-> {t \in list.unique : nodes[t].state = "Unique"},
        settled |-> {t \in list.settled : nodes[t].state # "Disabled"}]

\* Demoted nodes leave the exclusive list, disabled ones leave both; skipped
\* when the scan touched nothing.
Refiled(nodes, list, touched) ==
  IF ~touched THEN list
  ELSE [unique  |-> {t \in list.unique : nodes[t].state = "Unique"},
        settled |-> {t \in list.settled : nodes[t].state # "Disabled"}
                    \cup {t \in list.unique : nodes[t].state = "Frozen"}]

\* What the accessing node answers before anything reacts.
Judge(node, access) ==
  CASE node.state = "Disabled" -> "disabled"
    [] node.state = "Frozen" /\ access = "Write" ->
         IF node.invalidated THEN "suspended" ELSE "shared"
    [] OTHER -> "ok"
-----------------------------------------------------------------------------
Init ==
  /\ borrow_nodes = <<>>
  /\ borrow_roots = [a \in {} |-> NoParent]
  /\ borrow_nodes_of = [a \in Alloc |-> [unique |-> {}, settled |-> {}]]
  /\ verdict = "ok"

\* A successful access through `tag`: the nodes and the lists it leaves.
Touch(tag, paths, access) ==
  LET alloc   == borrow_nodes[tag].alloc
      list    == borrow_nodes_of[alloc]
      victims == Victims(borrow_nodes, list, tag, paths, access)
      nodes   == Reacted(borrow_nodes, victims, access)
  IN  [nodes |-> nodes,
       lists |-> [borrow_nodes_of EXCEPT ![alloc] =
                    Refiled(nodes, list, victims # {})]]

\* aliasing_access and aliasing_access_range through a tracked pointer.  One
\* range is one call per element through the same tag, and an access never
\* changes its own node, so the calls together react once to every element
\* (RangeIsAccessPerElement compares the two).  paths = {p} is one access.
AccessThrough(tag, paths, access) ==
  /\ verdict = "ok"
  /\ verdict' = Judge(borrow_nodes[tag], access)
  /\ IF verdict' = "ok"
       THEN /\ borrow_nodes' = Touch(tag, paths, access).nodes
            /\ borrow_nodes_of' = Touch(tag, paths, access).lists
       ELSE UNCHANGED <<borrow_nodes, borrow_nodes_of>>
  /\ UNCHANGED borrow_roots

\* Provenance(None): the local's own name, or a raw pointer taken off it,
\* speaks through the root once there is one and is a no-op before that.
AccessUntracked(alloc, paths, access) ==
  /\ alloc \in DOMAIN borrow_roots
  /\ AccessThrough(borrow_roots[alloc], paths, access)

NewNode(alloc, parent, path, mutable) ==
  [alloc |-> alloc, parent |-> parent,
   above |-> borrow_nodes[parent].above \cup {parent},
   path |-> path, state |-> IF mutable THEN "Unique" ELSE "Frozen",
   invalidated |-> FALSE, mutable |-> mutable]

\* The new node joins the exclusive or the settled list of its allocation.
Filed(lists, alloc, tag, mutable) ==
  IF mutable THEN [lists EXCEPT ![alloc].unique = @ \cup {tag}]
             ELSE [lists EXCEPT ![alloc].settled = @ \cup {tag}]

\* mint_borrow below a node that exists: an access through the parent, then
\* the new node.
MintBelow(parent, path, mutable) ==
  LET alloc  == borrow_nodes[parent].alloc
      access == IF mutable THEN "Write" ELSE "Read"
      after  == Touch(parent, {path}, access)
  IN  /\ verdict = "ok"
      /\ NextTag <= MaxNodes
      /\ verdict' = Judge(borrow_nodes[parent], access)
      /\ IF verdict' = "ok"
           THEN /\ borrow_nodes' =
                     Append(after.nodes, NewNode(alloc, parent, path, mutable))
                /\ borrow_nodes_of' = Filed(after.lists, alloc, NextTag, mutable)
           ELSE UNCHANGED <<borrow_nodes, borrow_nodes_of>>
      /\ UNCHANGED borrow_roots

Root(alloc) ==
  [alloc |-> alloc, parent |-> NoParent, above |-> {}, path |-> <<>>,
   state |-> "Unique", invalidated |-> FALSE, mutable |-> TRUE]

Rooted(roots, alloc, tag) ==
  [a \in DOMAIN roots \cup {alloc} |-> IF a = alloc THEN tag ELSE roots[a]]

\* mint_borrow off a bare local that no safe borrow has covered yet:
\* borrow_root creates the root, the access through it finds no other node,
\* and the borrow is minted below it.
MintFirst(alloc, path, mutable) ==
  LET root == NextTag
      node == [alloc |-> alloc, parent |-> root, above |-> {root},
               path |-> path, state |-> IF mutable THEN "Unique" ELSE "Frozen",
               invalidated |-> FALSE, mutable |-> mutable]
  IN  /\ verdict = "ok"
      /\ alloc \notin DOMAIN borrow_roots
      /\ root + 1 <= MaxNodes
      /\ borrow_nodes' = Append(Append(borrow_nodes, Root(alloc)), node)
      /\ borrow_roots' = Rooted(borrow_roots, alloc, root)
      /\ borrow_nodes_of' =
           Filed(Filed(borrow_nodes_of, alloc, root, TRUE), alloc, root + 1, mutable)
      /\ UNCHANGED verdict

\* mint_borrow: below the pointer's node, or below the local's root.
MintUntracked(alloc, path, mutable) ==
  \/ MintFirst(alloc, path, mutable)
  \/ /\ alloc \in DOMAIN borrow_roots
     /\ MintBelow(borrow_roots[alloc], path, mutable)

Next ==
  \/ \E tag \in Minted, paths \in Ranges, access \in Access :
       AccessThrough(tag, paths, access)
  \/ \E alloc \in Alloc, paths \in Ranges, access \in Access :
       AccessUntracked(alloc, paths, access)
  \/ \E parent \in Minted, path \in Path, mutable \in BOOLEAN :
       MintBelow(parent, path, mutable)
  \/ \E alloc \in Alloc, path \in Path, mutable \in BOOLEAN :
       MintUntracked(alloc, path, mutable)

Spec == Init /\ [][Next]_vars
-----------------------------------------------------------------------------
(* Properties.                                                              *)

Types ==
  /\ borrow_nodes \in Seq(BorrowNode)
  /\ Len(borrow_nodes) <= MaxNodes
  /\ DOMAIN borrow_roots \subseteq Alloc
  /\ \A a \in DOMAIN borrow_roots : borrow_roots[a] \in Minted
  /\ borrow_nodes_of \in [Alloc -> AllocNodes]
  /\ verdict \in {"ok", "disabled", "suspended", "shared"}

\* A parent is minted before its child, in the same allocation, and `above`
\* is the chain of parents.
ParentChain ==
  \A t \in Minted :
    LET node == borrow_nodes[t]
    IN  IF node.parent = NoParent
          THEN node.above = {}
          ELSE /\ node.parent \in 1..(t - 1)
               /\ borrow_nodes[node.parent].alloc = node.alloc
               /\ node.above = borrow_nodes[node.parent].above \cup {node.parent}

\* Types, and the shape of the tree: what walking `parent` from a node visits
\* (is_descendant_of) is exactly `above`, and it never leaves the allocation.
TypeOK == Types /\ ParentChain

\* The scan lists hold exactly the nodes an access can still change: every
\* Unique node of the allocation in one, every Frozen node in the other and
\* no Disabled node in either (the re-filing at the end of aliasing_access,
\* skipped when nothing was touched).
ScanListsExact ==
  \A a \in Alloc :
    /\ borrow_nodes_of[a].unique =
         {t \in Minted : borrow_nodes[t].alloc = a /\ borrow_nodes[t].state = "Unique"}
    /\ borrow_nodes_of[a].settled =
         {t \in Minted : borrow_nodes[t].alloc = a /\ borrow_nodes[t].state = "Frozen"}

Unrelated(s, t) ==
  /\ ~is_descendant_of(borrow_nodes, s, t)
  /\ ~is_descendant_of(borrow_nodes, t, s)

\* Exclusivity: of two borrows of overlapping storage neither of which was
\* reborrowed from the other, one that is still exclusive means the other is
\* dead; two live ones are both shared.
Exclusive ==
  \A s, t \in Minted :
    (/\ borrow_nodes[s].alloc = borrow_nodes[t].alloc
     /\ Unrelated(s, t)
     /\ paths_overlap(borrow_nodes[s].path, borrow_nodes[t].path)
     /\ borrow_nodes[s].state = "Unique")
    => borrow_nodes[t].state = "Disabled"

\* The owner is never locked out: an allocation's root stays Unique whatever
\* is borrowed, reborrowed, written or read below it, so an access by the
\* local's own name (or its untracked raw pointer) is never the aliasing
\* fault, and every node of the allocation is below that one root.
OwnerNeverRefused ==
  /\ \A a \in DOMAIN borrow_roots :
       LET root == borrow_roots[a]
       IN  borrow_nodes[root].alloc = a /\ borrow_nodes[root].state = "Unique"
  /\ \A t \in Minted :
       /\ borrow_nodes[t].alloc \in DOMAIN borrow_roots
       /\ is_descendant_of(borrow_nodes, t, borrow_roots[borrow_nodes[t].alloc])

\* The write refusal tells the right story: a Frozen node carries an
\* invalidation site exactly when it was minted by .&mut and suspended by a
\* foreign read, so "suspended" and "shared borrow" are never swapped.
FrozenStory ==
  \A t \in Minted :
    borrow_nodes[t].state = "Frozen" =>
      (borrow_nodes[t].invalidated <=> borrow_nodes[t].mutable)

Rank(state) == CASE state = "Unique" -> 2 [] state = "Frozen" -> 1 [] OTHER -> 0

\* A permission is only ever lost: no later access, reborrow or re-filing
\* gives a node back what it had, and a tag names the same borrow for ever.
PermissionsOnlyShrink ==
  [][\A t \in Minted :
       /\ t \in Minted'
       /\ borrow_nodes'[t].alloc = borrow_nodes[t].alloc
       /\ borrow_nodes'[t].above = borrow_nodes[t].above
       /\ borrow_nodes'[t].path = borrow_nodes[t].path
       /\ Rank(borrow_nodes'[t].state) <= Rank(borrow_nodes[t].state)]_vars

\* aliasing_access_range is a loop: `n` single accesses through one tag, in
\* any order.  AccessThrough makes them at once; the result is the same.
RangeIsAccessPerElement ==
  \A tag \in Minted, p, q \in Path, access \in Access :
    Judge(borrow_nodes[tag], access) = "ok" =>
      LET alloc == borrow_nodes[tag].alloc
          first == Touch(tag, {p}, access)
          list  == first.lists[alloc]
          then  == Victims(first.nodes, list, tag, {q}, access)
          nodes == Reacted(first.nodes, then, access)
      IN  /\ Judge(first.nodes[tag], access) = "ok"
          /\ Touch(tag, {p, q}, access) =
               [nodes |-> nodes,
                lists |-> [first.lists EXCEPT ![alloc] =
                             Refiled(nodes, list, then # {})]]

\* The tree the lists implement, and the full-scan semantics it follows.
treeBar ==
  [t \in Minted |->
     [alloc |-> borrow_nodes[t].alloc, above |-> borrow_nodes[t].above,
      path  |-> borrow_nodes[t].path,  perm  |-> borrow_nodes[t].state]]

TB == INSTANCE TreeBorrows WITH tree <- treeBar, refused <- (verdict # "ok")

\* An access that looks only at the lists does what a scan of every node of
\* the allocation would: each step is a step of TreeBorrows.
ImplementsTreeBorrows == TB!Spec
=============================================================================
