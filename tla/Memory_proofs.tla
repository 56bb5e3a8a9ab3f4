--------------------------- MODULE Memory_proofs ---------------------------
(***************************************************************************)
(* The borrow tree, and the memory of the machine over it, for any         *)
(* allocations, paths, ranges, locals, values and bounds.                  *)
(*                                                                         *)
(* The tree comes first: the invariants of BorrowTree, the refinement of   *)
(* TreeBorrows, and that one state per node misses nothing exact tracking  *)
(* would refuse.  Then the frames and the allocations, which the tree's    *)
(* verdicts only let run, and how far a write reaches in both.             *)
(***************************************************************************)
EXTENDS Memory, BorrowLocations, SequenceTheorems, TLAPS

(***************************************************************************)
(* The invariants of BorrowTree for every set of allocations, paths and    *)
(* ranges and every bound on the nodes, the refinement of TreeBorrows, and *)
(* that one state per node misses nothing exact tracking would refuse.     *)
(*                                                                         *)
(* An access and a borrow share one step, Touch.  The invariant is written *)
(* over the nodes N, lists L and roots R it is about, so that what Touch   *)
(* leaves can be handed to the lemmas on appending a node.                 *)
(***************************************************************************)

ChainIn(N) ==
  \A t \in DOMAIN N :
    IF N[t].parent = NoParent
      THEN N[t].above = {}
      ELSE /\ N[t].parent \in 1..(t - 1)
           /\ N[N[t].parent].alloc = N[t].alloc
           /\ N[t].above = N[N[t].parent].above \cup {N[t].parent}

\* Ancestors are older nodes of the same allocation, and their own ancestors
\* are among the node's.
AboveIn(N) ==
  \A t \in DOMAIN N : \A s \in N[t].above :
    /\ s \in 1..(t - 1)
    /\ N[s].alloc = N[t].alloc
    /\ N[s].above \subseteq N[t].above

ListsIn(N, L) ==
  \A a \in Alloc :
    /\ L[a].unique = {t \in DOMAIN N : N[t].alloc = a /\ N[t].state = "Unique"}
    /\ L[a].settled = {t \in DOMAIN N : N[t].alloc = a /\ N[t].state = "Frozen"}

ExclusiveIn(N) ==
  \A s, t \in DOMAIN N :
    (/\ N[s].alloc = N[t].alloc
     /\ ~is_descendant_of(N, s, t)
     /\ ~is_descendant_of(N, t, s)
     /\ paths_overlap(N[s].path, N[t].path)
     /\ N[s].state = "Unique")
    => N[t].state = "Disabled"

OwnerIn(N, R) ==
  /\ \A a \in DOMAIN R : /\ R[a] \in DOMAIN N
                         /\ N[R[a]].alloc = a
                         /\ N[R[a]].state = "Unique"
  /\ \A t \in DOMAIN N : /\ N[t].alloc \in DOMAIN R
                         /\ is_descendant_of(N, t, R[N[t].alloc])

StoryIn(N) ==
  \A t \in DOMAIN N :
    /\ N[t].state = "Frozen" => (N[t].invalidated <=> N[t].mutable)
    /\ N[t].state = "Unique" => N[t].mutable

TypeIn(N, L) ==
  /\ N \in Seq(BorrowNode)
  /\ Len(N) <= MaxNodes
  /\ L \in [Alloc -> AllocNodes]

TreeIn(N, L, R) ==
  /\ TypeIn(N, L)
  /\ ChainIn(N)
  /\ AboveIn(N)
  /\ ListsIn(N, L)
  /\ ExclusiveIn(N)
  /\ OwnerIn(N, R)
  /\ StoryIn(N)

IInv ==
  /\ TreeIn(borrow_nodes, borrow_nodes_of, borrow_roots)
  /\ DOMAIN borrow_roots \subseteq Alloc
  /\ verdict \in {"ok", "disabled", "suspended", "shared"}

\* The inductive invariant contains the properties the runs check.
LEMMA IInvImplies ==
  IInv => /\ TypeOK /\ ScanListsExact
          /\ Exclusive /\ OwnerNeverRefused /\ FrozenStory
<1> SUFFICES ASSUME IInv
             PROVE  /\ TypeOK /\ ScanListsExact
                    /\ Exclusive /\ OwnerNeverRefused /\ FrozenStory
  OBVIOUS
<1> USE DEF IInv, TreeIn, Minted
<1>1. Types
  BY DEF Types, TypeIn, OwnerIn
<1>2. ParentChain
  BY DEF ParentChain, ChainIn
<1>3. ScanListsExact
  BY DEF ScanListsExact, ListsIn
<1>4. Exclusive
  BY DEF Exclusive, ExclusiveIn, Unrelated
<1>5. OwnerNeverRefused
  BY DEF OwnerNeverRefused, OwnerIn
<1>6. FrozenStory
  BY DEF FrozenStory, StoryIn
<1> QED BY <1>1, <1>2, <1>3, <1>4, <1>5, <1>6 DEF TypeOK

\* Init establishes the invariant: nothing has been borrowed.
LEMMA InitIInv == Init => IInv
<1> SUFFICES ASSUME Init PROVE IInv
  OBVIOUS
<1>1. DOMAIN borrow_nodes = {} /\ Len(borrow_nodes) = 0 /\ DOMAIN borrow_roots = {}
  BY DEF Init
<1>2. TypeIn(borrow_nodes, borrow_nodes_of)
  BY <1>1, MaxNodesAssumption DEF Init, TypeIn, AllocNodes
<1>3. ListsIn(borrow_nodes, borrow_nodes_of)
  BY <1>1 DEF Init, ListsIn
<1> QED BY <1>1, <1>2, <1>3 DEF IInv, TreeIn, Init, ChainIn, AboveIn, ExclusiveIn,
                              OwnerIn, StoryIn
-----------------------------------------------------------------------------
\* The step an access takes, when the accessor is allowed it.
AccessCase(tag, paths, access) ==
  /\ IInv
  /\ tag \in Minted
  /\ paths \in SUBSET Path
  /\ access \in Access
  /\ Judge(borrow_nodes[tag], access) = "ok"

\* The nodes an access reaches, said without the lists: every node of the
\* allocation that is foreign to it, overlaps it and can still react.
ReachedIn(B, tag, paths, access) ==
  {t \in DOMAIN B :
     /\ B[t].alloc = B[tag].alloc
     /\ B[t].state = "Unique"
          \/ (B[t].state = "Frozen" /\ access = "Write")
     /\ ~is_descendant_of(B, tag, t)
     /\ \E p \in paths : paths_overlap(p, B[t].path)}

\* What an access through `tag` makes of nodes B and lists L.
Touched(B, L, tag, paths, access) ==
  LET alloc   == B[tag].alloc
      victims == Victims(B, L[alloc], tag, paths, access)
      nodes   == Reacted(B, victims, access)
  IN  [nodes |-> nodes,
       lists |-> [L EXCEPT ![alloc] = Refiled(nodes, L[alloc], victims # {})]]

TouchCase(B, L, R, tag, access) ==
  TreeIn(B, L, R) /\ tag \in DOMAIN B /\ access \in Access

\* What the invariant says of the table: its length, its domain, its elements.
LEMMA NodesTyped ==
  ASSUME NEW N \in Seq(BorrowNode), NEW t \in DOMAIN N
  PROVE  /\ DOMAIN N = 1..Len(N) /\ Len(N) \in Nat
         /\ N[t] \in BorrowNode
         /\ N[t].alloc \in Alloc
         /\ N[t].path \in Path
         /\ N[t].state \in NodeState
<1>1. DOMAIN N = 1..Len(N) /\ Len(N) \in Nat
  BY LenProperties
<1>2. N[t] \in BorrowNode
  BY <1>1, ElementOfSeq
<1> QED BY <1>1, <1>2 DEF BorrowNode

\* Scanning the lists reaches exactly the nodes a full scan would change.
LEMMA VictimsAre ==
  ASSUME NEW B, NEW L, NEW R, NEW tag, NEW paths, NEW access,
         TouchCase(B, L, R, tag, access)
  PROVE  LET alloc == B[tag].alloc
         IN  /\ alloc \in Alloc
             /\ Victims(B, L[alloc], tag, paths, access)
                  = ReachedIn(B, tag, paths, access)
<1>1. B[tag].alloc \in Alloc
  BY NodesTyped DEF TouchCase, TreeIn, TypeIn
<1>2. ListsIn(B, L)
  BY DEF TouchCase, TreeIn
<1> QED
  BY <1>1, <1>2 DEF Victims, ReachedIn, Scan, ListsIn, Access, TouchCase

\* What Reacted leaves of a node.
LEMMA ReactFields ==
  ASSUME NEW node \in BorrowNode, NEW access \in Access
  PROVE  LET n == React(node, access)
         IN  /\ n \in BorrowNode
             /\ n.alloc = node.alloc /\ n.parent = node.parent
             /\ n.above = node.above /\ n.path = node.path
             /\ n.mutable = node.mutable
             /\ access = "Write" => n.state = "Disabled"
             /\ access = "Read" /\ node.state = "Unique" =>
                  n.state = "Frozen" /\ n.invalidated
             /\ access = "Read" /\ node.state # "Unique" => n = node
             /\ node.state = "Disabled" => n = node
BY DEF React, BorrowNode, NodeState, Access

\* The nodes after an access: the table keeps its length and every identity,
\* and exactly the reached nodes react.
LEMMA TouchedNodes ==
  ASSUME NEW B, NEW L, NEW R, NEW tag, NEW paths, NEW access,
         TouchCase(B, L, R, tag, access)
  PROVE  LET N == Touched(B, L, tag, paths, access).nodes
             V == ReachedIn(B, tag, paths, access)
         IN  /\ N \in Seq(BorrowNode)
             /\ Len(N) = Len(B)
             /\ DOMAIN N = DOMAIN B
             /\ N[tag] = B[tag]
             /\ \A t \in DOMAIN B :
                  N[t] = IF t \in V THEN React(B[t], access)
                                    ELSE B[t]
<1> DEFINE N == Touched(B, L, tag, paths, access).nodes
           V == ReachedIn(B, tag, paths, access)
<1> USE DEF TouchCase
<1>1. B \in Seq(BorrowNode)
  BY DEF TreeIn, TypeIn
<1>2. \A t \in DOMAIN B : B[t] \in BorrowNode
  BY <1>1, NodesTyped
<1>3. N = [t \in DOMAIN B |->
             IF t \in V THEN React(B[t], access) ELSE B[t]]
  BY VictimsAre DEF Touched, Reacted
<1>4. \A t \in DOMAIN B : N[t] \in BorrowNode
  BY <1>2, <1>3, ReactFields
<1>5. DOMAIN N = 1..Len(B) /\ Len(B) \in Nat
  BY <1>1, <1>3, LenProperties
<1>6. N \in Seq(BorrowNode) /\ Len(N) = Len(B)
  <2>1. N \in [1..Len(B) -> BorrowNode]
    BY <1>1, <1>3, <1>4, <1>5
  <2> QED BY <2>1, <1>5, IsASeq, LenProperties
<1>7. tag \notin V
  BY DEF ReachedIn, is_descendant_of
<1> QED BY <1>3, <1>5, <1>6, <1>7

\* The tree invariant survives an access.
LEMMA TouchedKeeps ==
  ASSUME NEW B, NEW L, NEW R, NEW tag, NEW paths, NEW access,
         TouchCase(B, L, R, tag, access)
  PROVE  TreeIn(Touched(B, L, tag, paths, access).nodes,
                Touched(B, L, tag, paths, access).lists, R)
<1> DEFINE T == Touched(B, L, tag, paths, access)
           N == T.nodes
           V == ReachedIn(B, tag, paths, access)
           alloc == B[tag].alloc
<1>a. /\ tag \in DOMAIN B /\ access \in Access
      /\ TreeIn(B, L, R)
  BY DEF TouchCase
<1>n. /\ N \in Seq(BorrowNode) /\ Len(N) = Len(B) /\ DOMAIN N = DOMAIN B
      /\ \A t \in DOMAIN B :
           N[t] = IF t \in V THEN React(B[t], access) ELSE B[t]
  BY TouchedNodes
<1>o. \A t \in DOMAIN B : B[t] \in BorrowNode
  BY <1>a, NodesTyped DEF TreeIn, TypeIn
<1>f. \A t \in DOMAIN B :
        /\ N[t].alloc = B[t].alloc /\ N[t].parent = B[t].parent
        /\ N[t].above = B[t].above /\ N[t].path = B[t].path
        /\ N[t].mutable = B[t].mutable
  BY <1>a, <1>n, <1>o, ReactFields
<1>s. \A t \in DOMAIN B :
        /\ t \notin V => N[t] = B[t]
        /\ t \in V /\ access = "Write" => N[t].state = "Disabled"
        /\ t \in V /\ access = "Read" =>
             B[t].state = "Unique" /\ N[t].state = "Frozen" /\ N[t].invalidated
        /\ B[t].state = "Disabled" => N[t].state = "Disabled"
  BY <1>a, <1>n, <1>o, ReactFields DEF ReachedIn, Access
<1>l. /\ alloc \in Alloc
      /\ T.lists = [L EXCEPT ![alloc] =
                      Refiled(N, L[alloc], V # {})]
  <2>1. alloc \in Alloc /\ Victims(B, L[alloc], tag, paths, access) = V
    BY VictimsAre
  <2> HIDE DEF V, alloc
  <2> QED BY <2>1 DEF Touched, alloc
<1> HIDE DEF N, V, T, alloc
<1>1. ListsIn(N, T.lists)
  <2> SUFFICES ASSUME NEW a \in Alloc
               PROVE  /\ T.lists[a].unique =
                           {t \in DOMAIN B : N[t].alloc = a /\ N[t].state = "Unique"}
                      /\ T.lists[a].settled =
                           {t \in DOMAIN B : N[t].alloc = a /\ N[t].state = "Frozen"}
    BY <1>n DEF ListsIn
  <2>0. /\ L \in [Alloc -> AllocNodes]
        /\ L[a].unique =
             {t \in DOMAIN B : B[t].alloc = a /\ B[t].state = "Unique"}
        /\ L[a].settled =
             {t \in DOMAIN B : B[t].alloc = a /\ B[t].state = "Frozen"}
    BY <1>a DEF TreeIn, ListsIn, TypeIn
  <2>1. CASE a # alloc
    <3>1. \A t \in DOMAIN B : N[t].alloc = a => t \notin V
      BY <1>f, <2>1 DEF V, ReachedIn, alloc
    <3>2. T.lists[a] = L[a]
      BY <1>l, <2>0, <2>1
    <3> QED BY <1>s, <1>f, <2>0, <3>1, <3>2
  <2>2. CASE a = alloc /\ V = {}
    <3>1. T.lists[a] = L[a]
      BY <1>l, <2>0, <2>2 DEF Refiled
    <3> QED BY <1>s, <1>f, <2>0, <2>2, <3>1
  <2>3. CASE a = alloc /\ V # {}
    <3> DEFINE old == L[a]
    <3>1. /\ T.lists[a].unique = {t \in old.unique : N[t].state = "Unique"}
          /\ T.lists[a].settled = {t \in old.settled : N[t].state # "Disabled"}
                                  \cup {t \in old.unique : N[t].state = "Frozen"}
      BY <1>l, <2>0, <2>3 DEF Refiled
    <3>2. \A t \in DOMAIN B : /\ B[t].state \in NodeState
                              /\ N[t].state \in NodeState
      BY <1>o, <1>n, NodesTyped DEF BorrowNode
    <3>3. \A t \in DOMAIN B :
            /\ N[t].state = "Unique" => B[t].state = "Unique"
            /\ N[t].state = "Frozen" => B[t].state \in {"Unique", "Frozen"}
            /\ B[t].state = "Frozen" => N[t].state # "Unique"
      BY <1>s, <1>a, <3>2 DEF NodeState, Access
    <3> QED BY <1>f, <2>0, <3>1, <3>2, <3>3 DEF NodeState
  <2> QED BY <2>1, <2>2, <2>3
<1>2. TypeIn(N, T.lists)
  <2>1. T.lists \in [Alloc -> AllocNodes]
    <3>1. \A t \in DOMAIN B : t \in Tag
      BY <1>a, LenProperties, MaxNodesAssumption DEF TreeIn, TypeIn, Tag
    <3>2. L \in [Alloc -> AllocNodes]
      BY <1>a DEF TreeIn, TypeIn
    <3>3. Refiled(N, L[alloc], V # {}) \in AllocNodes
      BY <1>l, <3>2 DEF Refiled, AllocNodes
    <3> QED BY <1>l, <3>2, <3>3
  <2> QED BY <1>a, <1>n, <2>1 DEF TypeIn, TreeIn
<1>3. ChainIn(N)
  <2>1. \A t \in DOMAIN B : t \in Nat /\ (B[t].parent \in 1..(t-1) =>
                                          B[t].parent \in DOMAIN B)
    BY <1>a, LenProperties DEF TreeIn, TypeIn
  <2>2. ChainIn(B)
    BY <1>a DEF TreeIn
  <2> QED BY <1>n, <1>f, <2>1, <2>2 DEF ChainIn
<1>4. AboveIn(N)
  <2>1. \A t \in DOMAIN B : \A s \in 1..(t-1) : s \in DOMAIN B
    BY <1>a, LenProperties DEF TreeIn, TypeIn
  <2>2. ASSUME NEW t \in DOMAIN B, NEW s \in N[t].above
        PROVE  s \in 1..(t - 1) /\ N[s].alloc = N[t].alloc /\ N[s].above \subseteq N[t].above
    <3>1. /\ s \in B[t].above /\ s \in 1..(t - 1)
          /\ B[s].alloc = B[t].alloc
          /\ B[s].above \subseteq B[t].above
      BY <1>a, <1>f DEF TreeIn, AboveIn
    <3> QED BY <1>f, <2>1, <3>1
  <2> QED BY <1>n, <2>2 DEF AboveIn
<1>5. ExclusiveIn(N)
  <2>1. \A t \in DOMAIN B : N[t].state = "Unique" => B[t].state = "Unique"
    BY <1>s, <1>a DEF Access
  <2>2. ExclusiveIn(B)
    BY <1>a DEF TreeIn
  <2> QED BY <1>n, <1>f, <1>s, <2>1, <2>2 DEF ExclusiveIn, is_descendant_of
<1>6. OwnerIn(N, R)
  <2>1. OwnerIn(B, R)
    BY <1>a DEF TreeIn
  <2>2. \A a \in DOMAIN R : R[a] \notin V
    BY <1>a, <2>1 DEF OwnerIn, V, ReachedIn
  <2> QED BY <1>n, <1>f, <1>s, <2>1, <2>2 DEF OwnerIn, is_descendant_of
<1>7. StoryIn(N)
  <2>1. StoryIn(B)
    BY <1>a DEF TreeIn
  <2>2. \A t \in DOMAIN B : N[t].invalidated \in BOOLEAN /\ N[t].mutable \in BOOLEAN
    BY <1>n, NodesTyped DEF BorrowNode
  <2>3. ASSUME NEW t \in DOMAIN B
        PROVE  /\ N[t].state = "Frozen" => (N[t].invalidated <=> N[t].mutable)
               /\ N[t].state = "Unique" => N[t].mutable
    <3>1. CASE t \notin V
      BY <1>s, <2>1, <3>1 DEF StoryIn
    <3>2. CASE t \in V
      BY <1>s, <1>f, <1>a, <2>1, <3>2 DEF StoryIn, Access
    <3> QED BY <3>1, <3>2
  <2> QED BY <1>n, <2>3 DEF StoryIn
<1> QED BY <1>1, <1>2, <1>3, <1>4, <1>5, <1>6, <1>7 DEF TreeIn, N, T

\* After an access no foreign node overlapping it is still what the access
\* conflicts with: this is what makes room for a new borrow.
LEMMA TouchedClears ==
  ASSUME NEW B, NEW L, NEW R, NEW tag, NEW paths, NEW access,
         TouchCase(B, L, R, tag, access),
         NEW t \in DOMAIN B,
         B[t].alloc = B[tag].alloc,
         ~is_descendant_of(B, tag, t),
         \E p \in paths : paths_overlap(p, B[t].path)
  PROVE  LET N == Touched(B, L, tag, paths, access).nodes
         IN  /\ N[t].state # "Unique"
             /\ access = "Write" => N[t].state = "Disabled"
<1>1. B[t] \in BorrowNode
  BY NodesTyped DEF TouchCase, TreeIn, TypeIn
<1>2. CASE t \in ReachedIn(B, tag, paths, access)
  BY <1>1, <1>2, TouchedNodes, ReactFields DEF TouchCase, Access, ReachedIn
<1>3. CASE t \notin ReachedIn(B, tag, paths, access)
  BY <1>1, <1>3, TouchedNodes DEF ReachedIn, BorrowNode, NodeState, TouchCase, Access
<1> QED BY <1>2, <1>3

\* The same of the machine's own tables.
Reached(tag, paths, access) == ReachedIn(borrow_nodes, tag, paths, access)

LEMMA TouchIs ==
  ASSUME NEW tag, NEW paths, NEW access
  PROVE  Touch(tag, paths, access) = Touched(borrow_nodes, borrow_nodes_of, tag, paths, access)
BY DEF Touch, Touched

LEMMA AccessIsCase ==
  ASSUME NEW tag, NEW paths, NEW access, AccessCase(tag, paths, access)
  PROVE  TouchCase(borrow_nodes, borrow_nodes_of, borrow_roots, tag, access)
BY DEF AccessCase, TouchCase, IInv, Minted

LEMMA VictimsExact ==
  ASSUME NEW tag \in Minted, NEW paths, NEW access \in Access, IInv
  PROVE  LET alloc == borrow_nodes[tag].alloc
         IN  /\ alloc \in Alloc
             /\ Victims(borrow_nodes, borrow_nodes_of[alloc], tag, paths, access)
                  = Reached(tag, paths, access)
<1>1. TouchCase(borrow_nodes, borrow_nodes_of, borrow_roots, tag, access)
  BY DEF TouchCase, IInv, Minted
<1> QED BY <1>1, VictimsAre DEF Reached

LEMMA TouchNodes ==
  ASSUME NEW tag, NEW paths, NEW access, AccessCase(tag, paths, access)
  PROVE  LET N == Touch(tag, paths, access).nodes
             V == Reached(tag, paths, access)
         IN  /\ N \in Seq(BorrowNode)
             /\ Len(N) = Len(borrow_nodes)
             /\ DOMAIN N = Minted
             /\ N[tag] = borrow_nodes[tag]
             /\ \A t \in Minted :
                  N[t] = IF t \in V THEN React(borrow_nodes[t], access)
                                    ELSE borrow_nodes[t]
BY TouchIs, AccessIsCase, TouchedNodes DEF Reached, Minted

LEMMA TouchKeeps ==
  ASSUME NEW tag, NEW paths, NEW access, AccessCase(tag, paths, access)
  PROVE  TreeIn(Touch(tag, paths, access).nodes,
                Touch(tag, paths, access).lists, borrow_roots)
BY TouchIs, AccessIsCase, TouchedKeeps

LEMMA TouchClears ==
  ASSUME NEW tag, NEW paths, NEW access, AccessCase(tag, paths, access),
         NEW t \in Minted,
         borrow_nodes[t].alloc = borrow_nodes[tag].alloc,
         ~is_descendant_of(borrow_nodes, tag, t),
         \E p \in paths : paths_overlap(p, borrow_nodes[t].path)
  PROVE  LET N == Touch(tag, paths, access).nodes
         IN  /\ N[t].state # "Unique"
             /\ access = "Write" => N[t].state = "Disabled"
BY TouchIs, AccessIsCase, TouchedClears DEF Minted

\* The table after a new node: one longer, the old nodes where they were.
LEMMA AppendShape ==
  ASSUME NEW N \in Seq(BorrowNode), NEW node \in BorrowNode
  PROVE  LET M == Append(N, node)
         IN  /\ M \in Seq(BorrowNode)
             /\ Len(N) \in Nat
             /\ DOMAIN N = 1..Len(N)
             /\ DOMAIN M = 1..(Len(N) + 1)
             /\ Len(M) = Len(N) + 1
             /\ M[Len(N) + 1] = node
             /\ \A t \in DOMAIN N : M[t] = N[t]
BY AppendProperties, LenProperties

\* A node filed in its allocation's list keeps the lists exact.
LEMMA FiledExact ==
  ASSUME NEW N \in Seq(BorrowNode), NEW L \in [Alloc -> AllocNodes],
         NEW node \in BorrowNode, NEW mutable \in BOOLEAN,
         ListsIn(N, L), Len(N) + 1 <= MaxNodes,
         node.state = (IF mutable THEN "Unique" ELSE "Frozen")
  PROVE  LET K == Filed(L, node.alloc, Len(N) + 1, mutable)
         IN  /\ K \in [Alloc -> AllocNodes]
             /\ ListsIn(Append(N, node), K)
<1> DEFINE M == Append(N, node)
           tag == Len(N) + 1
           K == Filed(L, node.alloc, tag, mutable)
<1>1. /\ DOMAIN M = DOMAIN N \cup {tag} /\ tag \notin DOMAIN N
      /\ M[tag] = node /\ \A t \in DOMAIN N : M[t] = N[t]
      /\ tag \in Tag
  BY AppendShape, MaxNodesAssumption DEF Tag
<1>2. node.alloc \in Alloc
  BY DEF BorrowNode
<1> HIDE DEF M, tag
<1>3. K \in [Alloc -> AllocNodes]
  BY <1>1, <1>2 DEF Filed, AllocNodes
<1>e. \A a \in Alloc :
        /\ a # node.alloc => K[a] = L[a]
        /\ a = node.alloc /\ mutable =>
             K[a].unique = L[a].unique \cup {tag} /\ K[a].settled = L[a].settled
        /\ a = node.alloc /\ ~mutable =>
             K[a].settled = L[a].settled \cup {tag} /\ K[a].unique = L[a].unique
  BY <1>2 DEF Filed, AllocNodes
<1> HIDE DEF K
<1>4. ASSUME NEW a \in Alloc
      PROVE  /\ K[a].unique = {t \in DOMAIN M : M[t].alloc = a /\ M[t].state = "Unique"}
             /\ K[a].settled = {t \in DOMAIN M : M[t].alloc = a /\ M[t].state = "Frozen"}
  <2>1. /\ L[a].unique = {t \in DOMAIN N : N[t].alloc = a /\ N[t].state = "Unique"}
        /\ L[a].settled = {t \in DOMAIN N : N[t].alloc = a /\ N[t].state = "Frozen"}
    BY DEF ListsIn
  <2>2. CASE a # node.alloc
    <3>1. \A t \in DOMAIN M : M[t].alloc = a => t \in DOMAIN N
      BY <1>1, <2>2
    <3> QED BY <1>1, <1>e, <2>1, <2>2, <3>1
  <2>3. CASE a = node.alloc /\ mutable
    <3>1. node.state = "Unique"
      BY <2>3
    <3> QED BY <1>1, <1>e, <2>1, <2>3, <3>1
  <2>4. CASE a = node.alloc /\ ~mutable
    <3>1. node.state = "Frozen"
      BY <2>4
    <3> QED BY <1>1, <1>e, <2>1, <2>4, <3>1
  <2> QED BY <2>2, <2>3, <2>4
<1> QED BY <1>3, <1>4 DEF ListsIn, M, K, tag

Leaf(N, parent, path, mutable) ==
  [alloc |-> N[parent].alloc, parent |-> parent,
   above |-> N[parent].above \cup {parent},
   path |-> path, state |-> IF mutable THEN "Unique" ELSE "Frozen",
   invalidated |-> FALSE, mutable |-> mutable]

\* No node foreign to `parent` that overlaps `path` is in the way of a borrow.
Cleared(N, parent, path, mutable) ==
  \A t \in DOMAIN N :
    (/\ N[t].alloc = N[parent].alloc
     /\ ~is_descendant_of(N, parent, t)
     /\ paths_overlap(path, N[t].path))
    => /\ N[t].state # "Unique"
       /\ mutable => N[t].state = "Disabled"

\* The tree invariant survives a new leaf that found its way clear.
LEMMA LeafKeeps ==
  ASSUME NEW N, NEW L, NEW R, TreeIn(N, L, R),
         NEW parent \in DOMAIN N, NEW path \in Path, NEW mutable \in BOOLEAN,
         Len(N) + 1 <= MaxNodes, Cleared(N, parent, path, mutable)
  PROVE  LET node == Leaf(N, parent, path, mutable)
         IN  TreeIn(Append(N, node),
                    Filed(L, node.alloc, Len(N) + 1, mutable), R)
<1> DEFINE node == Leaf(N, parent, path, mutable)
           M == Append(N, node)
           tag == Len(N) + 1
           K == Filed(L, node.alloc, tag, mutable)
<1>0. /\ N \in Seq(BorrowNode) /\ L \in [Alloc -> AllocNodes]
      /\ ChainIn(N) /\ AboveIn(N) /\ ListsIn(N, L)
      /\ ExclusiveIn(N) /\ OwnerIn(N, R) /\ StoryIn(N)
  BY DEF TreeIn, TypeIn
<1>1. node \in BorrowNode
  <2>1. N[parent] \in BorrowNode /\ parent \in Tag
    BY <1>0, NodesTyped, MaxNodesAssumption DEF TreeIn, TypeIn, Tag
  <2> QED BY <2>1 DEF Leaf, BorrowNode, NodeState
<1>2. /\ node.alloc = N[parent].alloc /\ node.parent = parent
      /\ node.above = N[parent].above \cup {parent} /\ node.path = path
      /\ node.state = (IF mutable THEN "Unique" ELSE "Frozen")
      /\ node.invalidated = FALSE /\ node.mutable = mutable
  BY DEF Leaf
<1>3. /\ M \in Seq(BorrowNode) /\ Len(N) \in Nat /\ DOMAIN N = 1..Len(N)
      /\ DOMAIN M = 1..tag /\ Len(M) = tag /\ M[tag] = node
      /\ \A t \in DOMAIN N : M[t] = N[t]
  BY <1>0, <1>1, AppendShape
<1>4. K \in [Alloc -> AllocNodes] /\ ListsIn(M, K)
  BY <1>0, <1>1, <1>2, FiledExact
<1>d. DOMAIN M = DOMAIN N \cup {tag} /\ tag \notin DOMAIN N
  BY <1>3
<1> HIDE DEF node, M, K
<1>5. TypeIn(M, K)
  BY <1>3, <1>4 DEF TypeIn
<1>6. ChainIn(M)
  <2> SUFFICES ASSUME NEW t \in DOMAIN M
               PROVE  IF M[t].parent = NoParent
                        THEN M[t].above = {}
                        ELSE /\ M[t].parent \in 1..(t - 1)
                             /\ M[M[t].parent].alloc = M[t].alloc
                             /\ M[t].above = M[M[t].parent].above \cup {M[t].parent}
    BY DEF ChainIn
  <2>1. CASE t = tag
    <3>1. parent \in 1..(t - 1) /\ M[parent] = N[parent] /\ parent # NoParent
      BY <1>3, <2>1 DEF NoParent
    <3> QED BY <1>2, <1>3, <2>1, <3>1
  <2>2. CASE t \in DOMAIN N
    <3>1. M[t] = N[t] /\ \A p \in 1..(t - 1) : M[p] = N[p]
      BY <1>3, <2>2
    <3> QED BY <1>0, <2>2, <3>1 DEF ChainIn
  <2> QED BY <1>d, <2>1, <2>2
<1>7. AboveIn(M)
  <2>1. ASSUME NEW t \in DOMAIN M, NEW s \in M[t].above
        PROVE  s \in 1..(t - 1) /\ M[s].alloc = M[t].alloc /\ M[s].above \subseteq M[t].above
    <3>1. CASE t \in DOMAIN N
      <4>1. /\ s \in 1..(t - 1) /\ N[s].alloc = N[t].alloc
            /\ N[s].above \subseteq N[t].above
        BY <1>0, <1>3, <3>1 DEF AboveIn
      <4> QED BY <1>3, <3>1, <4>1
    <3>2. CASE t = tag /\ s = parent
      BY <1>2, <1>3, <3>2
    <3>3. CASE t = tag /\ s \in N[parent].above
      <4>1. /\ s \in 1..(parent - 1) /\ N[s].alloc = N[parent].alloc
            /\ N[s].above \subseteq N[parent].above
        BY <1>0, <3>3 DEF AboveIn
      <4> QED BY <1>2, <1>3, <3>3, <4>1
    <3> QED BY <1>2, <1>3, <1>d, <3>1, <3>2, <3>3
  <2> QED BY <2>1 DEF AboveIn
<1>8. ExclusiveIn(M)
  <2>1. \A p, q : paths_overlap(p, q) <=> paths_overlap(q, p)
    BY DEF paths_overlap
  <2>2. ASSUME NEW s \in DOMAIN M, NEW t \in DOMAIN M,
               M[s].alloc = M[t].alloc,
               ~is_descendant_of(M, s, t), ~is_descendant_of(M, t, s),
               paths_overlap(M[s].path, M[t].path), M[s].state = "Unique"
        PROVE  M[t].state = "Disabled"
    <3>1. CASE s \in DOMAIN N /\ t \in DOMAIN N
      <4>1. M[s] = N[s] /\ M[t] = N[t]
        BY <1>3, <3>1
      <4> QED BY <1>0, <2>2, <3>1, <4>1 DEF ExclusiveIn, is_descendant_of
    <3>2. CASE s = tag /\ t \in DOMAIN N
      <4>1. M[s] = node /\ M[t] = N[t] /\ mutable
        BY <1>2, <1>3, <2>2, <3>2
      <4>2. ~is_descendant_of(N, parent, t)
        BY <1>2, <2>2, <4>1 DEF is_descendant_of
      <4> QED BY <1>2, <2>2, <3>2, <4>1, <4>2 DEF Cleared
    <3>3. CASE s \in DOMAIN N /\ t = tag
      <4>1. M[s] = N[s] /\ M[t] = node
        BY <1>3, <3>3
      <4>2. ~is_descendant_of(N, parent, s)
        BY <1>2, <2>2, <4>1 DEF is_descendant_of
      <4> QED BY <1>2, <2>1, <2>2, <3>3, <4>1, <4>2 DEF Cleared
    <3>4. CASE s = tag /\ t = tag
      BY <2>2, <3>4 DEF is_descendant_of
    <3> QED BY <1>d, <3>1, <3>2, <3>3, <3>4
  <2> QED BY <2>2 DEF ExclusiveIn
<1>9. OwnerIn(M, R)
  <2>1. is_descendant_of(N, parent, R[N[parent].alloc]) /\ N[parent].alloc \in DOMAIN R
    BY <1>0 DEF OwnerIn
  <2>2. \A a \in DOMAIN R : /\ R[a] \in DOMAIN M /\ M[R[a]].alloc = a
                            /\ M[R[a]].state = "Unique"
    BY <1>0, <1>3, <1>d DEF OwnerIn
  <2>3. ASSUME NEW t \in DOMAIN M
        PROVE  M[t].alloc \in DOMAIN R /\ is_descendant_of(M, t, R[M[t].alloc])
    <3>1. CASE t \in DOMAIN N
      BY <1>0, <1>3, <3>1 DEF OwnerIn, is_descendant_of
    <3>2. CASE t = tag
      BY <1>2, <1>3, <2>1, <3>2 DEF is_descendant_of
    <3> QED BY <1>d, <3>1, <3>2
  <2> QED BY <2>2, <2>3 DEF OwnerIn
<1>10. StoryIn(M)
  BY <1>0, <1>2, <1>3, <1>d DEF StoryIn
<1> QED BY <1>4, <1>5, <1>6, <1>7, <1>8, <1>9, <1>10 DEF TreeIn, M, K, node

\* The tree invariant survives a root for an allocation that had none.
LEMMA RootKeeps ==
  ASSUME NEW N, NEW L, NEW R, TreeIn(N, L, R),
         NEW alloc \in Alloc, alloc \notin DOMAIN R, Len(N) + 1 <= MaxNodes
  PROVE  TreeIn(Append(N, Root(alloc)),
                Filed(L, alloc, Len(N) + 1, TRUE),
                Rooted(R, alloc, Len(N) + 1))
<1> DEFINE M == Append(N, Root(alloc))
           tag == Len(N) + 1
           K == Filed(L, alloc, tag, TRUE)
           Q == Rooted(R, alloc, tag)
<1>0. /\ N \in Seq(BorrowNode) /\ L \in [Alloc -> AllocNodes]
      /\ ChainIn(N) /\ AboveIn(N) /\ ListsIn(N, L)
      /\ ExclusiveIn(N) /\ OwnerIn(N, R) /\ StoryIn(N)
  BY DEF TreeIn, TypeIn
<1>1. Root(alloc) \in BorrowNode
  BY PathAssumption DEF Root, BorrowNode, NodeState, NoParent
<1>2. /\ Root(alloc).alloc = alloc /\ Root(alloc).parent = NoParent
      /\ Root(alloc).above = {} /\ Root(alloc).state = "Unique"
      /\ Root(alloc).mutable = TRUE
  BY DEF Root
<1>3. /\ M \in Seq(BorrowNode) /\ Len(N) \in Nat /\ DOMAIN N = 1..Len(N)
      /\ DOMAIN M = 1..tag /\ Len(M) = tag /\ M[tag] = Root(alloc)
      /\ \A t \in DOMAIN N : M[t] = N[t]
  BY <1>0, <1>1, AppendShape
<1>4. K \in [Alloc -> AllocNodes] /\ ListsIn(M, K)
  <2> DEFINE root == Root(alloc)
  <2>1. root.state = (IF TRUE THEN "Unique" ELSE "Frozen") /\ root.alloc = alloc
    BY <1>2
  <2> HIDE DEF root
  <2>2. LET F == Filed(L, root.alloc, Len(N) + 1, TRUE)
        IN  F \in [Alloc -> AllocNodes] /\ ListsIn(Append(N, root), F)
    BY <1>0, <1>1, <2>1, FiledExact DEF root
  <2> QED BY <2>1, <2>2 DEF root
<1>d. DOMAIN M = DOMAIN N \cup {tag} /\ tag \notin DOMAIN N
  BY <1>3
<1>f. \A t \in DOMAIN N : N[t].alloc # alloc
  BY <1>0 DEF OwnerIn
<1> HIDE DEF M, K
<1>5. TypeIn(M, K)
  BY <1>3, <1>4 DEF TypeIn
<1>6. ChainIn(M)
  BY <1>0, <1>2, <1>3 DEF ChainIn, NoParent
<1>7. AboveIn(M)
  <2>1. ASSUME NEW t \in DOMAIN M, NEW s \in M[t].above
        PROVE  s \in 1..(t - 1) /\ M[s].alloc = M[t].alloc /\ M[s].above \subseteq M[t].above
    <3>1. t \in DOMAIN N
      BY <1>2, <1>3, <1>d
    <3>2. s \in 1..(t - 1) /\ N[s].alloc = N[t].alloc /\ N[s].above \subseteq N[t].above
      BY <1>0, <1>3, <3>1 DEF AboveIn
    <3> QED BY <1>3, <3>1, <3>2
  <2> QED BY <2>1 DEF AboveIn
<1>8. ExclusiveIn(M)
  BY <1>0, <1>2, <1>3, <1>d, <1>f DEF ExclusiveIn, is_descendant_of
<1>9. OwnerIn(M, Q)
  <2>1. OwnerIn(N, R)
    BY <1>0
  <2>q. /\ DOMAIN Q = DOMAIN R \cup {alloc} /\ Q[alloc] = tag
        /\ \A a \in DOMAIN R : Q[a] = R[a]
    BY DEF Rooted
  <2> HIDE DEF Q
  <2>2. \A a \in DOMAIN Q : /\ Q[a] \in DOMAIN M /\ M[Q[a]].alloc = a
                            /\ M[Q[a]].state = "Unique"
    BY <1>2, <1>3, <1>d, <2>1, <2>q DEF OwnerIn
  <2>3. \A t \in DOMAIN M : /\ M[t].alloc \in DOMAIN Q
                            /\ is_descendant_of(M, t, Q[M[t].alloc])
    BY <1>2, <1>3, <1>d, <1>f, <2>1, <2>q DEF OwnerIn, is_descendant_of
  <2> QED BY <2>2, <2>3 DEF OwnerIn
<1>10. StoryIn(M)
  BY <1>0, <1>2, <1>3, <1>d DEF StoryIn
<1> QED BY <1>4, <1>5, <1>6, <1>7, <1>8, <1>9, <1>10 DEF TreeIn, M, K, Q

-----------------------------------------------------------------------------
\* Judge answers one of the four verdicts.
LEMMA VerdictTyped ==
  ASSUME NEW node, NEW access
  PROVE  Judge(node, access) \in {"ok", "disabled", "suspended", "shared"}
BY DEF Judge

\* aliasing_access and aliasing_access_range keep the invariant.
LEMMA AccessKeeps ==
  ASSUME IInv, NEW tag \in Minted, NEW paths \in SUBSET Path, NEW access \in Access,
         AccessThrough(tag, paths, access)
  PROVE  IInv'
<1>1. verdict' \in {"ok", "disabled", "suspended", "shared"}
  BY VerdictTyped DEF AccessThrough
<1>2. CASE verdict' = "ok"
  <2>1. AccessCase(tag, paths, access)
    BY <1>2 DEF AccessCase, AccessThrough
  <2> QED BY <1>1, <1>2, <2>1, TouchKeeps DEF AccessThrough, IInv
<1>3. CASE verdict' # "ok"
  BY <1>1, <1>3 DEF AccessThrough, IInv
<1> QED BY <1>2, <1>3

\* mint_borrow below an existing node keeps the invariant.
LEMMA MintBelowKeeps ==
  ASSUME IInv, NEW parent \in Minted, NEW path \in Path, NEW mutable \in BOOLEAN,
         MintBelow(parent, path, mutable)
  PROVE  IInv'
<1> DEFINE access == IF mutable THEN "Write" ELSE "Read"
           T == Touch(parent, {path}, access)
           N == T.nodes
<1>1. verdict' \in {"ok", "disabled", "suspended", "shared"}
  BY VerdictTyped DEF MintBelow
<1>2. CASE verdict' = "ok"
  <2>1. AccessCase(parent, {path}, access)
    BY <1>2 DEF AccessCase, MintBelow, Access
  <2>2. TreeIn(N, T.lists, borrow_roots)
    BY <2>1, TouchKeeps
  <2>3. /\ Len(N) = Len(borrow_nodes) /\ DOMAIN N = Minted
        /\ N[parent] = borrow_nodes[parent]
        /\ \A t \in Minted :
             /\ N[t].alloc = borrow_nodes[t].alloc /\ N[t].path = borrow_nodes[t].path
    <3>1. \A t \in Minted : borrow_nodes[t] \in BorrowNode
      BY NodesTyped DEF IInv, TreeIn, TypeIn, Minted
    <3> QED BY <2>1, <3>1, TouchNodes, ReactFields DEF AccessCase
  <2>4. Cleared(N, parent, path, mutable)
    <3> SUFFICES ASSUME NEW t \in DOMAIN N,
                        N[t].alloc = N[parent].alloc,
                        ~is_descendant_of(N, parent, t),
                        paths_overlap(path, N[t].path)
                 PROVE  N[t].state # "Unique" /\ (mutable => N[t].state = "Disabled")
      BY DEF Cleared
    <3>1. ~is_descendant_of(borrow_nodes, parent, t)
      BY <2>3 DEF is_descendant_of
    <3>2. \E p \in {path} : paths_overlap(p, borrow_nodes[t].path)
      BY <2>3
    <3>3. t \in Minted /\ borrow_nodes[t].alloc = borrow_nodes[parent].alloc
      BY <2>3
    <3>4. N[t].state # "Unique" /\ (access = "Write" => N[t].state = "Disabled")
      <4> HIDE DEF access
      <4> QED BY <2>1, <3>1, <3>2, <3>3, TouchClears
    <3> QED BY <3>4
  <2>5. NewNode(borrow_nodes[parent].alloc, parent, path, mutable)
          = Leaf(N, parent, path, mutable)
    BY <2>3 DEF NewNode, Leaf
  <2>6. TreeIn(Append(N, Leaf(N, parent, path, mutable)),
               Filed(T.lists, N[parent].alloc, Len(N) + 1, mutable),
               borrow_roots)
    <3>1. Len(N) + 1 <= MaxNodes
      BY <2>3 DEF MintBelow, NextTag
    <3>2. Leaf(N, parent, path, mutable).alloc = N[parent].alloc
      BY DEF Leaf
    <3> HIDE DEF N, T
    <3> QED BY <2>2, <2>3, <2>4, <3>1, <3>2, LeafKeeps
  <2>7. /\ borrow_nodes' = Append(N, Leaf(N, parent, path, mutable))
        /\ borrow_nodes_of' =
             Filed(T.lists, N[parent].alloc, Len(N) + 1, mutable)
        /\ borrow_roots' = borrow_roots
    BY <1>2, <2>3, <2>5 DEF MintBelow, NextTag
  <2> QED BY <1>1, <2>6, <2>7 DEF IInv
<1>3. CASE verdict' # "ok"
  BY <1>1, <1>3 DEF MintBelow, IInv
<1> QED BY <1>2, <1>3

\* The first borrow of an allocation, which brings its root, keeps it.
LEMMA MintFirstKeeps ==
  ASSUME IInv, NEW alloc \in Alloc, NEW path \in Path, NEW mutable \in BOOLEAN,
         MintFirst(alloc, path, mutable)
  PROVE  IInv'
<1> DEFINE root == Len(borrow_nodes) + 1
           N == Append(borrow_nodes, Root(alloc))
           L == Filed(borrow_nodes_of, alloc, root, TRUE)
           leaf == Leaf(N, root, path, mutable)
<1>0. /\ borrow_nodes \in Seq(BorrowNode) /\ Len(borrow_nodes) \in Nat
      /\ borrow_nodes_of \in [Alloc -> AllocNodes]
      /\ OwnerIn(borrow_nodes, borrow_roots)
      /\ alloc \notin DOMAIN borrow_roots /\ root + 1 <= MaxNodes
      /\ DOMAIN borrow_nodes = 1..Len(borrow_nodes)
  BY LenProperties DEF IInv, TreeIn, TypeIn, MintFirst, NextTag
<1>1. Root(alloc) \in BorrowNode
  BY PathAssumption DEF Root, BorrowNode, NodeState, NoParent
<1>2. /\ DOMAIN N = DOMAIN borrow_nodes \cup {root} /\ Len(N) = root
      /\ N[root] = Root(alloc)
      /\ \A t \in DOMAIN borrow_nodes : N[t] = borrow_nodes[t]
  BY <1>0, <1>1, AppendShape
<1>3. TreeIn(N, L, borrow_roots')
  <2>1. borrow_roots' = Rooted(borrow_roots, alloc, root)
    BY DEF MintFirst, NextTag
  <2>2. TreeIn(borrow_nodes, borrow_nodes_of, borrow_roots)
    BY DEF IInv
  <2>3. Len(borrow_nodes) + 1 <= MaxNodes
    BY <1>0, MaxNodesAssumption
  <2>4. TreeIn(N, L, Rooted(borrow_roots, alloc, root))
    BY <1>0, <2>2, <2>3, RootKeeps
  <2> QED BY <2>1, <2>4
<1>4. Cleared(N, root, path, mutable)
  <2>1. \A t \in DOMAIN borrow_nodes : borrow_nodes[t].alloc # alloc
    BY <1>0 DEF OwnerIn
  <2> QED BY <1>2, <2>1 DEF Cleared, Root, is_descendant_of
<1>5. /\ leaf.alloc = alloc
      /\ leaf = [alloc |-> alloc, parent |-> root, above |-> {root},
                 path |-> path, state |-> IF mutable THEN "Unique" ELSE "Frozen",
                 invalidated |-> FALSE, mutable |-> mutable]
  <2>1. N[root].alloc = alloc /\ N[root].above \cup {root} = {root}
    BY <1>2 DEF Root
  <2> HIDE DEF N, root
  <2> QED BY <2>1 DEF Leaf
<1>6. /\ borrow_nodes' = Append(N, leaf)
      /\ borrow_nodes_of' = Filed(L, alloc, Len(N) + 1, mutable)
      /\ verdict' = verdict
      /\ DOMAIN borrow_roots' = DOMAIN borrow_roots \cup {alloc}
  <2>1. DOMAIN borrow_roots' = DOMAIN borrow_roots \cup {alloc}
    BY DEF MintFirst, Rooted
  <2> QED BY <1>2, <1>5, <2>1 DEF MintFirst, NextTag
<1>7. TreeIn(borrow_nodes', borrow_nodes_of', borrow_roots')
  <2>1. root \in DOMAIN N /\ Len(N) + 1 <= MaxNodes
    BY <1>0, <1>2
  <2> HIDE DEF N, L, root
  <2> QED BY <1>3, <1>4, <1>5, <1>6, <2>1, LeafKeeps
<1> QED BY <1>6, <1>7 DEF IInv

\* The disjuncts of Next, with an untracked pointer resolved to its root.
Step ==
  \/ \E tag \in Minted, paths \in SUBSET Path, access \in Access :
       paths \in Ranges /\ AccessThrough(tag, paths, access)
  \/ \E parent \in Minted, path \in Path, mutable \in BOOLEAN :
       MintBelow(parent, path, mutable)
  \/ \E alloc \in Alloc, path \in Path, mutable \in BOOLEAN :
       MintFirst(alloc, path, mutable)

\* An untracked access or borrow is one through the allocation's root.
LEMMA NextIsStep ==
  ASSUME IInv, Next
  PROVE  Step
<1>1. \A alloc \in DOMAIN borrow_roots : borrow_roots[alloc] \in Minted
  BY DEF IInv, TreeIn, OwnerIn, Minted
<1>2. \A paths \in Ranges : paths \in SUBSET Path
  BY RangesAssumption
<1>3. CASE \E tag \in Minted, paths \in Ranges, access \in Access :
             AccessThrough(tag, paths, access)
  BY <1>2, <1>3 DEF Step
<1>4. CASE \E alloc \in Alloc, paths \in Ranges, access \in Access :
             AccessUntracked(alloc, paths, access)
  BY <1>1, <1>2, <1>4 DEF Step, AccessUntracked
<1>5. CASE \E parent \in Minted, path \in Path, mutable \in BOOLEAN :
             MintBelow(parent, path, mutable)
  BY <1>5 DEF Step
<1>6. CASE \E alloc \in Alloc, path \in Path, mutable \in BOOLEAN :
             MintUntracked(alloc, path, mutable)
  BY <1>1, <1>6 DEF Step, MintUntracked
<1> QED BY <1>3, <1>4, <1>5, <1>6 DEF Next

\* Every step of the tree keeps the inductive invariant.
LEMMA StepIInv == IInv /\ [Next]_vars => IInv'
<1> SUFFICES ASSUME IInv, [Next]_vars PROVE IInv'
  OBVIOUS
<1>1. CASE Next
  <2>1. Step
    BY <1>1, NextIsStep
  <2>2. CASE \E tag \in Minted, paths \in SUBSET Path, access \in Access :
               AccessThrough(tag, paths, access)
    BY <2>2, AccessKeeps
  <2>3. CASE \E parent \in Minted, path \in Path, mutable \in BOOLEAN :
               MintBelow(parent, path, mutable)
    BY <2>3, MintBelowKeeps
  <2>4. CASE \E alloc \in Alloc, path \in Path, mutable \in BOOLEAN :
               MintFirst(alloc, path, mutable)
    BY <2>4, MintFirstKeeps
  <2> QED BY <2>1, <2>2, <2>3, <2>4 DEF Step
<1>2. CASE UNCHANGED vars
  BY <1>2 DEF vars, IInv
<1> QED BY <1>1, <1>2

\* The invariant the theorems below project.
THEOREM Inductive == Spec => []IInv
<1> QED BY InitIInv, StepIInv, PTL DEF Spec

\* Types, and `above` as the closed parent chain that is_descendant_of walks.
THEOREM TypeCorrect == Spec => []TypeOK
<1> QED BY Inductive, IInvImplies, PTL

\* The scan lists hold exactly the nodes that can still change, so the access
\* that looks only at them misses nothing (aliasing_access's re-filing).
THEOREM ScanListsStayExact == Spec => []ScanListsExact
<1> QED BY Inductive, IInvImplies, PTL

\* Two live borrows of overlapping storage, neither reborrowed from the other,
\* are both shared, for every tree mint_borrow and aliasing_access can build.
THEOREM BorrowsStayExclusive == Spec => []Exclusive
<1> QED BY Inductive, IInvImplies, PTL

\* A local's own name is never refused by the aliasing tree: its root stays
\* exclusive and everything borrowed from the allocation hangs below it.
THEOREM OwnerIsNeverRefused == Spec => []OwnerNeverRefused
<1> QED BY Inductive, IInvImplies, PTL

\* "Suspended" and "shared borrow" are never confused in a refused write.
THEOREM RefusedWriteTellsTheStory == Spec => []FrozenStory
<1> QED BY Inductive, IInvImplies, PTL

-----------------------------------------------------------------------------
\* What every successful step leaves of an old node.
Shrunk(old, new) ==
  /\ new.alloc = old.alloc
  /\ new.above = old.above
  /\ new.path = old.path
  /\ Rank(new.state) <= Rank(old.state)

\* An access leaves every node with its identity and no more permission.
LEMMA TouchShrinks ==
  ASSUME NEW tag, NEW paths, NEW access, AccessCase(tag, paths, access),
         NEW t \in Minted
  PROVE  Shrunk(borrow_nodes[t], Touch(tag, paths, access).nodes[t])
<1>1. borrow_nodes[t] \in BorrowNode /\ access \in Access
  BY NodesTyped DEF AccessCase, IInv, TreeIn, TypeIn, Minted
<1>2. CASE t \notin Reached(tag, paths, access)
  BY <1>1, <1>2, TouchNodes DEF Shrunk, Rank
<1>3. CASE t \in Reached(tag, paths, access)
  BY <1>1, <1>3, TouchNodes, ReactFields DEF Shrunk, Rank, Access, Reached, ReachedIn, Minted
<1> QED BY <1>2, <1>3

\* Appending nodes to a table leaves the old ones where they are.
LEMMA OldNodes ==
  ASSUME IInv, Step, NEW t \in Minted
  PROVE  t \in Minted' /\ Shrunk(borrow_nodes[t], borrow_nodes'[t])
<1>0. /\ borrow_nodes \in Seq(BorrowNode) /\ Shrunk(borrow_nodes[t], borrow_nodes[t])
  BY NodesTyped DEF IInv, TreeIn, TypeIn, Shrunk, Rank, NodeState, Minted
<1>1. CASE UNCHANGED borrow_nodes
  BY <1>0, <1>1 DEF Minted
<1>2. CASE \E tag \in Minted, paths \in SUBSET Path, access \in Access :
             AccessThrough(tag, paths, access) /\ ~UNCHANGED borrow_nodes
  <2>1. PICK tag \in Minted, paths \in SUBSET Path, access \in Access :
          AccessThrough(tag, paths, access) /\ ~UNCHANGED borrow_nodes
    BY <1>2
  <2>2. AccessCase(tag, paths, access)
    BY <2>1 DEF AccessThrough, AccessCase
  <2> QED BY <2>1, <2>2, TouchShrinks, TouchNodes DEF AccessThrough, Minted
<1>3. CASE \E parent \in Minted, path \in Path, mutable \in BOOLEAN :
             MintBelow(parent, path, mutable) /\ ~UNCHANGED borrow_nodes
  <2>1. PICK parent \in Minted, path \in Path, mutable \in BOOLEAN :
          MintBelow(parent, path, mutable) /\ ~UNCHANGED borrow_nodes
    BY <1>3
  <2> DEFINE access == IF mutable THEN "Write" ELSE "Read"
             N == Touch(parent, {path}, access).nodes
  <2>2. AccessCase(parent, {path}, access)
    BY <2>1 DEF MintBelow, AccessCase, Access
  <2>3. N \in Seq(BorrowNode) /\ DOMAIN N = Minted /\ Shrunk(borrow_nodes[t], N[t])
    BY <2>2, TouchShrinks, TouchNodes
  <2>4. PICK node : borrow_nodes' = Append(N, node)
    BY <2>1 DEF MintBelow
  <2>5. t \in DOMAIN borrow_nodes' /\ borrow_nodes'[t] = N[t]
    BY <2>3, <2>4, LenProperties
  <2> QED BY <2>3, <2>5 DEF Minted
<1>4. CASE \E alloc \in Alloc, path \in Path, mutable \in BOOLEAN :
             MintFirst(alloc, path, mutable)
  <2>1. PICK node1, node2 : borrow_nodes' = Append(Append(borrow_nodes, node1), node2)
    BY <1>4 DEF MintFirst
  <2>2. t \in DOMAIN borrow_nodes' /\ borrow_nodes'[t] = borrow_nodes[t]
    BY <1>0, <2>1, LenProperties DEF Minted
  <2> QED BY <1>0, <2>2 DEF Minted
<1> QED BY <1>1, <1>2, <1>3, <1>4 DEF Step

\* No access, reborrow or re-filing gives a borrow back a permission it lost,
\* and a tag keeps naming the borrow it was minted for.
THEOREM PermissionsNeverGrow == Spec => PermissionsOnlyShrink
<1>1. IInv /\ [Next]_vars =>
        [\A t \in Minted :
           /\ t \in Minted'
           /\ borrow_nodes'[t].alloc = borrow_nodes[t].alloc
           /\ borrow_nodes'[t].above = borrow_nodes[t].above
           /\ borrow_nodes'[t].path = borrow_nodes[t].path
           /\ Rank(borrow_nodes'[t].state) <= Rank(borrow_nodes[t].state)]_vars
  BY NextIsStep, OldNodes DEF Shrunk
<1> QED BY <1>1, Inductive, PTL DEF Spec, PermissionsOnlyShrink
-----------------------------------------------------------------------------
(* One range access is one access per element, in either order.             *)

\* The scan of one element after the access to another: what the two reach
\* together is what the range of both reaches, and no node reacts twice.
LEMMA SecondReaches ==
  ASSUME NEW tag, NEW p \in Path, NEW q \in Path, NEW access,
         AccessCase(tag, {p}, access)
  PROVE  LET T == Touch(tag, {p}, access)
             V == Reached(tag, {p}, access)
             W == Victims(T.nodes, T.lists[borrow_nodes[tag].alloc], tag, {q}, access)
         IN  /\ W \subseteq Minted
             /\ V \cap W = {}
             /\ Reached(tag, {p, q}, access) = V \cup W
<1> DEFINE alloc == borrow_nodes[tag].alloc
           T == Touch(tag, {p}, access)
           N == T.nodes
           L == T.lists[alloc]
           V == Reached(tag, {p}, access)
           W == Victims(N, L, tag, {q}, access)
           both == Reached(tag, {p, q}, access)
<1>a. IInv /\ tag \in Minted /\ access \in Access /\ alloc \in Alloc
  BY VictimsExact DEF AccessCase
<1>o. \A t \in Minted : borrow_nodes[t] \in BorrowNode
  BY <1>a, NodesTyped DEF IInv, TreeIn, TypeIn, Minted
<1>n. /\ DOMAIN N = Minted
      /\ N[tag] = borrow_nodes[tag]
      /\ \A t \in Minted :
           N[t] = IF t \in V THEN React(borrow_nodes[t], access) ELSE borrow_nodes[t]
  BY TouchNodes
<1>r. \A t \in V : t \in Minted /\ borrow_nodes[t].state # "Disabled"
                /\ (access = "Read" => borrow_nodes[t].state = "Unique")
  BY <1>a DEF Reached, ReachedIn, Minted, Access
<1>s. \A t \in V : /\ N[t].alloc = borrow_nodes[t].alloc
                   /\ N[t].path = borrow_nodes[t].path
                   /\ access = "Write" => N[t].state = "Disabled"
                   /\ access = "Read" => N[t].state = "Frozen"
  <2> SUFFICES ASSUME NEW t \in V
               PROVE  /\ N[t].alloc = borrow_nodes[t].alloc
                      /\ N[t].path = borrow_nodes[t].path
                      /\ access = "Write" => N[t].state = "Disabled"
                      /\ access = "Read" => N[t].state = "Frozen"
    OBVIOUS
  <2> HIDE DEF N, V, T
  <2>1. N[t] = React(borrow_nodes[t], access) /\ borrow_nodes[t] \in BorrowNode
    BY <1>n, <1>o, <1>r
  <2> QED BY <1>a, <1>r, <2>1, ReactFields
<1>l. /\ L.unique = {t \in Minted : N[t].alloc = alloc /\ N[t].state = "Unique"}
      /\ L.settled = {t \in Minted : N[t].alloc = alloc /\ N[t].state = "Frozen"}
  <2>1. ListsIn(N, T.lists)
    BY TouchKeeps DEF TreeIn
  <2> HIDE DEF N, T, alloc
  <2> QED BY <1>a, <1>n, <2>1 DEF ListsIn
<1>w. \A t : t \in W <=>
        /\ t \in Minted
        /\ N[t].alloc = alloc
        /\ N[t].state = "Unique" \/ (N[t].state = "Frozen" /\ access = "Write")
        /\ ~is_descendant_of(borrow_nodes, tag, t)
        /\ paths_overlap(q, N[t].path)
  BY <1>a, <1>l, <1>n DEF Victims, Scan, Access, is_descendant_of
<1>b. \A t : t \in both <=>
        /\ t \in Minted
        /\ borrow_nodes[t].alloc = alloc
        /\ borrow_nodes[t].state = "Unique"
             \/ (borrow_nodes[t].state = "Frozen" /\ access = "Write")
        /\ ~is_descendant_of(borrow_nodes, tag, t)
        /\ paths_overlap(p, borrow_nodes[t].path) \/ paths_overlap(q, borrow_nodes[t].path)
  BY DEF Reached, ReachedIn, Minted
<1>v. \A t : t \in V <=>
        /\ t \in Minted
        /\ borrow_nodes[t].alloc = alloc
        /\ borrow_nodes[t].state = "Unique"
             \/ (borrow_nodes[t].state = "Frozen" /\ access = "Write")
        /\ ~is_descendant_of(borrow_nodes, tag, t)
        /\ paths_overlap(p, borrow_nodes[t].path)
  BY DEF Reached, ReachedIn, Minted
<1> HIDE DEF N, L, V, W, both, alloc, T
<1>1. W \subseteq Minted
  BY <1>w
<1>2. \A t \in V : t \notin W
  BY <1>a, <1>s, <1>w DEF Access
<1>3. \A t : t \in both <=> t \in V \/ t \in W
  <2>1. ASSUME NEW t, t \notin V, t \in Minted PROVE N[t] = borrow_nodes[t]
    BY <1>n, <2>1
  <2>2. ASSUME NEW t, t \notin V PROVE t \in both <=> t \in W
    BY <1>b, <1>v, <1>w, <2>1, <2>2
  <2> QED BY <1>b, <1>v, <2>2
<1> QED BY <1>1, <1>2, <1>3 DEF N, L, V, W, both, alloc, T

\* Filing the lists after each of two accesses files them as once after both:
\* a node that left a list at the first would have left it at the second.
LEMMA RefiledTwice ==
  ASSUME NEW M, NEW N, NEW list \in AllocNodes, NEW one \in BOOLEAN, NEW two \in BOOLEAN,
         ~two => M = N,
         \A t \in list.unique \cup list.settled :
           /\ M[t].state \in NodeState /\ N[t].state \in NodeState
           /\ N[t].state = "Unique" => M[t].state = "Unique"
           /\ M[t].state = "Disabled" => N[t].state = "Disabled"
  PROVE  Refiled(N, Refiled(M, list, one), two) = Refiled(N, list, one \/ two)
<1>1. CASE ~two
  BY <1>1 DEF Refiled
<1>2. CASE two /\ ~one
  BY <1>2 DEF Refiled
<1>3. CASE one /\ two
  <2> DEFINE R == Refiled(M, list, TRUE)
             u == {t \in R.unique : N[t].state = "Unique"}
             s == {t \in R.settled : N[t].state # "Disabled"}
                  \cup {t \in R.unique : N[t].state = "Frozen"}
             v == {t \in list.unique : N[t].state = "Unique"}
             w == {t \in list.settled : N[t].state # "Disabled"}
                  \cup {t \in list.unique : N[t].state = "Frozen"}
  <2>1. /\ R.unique = {t \in list.unique : M[t].state = "Unique"}
        /\ R.settled = {t \in list.settled : M[t].state # "Disabled"}
                       \cup {t \in list.unique : M[t].state = "Frozen"}
    BY DEF Refiled
  <2>2. u = v
    BY <2>1
  <2>3. s = w
    BY <2>1 DEF NodeState
  <2>4. /\ Refiled(N, R, TRUE) = [unique |-> u, settled |-> s]
        /\ Refiled(N, list, TRUE) = [unique |-> v, settled |-> w]
    BY DEF Refiled
  <2> HIDE DEF u, s, v, w
  <2> QED BY <1>3, <2>2, <2>3, <2>4
<1> QED BY <1>1, <1>2, <1>3

\* What two single accesses leave, the second from where the first left off.
OneThenOther(tag, p, q, access) ==
  LET alloc == borrow_nodes[tag].alloc
      first == Touch(tag, {p}, access)
      list  == first.lists[alloc]
      then  == Victims(first.nodes, list, tag, {q}, access)
      nodes == Reacted(first.nodes, then, access)
  IN  [nodes |-> nodes,
       lists |-> [first.lists EXCEPT ![alloc] = Refiled(nodes, list, then # {})]]

\* Touching a range of two elements is touching one and then the other.
LEMMA TouchTwice ==
  ASSUME NEW tag, NEW p \in Path, NEW q \in Path, NEW access,
         AccessCase(tag, {p}, access)
  PROVE  Touch(tag, {p, q}, access) = OneThenOther(tag, p, q, access)
<1> DEFINE alloc == borrow_nodes[tag].alloc
           T == Touch(tag, {p}, access)
           M == T.nodes
           V == Reached(tag, {p}, access)
           W == Victims(M, T.lists[alloc], tag, {q}, access)
           N == Reacted(M, W, access)
           both == Reached(tag, {p, q}, access)
           B == Touch(tag, {p, q}, access)
           old == borrow_nodes_of[alloc]
<1>a. IInv /\ tag \in Minted /\ access \in Access /\ alloc \in Alloc
  BY VictimsExact DEF AccessCase
<1>o. \A t \in Minted : borrow_nodes[t] \in BorrowNode
  BY <1>a, NodesTyped DEF IInv, TreeIn, TypeIn, Minted
<1>y. borrow_nodes_of \in [Alloc -> AllocNodes]
  BY <1>a DEF IInv, TreeIn, TypeIn
<1>t. M = Reacted(borrow_nodes, V, access)
      /\ T.lists = [borrow_nodes_of EXCEPT ![alloc] = Refiled(M, old, V # {})]
  BY <1>a, VictimsExact DEF Touch
<1>b. B = [nodes |-> Reacted(borrow_nodes, both, access),
           lists |-> [borrow_nodes_of EXCEPT ![alloc] =
                        Refiled(Reacted(borrow_nodes, both, access), old, both # {})]]
  BY <1>a, VictimsExact DEF Touch
<1>w. W \subseteq Minted /\ V \cap W = {} /\ both = V \cup W
  BY SecondReaches
<1>l. /\ T.lists[alloc] = Refiled(M, old, V # {})
      /\ \A a \in Alloc : a # alloc => T.lists[a] = borrow_nodes_of[a]
      /\ DOMAIN T.lists = Alloc
  BY <1>a, <1>y, <1>t
<1>u. \A t \in old.unique \cup old.settled : t \in Minted
  BY <1>a DEF IInv, TreeIn, ListsIn, Minted
<1>d. old \in AllocNodes
  BY <1>a, <1>y
<1>q. B = [nodes |-> N,
           lists |-> [T.lists EXCEPT ![alloc] = Refiled(N, T.lists[alloc], W # {})]]
  <2> DEFINE T_lists == T.lists
  <2> HIDE DEF T, W, V, both, alloc, old, B, T_lists
  <2>1. M = [t \in Minted |->
               IF t \in V THEN React(borrow_nodes[t], access) ELSE borrow_nodes[t]]
    BY <1>t DEF Reacted, Minted
  <2>2. N = [t \in Minted |-> IF t \in W THEN React(M[t], access) ELSE M[t]]
    BY <2>1 DEF Reacted
  <2> HIDE DEF M, N
  <2>3. N = [t \in Minted |->
               IF t \in both THEN React(borrow_nodes[t], access) ELSE borrow_nodes[t]]
    <3>1. \A t \in Minted :
            (IF t \in W THEN React(M[t], access) ELSE M[t])
              = IF t \in both THEN React(borrow_nodes[t], access) ELSE borrow_nodes[t]
      BY <1>w, <2>1
    <3> QED BY <2>2, <3>1
  <2>4. N = Reacted(borrow_nodes, both, access)
    BY <2>3 DEF Reacted, Minted
  <2>5. \A t \in Minted :
          /\ M[t].state \in NodeState /\ N[t].state \in NodeState
          /\ N[t].state = "Unique" => M[t].state = "Unique"
          /\ M[t].state = "Disabled" => N[t].state = "Disabled"
    <3> SUFFICES ASSUME NEW t \in Minted
                 PROVE  /\ M[t].state \in NodeState /\ N[t].state \in NodeState
                        /\ N[t].state = "Unique" => M[t].state = "Unique"
                        /\ M[t].state = "Disabled" => N[t].state = "Disabled"
      OBVIOUS
    <3>1. M[t] \in BorrowNode
      BY <1>a, <1>o, <2>1, ReactFields
    <3>2. N[t] = IF t \in W THEN React(M[t], access) ELSE M[t]
      BY <2>2
    <3>3. LET n == React(M[t], access)
          IN  /\ n \in BorrowNode
              /\ access = "Write" => n.state = "Disabled"
              /\ access = "Read" /\ M[t].state = "Unique" => n.state = "Frozen"
              /\ access = "Read" /\ M[t].state # "Unique" => n = M[t]
              /\ M[t].state = "Disabled" => n = M[t]
      BY <1>a, <3>1, ReactFields
    <3>4. N[t] \in BorrowNode
      BY <3>1, <3>2, <3>3
    <3> QED BY <1>a, <3>1, <3>2, <3>3, <3>4 DEF BorrowNode, Access
  <2>6. W = {} => M = N
    BY <2>1, <2>2
  <2>7. Refiled(N, Refiled(M, old, V # {}), W # {}) = Refiled(N, old, V # {} \/ W # {})
    <3> DEFINE one == V # {}
               two == W # {}
    <3>1. one \in BOOLEAN /\ two \in BOOLEAN /\ (~two => M = N)
      BY <2>6
    <3>2. \A t \in old.unique \cup old.settled :
            /\ M[t].state \in NodeState /\ N[t].state \in NodeState
            /\ N[t].state = "Unique" => M[t].state = "Unique"
            /\ M[t].state = "Disabled" => N[t].state = "Disabled"
      BY <1>u, <2>5
    <3> HIDE DEF one, two
    <3>3. Refiled(N, Refiled(M, old, one), two) = Refiled(N, old, one \/ two)
      BY <1>d, <3>1, <3>2, RefiledTwice
    <3> QED BY <3>3 DEF one, two
  <2>8. (both # {}) = (V # {} \/ W # {})
    BY <1>w
  <2>9. Refiled(N, T_lists[alloc], W # {}) = Refiled(N, old, both # {})
    BY <1>l, <2>7, <2>8 DEF T_lists
  <2>10. [T_lists EXCEPT ![alloc] = Refiled(N, T_lists[alloc], W # {})]
           = [borrow_nodes_of EXCEPT ![alloc] = Refiled(N, old, both # {})]
    <3> DEFINE X == Refiled(N, old, both # {})
    <3> HIDE DEF X
    <3>1. T_lists = [a \in Alloc |-> T_lists[a]] /\ borrow_nodes_of = [a \in Alloc |-> borrow_nodes_of[a]]
      BY <1>y, <1>t DEF T_lists
    <3>2. [T_lists EXCEPT ![alloc] = X] = [borrow_nodes_of EXCEPT ![alloc] = X]
      BY <1>l, <1>y, <3>1 DEF T_lists
    <3> QED BY <2>9, <3>2 DEF X
  <2> QED BY <1>b, <2>4, <2>10 DEF T_lists
<1> QED BY <1>q DEF OneThenOther

\* aliasing_access_range may be modelled as one access: for any two elements,
\* in any state a run reaches, both at once and one after the other leave the
\* same nodes and the same lists, and the second is never refused.
THEOREM RangesAreLoops == Spec => []RangeIsAccessPerElement
<1>1. IInv => RangeIsAccessPerElement
  <2> SUFFICES ASSUME IInv, NEW tag \in Minted, NEW p \in Path, NEW q \in Path,
                      NEW access \in Access, Judge(borrow_nodes[tag], access) = "ok"
               PROVE  /\ Judge(Touch(tag, {p}, access).nodes[tag], access) = "ok"
                      /\ Touch(tag, {p, q}, access) = OneThenOther(tag, p, q, access)
    BY Zenon DEF RangeIsAccessPerElement, OneThenOther
  <2>1. AccessCase(tag, {p}, access)
    BY DEF AccessCase
  <2>2. Judge(Touch(tag, {p}, access).nodes[tag], access) = "ok"
    BY <2>1, TouchNodes
  <2>3. Touch(tag, {p, q}, access) = OneThenOther(tag, p, q, access)
    BY <2>1, TouchTwice
  <2> QED BY <2>2, <2>3
<1> QED BY <1>1, Inductive, PTL
-----------------------------------------------------------------------------
(* The refinement: BorrowTree implements TreeBorrows under treeBar.         *)

Bar(N) ==
  [t \in DOMAIN N |-> [alloc |-> N[t].alloc, above |-> N[t].above,
                       path  |-> N[t].path,  perm  |-> N[t].state]]

BarNode(node) ==
  [alloc |-> node.alloc, above |-> node.above, path |-> node.path, perm |-> node.state]

\* The abstract view of a table has its tags and its length.
LEMMA BarShape ==
  ASSUME NEW N \in Seq(BorrowNode)
  PROVE  /\ Bar(N) \in Seq({BarNode(n) : n \in BorrowNode})
         /\ DOMAIN Bar(N) = DOMAIN N
         /\ Len(Bar(N)) = Len(N)
         /\ \A t \in DOMAIN N : Bar(N)[t] = BarNode(N[t])
<1>1. DOMAIN N = 1..Len(N) /\ Len(N) \in Nat /\ \A t \in DOMAIN N : N[t] \in BorrowNode
  BY LenProperties, NodesTyped
<1>2. Bar(N) \in [1..Len(N) -> {BarNode(n) : n \in BorrowNode}]
  BY <1>1 DEF Bar, BarNode
<1> QED BY <1>1, <1>2, IsASeq, LenProperties DEF Bar, BarNode

\* Abstracting after a mint is minting in the abstract tree.
LEMMA BarAppend ==
  ASSUME NEW N \in Seq(BorrowNode), NEW node \in BorrowNode
  PROVE  Bar(Append(N, node)) = Append(Bar(N), BarNode(node))
<1> DEFINE M == Append(N, node)
           S == {BarNode(n) : n \in BorrowNode}
<1>1. /\ M \in Seq(BorrowNode) /\ Len(N) \in Nat /\ DOMAIN N = 1..Len(N)
      /\ DOMAIN M = 1..(Len(N) + 1) /\ M[Len(N) + 1] = node
      /\ Len(M) = Len(N) + 1
      /\ \A t \in DOMAIN N : M[t] = N[t]
  BY AppendShape
<1> HIDE DEF M
<1>2. /\ Bar(N) \in Seq(S) /\ Len(Bar(N)) = Len(N) /\ DOMAIN Bar(N) = DOMAIN N
      /\ \A t \in DOMAIN N : Bar(N)[t] = BarNode(N[t])
  BY BarShape
<1>3. /\ Bar(M) \in Seq(S) /\ Len(Bar(M)) = Len(N) + 1
      /\ \A t \in DOMAIN M : Bar(M)[t] = BarNode(M[t])
  BY <1>1, BarShape
<1>4. BarNode(node) \in S
  OBVIOUS
<1>5. /\ Append(Bar(N), BarNode(node)) \in Seq(S)
      /\ Len(Append(Bar(N), BarNode(node))) = Len(N) + 1
      /\ Append(Bar(N), BarNode(node))[Len(N) + 1] = BarNode(node)
      /\ \A t \in DOMAIN N : Append(Bar(N), BarNode(node))[t] = BarNode(N[t])
  BY <1>1, <1>2, <1>4, AppendProperties
<1>6. \A t \in 1..(Len(N) + 1) : Bar(M)[t] = Append(Bar(N), BarNode(node))[t]
  BY <1>1, <1>3, <1>5
<1> QED BY <1>1, <1>3, <1>5, <1>6, SeqEqual DEF M

\* What Touch does to the nodes is what a scan of the whole tree does.
LEMMA TouchIsFullScan ==
  ASSUME NEW tag, NEW paths, NEW access, AccessCase(tag, paths, access)
  PROVE  Bar(Touch(tag, paths, access).nodes) = TB!Accessed(tag, paths, access)
<1> DEFINE N == Touch(tag, paths, access).nodes
<1>1. /\ N \in Seq(BorrowNode) /\ DOMAIN N = Minted
      /\ \A t \in Minted :
           N[t] = IF t \in Reached(tag, paths, access)
                    THEN React(borrow_nodes[t], access) ELSE borrow_nodes[t]
  BY TouchNodes
<1>2. /\ \A t \in Minted : borrow_nodes[t] \in BorrowNode
      /\ tag \in Minted /\ access \in Access
  BY NodesTyped DEF AccessCase, IInv, TreeIn, TypeIn, Minted
<1>3. DOMAIN treeBar = Minted /\ \A t \in Minted : treeBar[t] = BarNode(borrow_nodes[t])
  BY DEF treeBar, BarNode
<1> HIDE DEF N
<1>4. ASSUME NEW t \in Minted
      PROVE  BarNode(N[t]) = IF TB!Foreign(tag, t, paths)
                               THEN [treeBar[t] EXCEPT !.perm = TB!After(@, access)]
                               ELSE treeBar[t]
  <2>1. TB!Foreign(tag, t, paths) <=>
          /\ borrow_nodes[t].alloc = borrow_nodes[tag].alloc
          /\ ~is_descendant_of(borrow_nodes, tag, t)
          /\ \E p \in paths : paths_overlap(p, borrow_nodes[t].path)
    BY <1>2, <1>3 DEF TB!Foreign, TB!Overlap, paths_overlap, is_descendant_of, BarNode
  <2>2. borrow_nodes[t] \in BorrowNode /\ borrow_nodes[t].state \in NodeState
    BY <1>2 DEF BorrowNode
  <2>3. treeBar[t] = BarNode(borrow_nodes[t])
    BY <1>3
  <2>4. CASE ~TB!Foreign(tag, t, paths)
    <3>1. N[t] = borrow_nodes[t]
      BY <1>1, <2>1, <2>4 DEF Reached, ReachedIn, Minted
    <3> QED BY <2>3, <2>4, <3>1
  <2>5. CASE TB!Foreign(tag, t, paths)
    <3> DEFINE new == [treeBar[t] EXCEPT !.perm = TB!After(@, access)]
    <3>1. /\ N[t].alloc = borrow_nodes[t].alloc
          /\ N[t].above = borrow_nodes[t].above
          /\ N[t].path = borrow_nodes[t].path
      BY <1>1, <1>2, ReactFields
    <3>2. N[t].state = TB!After(borrow_nodes[t].state, access)
      <4>1. CASE t \in Reached(tag, paths, access)
        BY <1>1, <1>2, <2>2, <4>1, ReactFields DEF TB!After, Reached, ReachedIn, Minted, Access, NodeState
      <4>2. CASE t \notin Reached(tag, paths, access)
        BY <1>1, <1>2, <2>1, <2>2, <2>5, <4>2 DEF TB!After, Reached, ReachedIn, Minted, Access, NodeState
      <4> QED BY <4>1, <4>2
    <3>3. new = [alloc |-> borrow_nodes[t].alloc, above |-> borrow_nodes[t].above,
                 path |-> borrow_nodes[t].path,
                 perm |-> TB!After(borrow_nodes[t].state, access)]
      BY <2>3 DEF BarNode
    <3> QED BY <2>5, <3>1, <3>2, <3>3 DEF BarNode
  <2> QED BY <2>4, <2>5
<1>5. Bar(N) = [t \in Minted |-> BarNode(N[t])]
  BY <1>1 DEF Bar, BarNode
<1> QED BY <1>3, <1>4, <1>5 DEF TB!Accessed, N

\* Judge accepts exactly what the abstract permission allows.
LEMMA JudgeIsAllowed ==
  ASSUME NEW tag \in Minted, NEW access \in Access, IInv
  PROVE  Judge(borrow_nodes[tag], access) = "ok" <=> TB!Allowed(treeBar[tag].perm, access)
<1>1. borrow_nodes[tag].state \in NodeState
  BY NodesTyped DEF IInv, TreeIn, TypeIn, Minted
<1> QED BY <1>1 DEF Judge, TB!Allowed, treeBar, NodeState, Access

\* treeBar, in both states of a step, as a function of the table.
LEMMA BarIsBar == treeBar = Bar(borrow_nodes) /\ treeBar' = Bar(borrow_nodes')
BY DEF treeBar, Bar, Minted

\* An access that scans the lists is the full scan's Use.
LEMMA AccessIsUse ==
  ASSUME IInv, NEW tag \in Minted, NEW paths \in SUBSET Path, NEW access \in Access,
         AccessThrough(tag, paths, access)
  PROVE  TB!Use(tag, paths, access)
<1>1. CASE verdict' = "ok"
  <2>1. AccessCase(tag, paths, access)
    BY <1>1 DEF AccessCase, AccessThrough
  <2> QED BY <1>1, <2>1, TouchIsFullScan, JudgeIsAllowed, BarIsBar
          DEF AccessThrough, TB!Use
<1>2. CASE verdict' # "ok"
  BY <1>2, JudgeIsAllowed, BarIsBar DEF AccessThrough, TB!Use
<1> QED BY <1>1, <1>2

\* A borrow below an existing node is the full scan's Borrow.
LEMMA MintIsBorrow ==
  ASSUME IInv, NEW parent \in Minted, NEW path \in Path, NEW mutable \in BOOLEAN,
         MintBelow(parent, path, mutable)
  PROVE  TB!Borrow(parent, path, IF mutable THEN "Unique" ELSE "Frozen")
<1> DEFINE access == IF mutable THEN "Write" ELSE "Read"
           permission == IF mutable THEN "Unique" ELSE "Frozen"
           N == Touch(parent, {path}, access).nodes
           node == NewNode(borrow_nodes[parent].alloc, parent, path, mutable)
           leaf == TB!Leaf(treeBar[parent].alloc, treeBar[parent].above \cup {parent},
                           path, permission)
<1>1. access \in Access /\ access = (IF permission = "Unique" THEN "Write" ELSE "Read")
  BY DEF Access
<1>2. /\ borrow_nodes \in Seq(BorrowNode) /\ Len(borrow_nodes) \in Nat
      /\ Len(treeBar) = Len(borrow_nodes)
      /\ treeBar[parent] = BarNode(borrow_nodes[parent])
      /\ borrow_nodes[parent] \in BorrowNode
      /\ parent \in Tag
  <2>1. borrow_nodes \in Seq(BorrowNode) /\ Len(borrow_nodes) <= MaxNodes
    BY DEF IInv, TreeIn, TypeIn
  <2>2. /\ Len(borrow_nodes) \in Nat /\ parent \in 1..Len(borrow_nodes)
        /\ borrow_nodes[parent] \in BorrowNode
    BY <2>1, NodesTyped, LenProperties DEF Minted
  <2>3. treeBar = Bar(borrow_nodes)
    BY BarIsBar
  <2>4. Len(treeBar) = Len(borrow_nodes) /\ treeBar[parent] = BarNode(borrow_nodes[parent])
    BY <2>1, <2>3, BarShape DEF Minted
  <2> QED BY <2>1, <2>2, <2>4, MaxNodesAssumption DEF Tag
<1>3. verdict = "ok" /\ Len(treeBar) < MaxNodes
  BY <1>2, MaxNodesAssumption DEF MintBelow, NextTag
<1>4. node \in BorrowNode /\ BarNode(node) = leaf
  BY <1>2 DEF NewNode, BorrowNode, NodeState, BarNode, TB!Leaf
<1>5. CASE verdict' = "ok"
  <2>1. AccessCase(parent, {path}, access)
    BY <1>1, <1>5 DEF AccessCase, MintBelow
  <2>2. N \in Seq(BorrowNode)
    BY <2>1, TouchNodes
  <2>3. borrow_nodes' = Append(N, node)
    BY <1>5 DEF MintBelow
  <2>4. treeBar' = Append(Bar(N), leaf)
    BY <1>4, <2>2, <2>3, BarAppend, BarIsBar
  <2>5. Bar(N) = TB!Accessed(parent, {path}, access)
    BY <2>1, TouchIsFullScan
  <2>6. TB!Allowed(treeBar[parent].perm, access)
    BY <1>1, <1>5, JudgeIsAllowed DEF MintBelow
  <2> QED BY <1>1, <1>3, <1>5, <2>4, <2>5, <2>6 DEF TB!Borrow
<1>6. CASE verdict' # "ok"
  <2>1. ~TB!Allowed(treeBar[parent].perm, access) /\ UNCHANGED borrow_nodes
    BY <1>1, <1>6, JudgeIsAllowed DEF MintBelow
  <2> QED BY <1>1, <1>3, <1>6, <2>1, BarIsBar DEF TB!Borrow
<1> QED BY <1>5, <1>6

\* The first borrow of an allocation is the abstract Plant.
LEMMA MintFirstIsPlant ==
  ASSUME IInv, NEW alloc \in Alloc, NEW path \in Path, NEW mutable \in BOOLEAN,
         MintFirst(alloc, path, mutable)
  PROVE  TB!Plant(alloc, path, IF mutable THEN "Unique" ELSE "Frozen")
<1> DEFINE permission == IF mutable THEN "Unique" ELSE "Frozen"
           root == Len(borrow_nodes) + 1
           node == [alloc |-> alloc, parent |-> root, above |-> {root},
                    path |-> path, state |-> IF mutable THEN "Unique" ELSE "Frozen",
                    invalidated |-> FALSE, mutable |-> mutable]
<1>1. /\ borrow_nodes \in Seq(BorrowNode) /\ Len(borrow_nodes) \in Nat
      /\ OwnerIn(borrow_nodes, borrow_roots)
      /\ Len(treeBar) = Len(borrow_nodes)
      /\ DOMAIN treeBar = Minted
      /\ \A t \in Minted : treeBar[t] = BarNode(borrow_nodes[t])
  BY BarShape, BarIsBar, LenProperties DEF IInv, TreeIn, TypeIn, Minted
<1>2. /\ verdict = "ok" /\ verdict' = verdict /\ root + 1 <= MaxNodes
      /\ alloc \notin DOMAIN borrow_roots
      /\ borrow_nodes' = Append(Append(borrow_nodes, Root(alloc)), node)
  BY DEF MintFirst, NextTag
<1>3. \A t \in Minted : treeBar[t].alloc # alloc
  <2>1. \A t \in Minted : borrow_nodes[t].alloc # alloc
    BY <1>1, <1>2 DEF OwnerIn, Minted
  <2>2. \A t \in Minted : treeBar[t].alloc = borrow_nodes[t].alloc
    BY DEF treeBar
  <2> QED BY <2>1, <2>2
<1>4. Root(alloc) \in BorrowNode /\ node \in BorrowNode
  <2>1. root \in Tag
    BY <1>1, <1>2, MaxNodesAssumption DEF Tag
  <2> HIDE DEF root
  <2> QED BY <2>1, PathAssumption DEF Root, BorrowNode, NodeState, NoParent
<1>5. /\ BarNode(Root(alloc)) = TB!Leaf(alloc, {}, <<>>, "Unique")
      /\ BarNode(node) = TB!Leaf(alloc, {root}, path, permission)
  BY DEF BarNode, Root, TB!Leaf
<1>6. treeBar' = Append(Append(treeBar, BarNode(Root(alloc))), BarNode(node))
  <2>1. Append(borrow_nodes, Root(alloc)) \in Seq(BorrowNode)
    BY <1>1, <1>4
  <2> HIDE DEF node
  <2> QED BY <1>1, <1>2, <1>4, <2>1, BarAppend, BarIsBar
<1>7. root < MaxNodes /\ root = Len(treeBar) + 1
  BY <1>1, <1>2, MaxNodesAssumption
<1> HIDE DEF node
<1> QED BY <1>1, <1>2, <1>3, <1>5, <1>6, <1>7 DEF TB!Plant

\* The scan-list machine implements the full-scan semantics: every step is a
\* step of TreeBorrows or leaves its tree alone.
THEOREM ListsImplementTreeBorrows == Spec => ImplementsTreeBorrows
<1>1. Init => TB!Init
  <2> SUFFICES ASSUME Init PROVE TB!Init
    OBVIOUS
  <2>1. borrow_nodes = <<>> /\ verdict = "ok" /\ DOMAIN borrow_nodes = {}
    BY DEF Init
  <2>2. borrow_nodes \in Seq(BorrowNode)
    BY <2>1
  <2>3. treeBar \in Seq({BarNode(n) : n \in BorrowNode}) /\ Len(treeBar) = 0
    BY <2>1, <2>2, BarShape, BarIsBar
  <2> QED BY <2>1, <2>3, EmptySeq DEF TB!Init
<1>2. IInv /\ [Next]_vars => [TB!Next]_(TB!vars)
  <2> SUFFICES ASSUME IInv, [Next]_vars PROVE [TB!Next]_(TB!vars)
    OBVIOUS
  <2>0. DOMAIN treeBar = Minted
    BY DEF treeBar
  <2>1. CASE Next
    <3>1. Step
      BY <2>1, NextIsStep
    <3>2. CASE \E tag \in Minted, paths \in SUBSET Path, access \in Access :
                 paths \in Ranges /\ AccessThrough(tag, paths, access)
      BY <2>0, <3>2, AccessIsUse DEF TB!Next, TB!Access, Access
    <3>3. CASE \E parent \in Minted, path \in Path, mutable \in BOOLEAN :
                 MintBelow(parent, path, mutable)
      <4>1. PICK parent \in Minted, path \in Path, mutable \in BOOLEAN :
              MintBelow(parent, path, mutable)
        BY <3>3
      <4>2. TB!Borrow(parent, path, IF mutable THEN "Unique" ELSE "Frozen")
        BY <4>1, MintIsBorrow
      <4> QED BY <2>0, <4>2 DEF TB!Next
    <3>4. CASE \E alloc \in Alloc, path \in Path, mutable \in BOOLEAN :
                 MintFirst(alloc, path, mutable)
      <4>1. PICK alloc \in Alloc, path \in Path, mutable \in BOOLEAN :
              MintFirst(alloc, path, mutable)
        BY <3>4
      <4>2. TB!Plant(alloc, path, IF mutable THEN "Unique" ELSE "Frozen")
        BY <4>1, MintFirstIsPlant
      <4> QED BY <4>2 DEF TB!Next
    <3> QED BY <3>1, <3>2, <3>3, <3>4 DEF Step
  <2>2. CASE UNCHANGED vars
    BY <2>2 DEF vars, TB!vars, treeBar, Minted
  <2> QED BY <2>1, <2>2
<1> QED BY <1>1, <1>2, Inductive, PTL DEF Spec, ImplementsTreeBorrows, TB!Spec
-----------------------------------------------------------------------------
(* One state per node never accepts an access that exact per-location        *)
(* tracking refuses.  The invariant: where a node's own path reaches, its    *)
(* exact permission is at least the state the code keeps for the node.       *)

Perms == [Loc -> NodeState]

ConservativeIn(N, P) ==
  \A t \in DOMAIN N, l \in Loc :
    covers(N[t].path, l) =>
      /\ N[t].state = "Unique" => P[t][l] = "Unique"
      /\ N[t].state = "Frozen" => P[t][l] # "Disabled"

PermIn(N, P) ==
  /\ P \in Seq(Perms)
  /\ Len(P) = Len(N)
  /\ ConservativeIn(N, P)

LIInv == IInv /\ PermIn(borrow_nodes, perm)

\* Two paths that both reach one location overlap.
LEMMA CoverOverlap ==
  \A p, q, l : covers(p, l) /\ covers(q, l) => paths_overlap(p, q)
BY DEF covers, paths_overlap

\* The exact permissions ride along: every step is one of BorrowTree's.
LEMMA LNextIsNext == LNext => Next
BY DEF LNext, Next, LAccess, LMint, LMintFirst, LAccessUntracked, LMintUntracked,
       AccessUntracked, MintUntracked

\* An accepted access keeps the exact permissions above the node states.
LEMMA TouchConservative ==
  ASSUME NEW tag, NEW paths, NEW access, AccessCase(tag, paths, access),
         PermIn(borrow_nodes, perm)
  PROVE  PermIn(Touch(tag, paths, access).nodes, ExactAfter(tag, paths, access))
<1> DEFINE N == Touch(tag, paths, access).nodes
           P == ExactAfter(tag, paths, access)
<1>1. /\ Len(N) = Len(borrow_nodes) /\ DOMAIN N = Minted
      /\ \A t \in Minted :
           N[t] = IF t \in Reached(tag, paths, access)
                    THEN React(borrow_nodes[t], access) ELSE borrow_nodes[t]
  BY TouchNodes
<1>2. /\ \A t \in Minted : borrow_nodes[t] \in BorrowNode
      /\ Minted = 1..Len(borrow_nodes) /\ Len(borrow_nodes) \in Nat
      /\ access \in Access
  BY NodesTyped, LenProperties DEF AccessCase, IInv, TreeIn, TypeIn, Minted
<1>3. \A t \in Minted : perm[t] \in Perms
  BY <1>2, ElementOfSeq DEF PermIn
<1>4. \A t \in Minted : P[t] \in Perms
  <2>1. \A t \in Minted, l \in Loc :
          Demoted(perm[t][l], access) \in NodeState /\ perm[t][l] \in NodeState
    BY <1>3 DEF Perms, Demoted, NodeState
  <2> QED BY <2>1 DEF ExactAfter, Perms
<1>5. P \in Seq(Perms) /\ Len(P) = Len(borrow_nodes)
  <2>1. P \in [1..Len(borrow_nodes) -> Perms]
    BY <1>2, <1>4 DEF ExactAfter
  <2> QED BY <1>2, <2>1, IsASeq, LenProperties
<1>6. ASSUME NEW t \in Minted, NEW l \in Loc, covers(N[t].path, l)
      PROVE  /\ N[t].state = "Unique" => P[t][l] = "Unique"
             /\ N[t].state = "Frozen" => P[t][l] # "Disabled"
  <2>0. /\ P[t][l] = IF ExactForeign(tag, t) /\ Touches(paths, l)
                       THEN Demoted(perm[t][l], access) ELSE perm[t][l]
        /\ N[t].path = borrow_nodes[t].path
        /\ borrow_nodes[t] \in BorrowNode /\ borrow_nodes[t].state \in NodeState
    BY <1>1, <1>2, ReactFields DEF ExactAfter, BorrowNode
  <2>1. /\ borrow_nodes[t].state = "Unique" => perm[t][l] = "Unique"
        /\ borrow_nodes[t].state = "Frozen" => perm[t][l] # "Disabled"
    BY <1>6, <2>0 DEF PermIn, ConservativeIn, Minted
  <2>2. CASE t \in Reached(tag, paths, access)
    <3>1. /\ N[t].state # "Unique"
          /\ N[t].state = "Frozen" => access = "Read" /\ borrow_nodes[t].state = "Unique"
      BY <1>1, <1>2, <2>0, <2>2, ReactFields DEF Reached, ReachedIn, Minted, Access
    <3> QED BY <2>0, <2>1, <3>1 DEF Demoted
  <2>3. CASE t \notin Reached(tag, paths, access)
    <3>1. N[t] = borrow_nodes[t]
      BY <1>1, <2>3
    <3>2. CASE ~(ExactForeign(tag, t) /\ Touches(paths, l))
      BY <2>0, <2>1, <3>1, <3>2
    <3>3. CASE ExactForeign(tag, t) /\ Touches(paths, l)
      <4>1. \E p \in paths : paths_overlap(p, borrow_nodes[t].path)
        BY <1>6, <2>0, <3>3, CoverOverlap DEF Touches
      <4>2. /\ borrow_nodes[t].state # "Unique"
            /\ ~(borrow_nodes[t].state = "Frozen" /\ access = "Write")
        BY <2>3, <3>3, <4>1 DEF Reached, ReachedIn, Minted, ExactForeign
      <4> QED BY <1>2, <2>0, <2>1, <3>1, <4>2 DEF Demoted, Access, NodeState
    <3> QED BY <3>2, <3>3
  <2> QED BY <2>2, <2>3
<1> QED BY <1>1, <1>5, <1>6 DEF PermIn, ConservativeIn

\* The permissions after a mint: one entry more, the old ones unchanged.
LEMMA AppendPerm ==
  ASSUME NEW N \in Seq(BorrowNode), NEW P, PermIn(N, P),
         NEW node \in BorrowNode, node.state \in {"Unique", "Frozen"}
  PROVE  PermIn(Append(N, node), Append(P, Everywhere(node.state)))
<1> DEFINE M == Append(N, node)
           tag == Len(N) + 1
           new == Everywhere(node.state)
           Q == Append(P, new)
<1>1. /\ Len(M) = tag /\ DOMAIN N = 1..Len(N) /\ Len(N) \in Nat
      /\ DOMAIN M = DOMAIN N \cup {tag} /\ M[tag] = node
      /\ \A t \in DOMAIN N : M[t] = N[t]
  BY AppendShape
<1>2. new \in Perms /\ \A l \in Loc : new[l] = node.state
  BY DEF Everywhere, Perms, NodeState
<1>3. /\ Q \in Seq(Perms) /\ Len(Q) = tag /\ Q[tag] = new
      /\ \A t \in DOMAIN N : Q[t] = P[t]
  BY <1>1, <1>2, AppendProperties DEF PermIn
<1> HIDE DEF M, Q, new, tag
<1> QED BY <1>1, <1>2, <1>3 DEF PermIn, ConservativeIn, M, Q, new

\* Every step keeps the exact permissions below the code's state.
LEMMA LStep == LIInv /\ [LNext]_lvars => LIInv'
<1> SUFFICES ASSUME LIInv, [LNext]_lvars PROVE LIInv'
  OBVIOUS
<1>0. IInv /\ PermIn(borrow_nodes, perm) /\ borrow_nodes \in Seq(BorrowNode)
  BY DEF LIInv, IInv, TreeIn, TypeIn
<1>1. ASSUME LNext PROVE IInv'
  BY <1>0, <1>1, LNextIsNext, StepIInv
<1>2. ASSUME NEW tag \in Minted, NEW paths \in Ranges, NEW access \in Access,
             LAccess(tag, paths, access)
      PROVE  PermIn(borrow_nodes, perm)'
  <2>1. CASE verdict' = "ok"
    <3>1. AccessCase(tag, paths, access)
      BY <1>0, <1>2, <2>1, RangesAssumption DEF LAccess, AccessThrough, AccessCase
    <3> QED BY <1>0, <1>2, <2>1, <3>1, TouchConservative DEF LAccess, AccessThrough
  <2>2. CASE verdict' # "ok"
    BY <1>0, <1>2, <2>2 DEF LAccess, AccessThrough
  <2> QED BY <2>1, <2>2
<1>3. ASSUME NEW parent \in Minted, NEW path \in Path, NEW mutable \in BOOLEAN,
             LMint(parent, path, mutable)
      PROVE  PermIn(borrow_nodes, perm)'
  <2> DEFINE access == IF mutable THEN "Write" ELSE "Read"
             N == Touch(parent, {path}, access).nodes
             node == NewNode(borrow_nodes[parent].alloc, parent, path, mutable)
  <2>1. CASE verdict' = "ok"
    <3>1. AccessCase(parent, {path}, access)
      BY <1>0, <1>3, <2>1 DEF LMint, MintBelow, AccessCase, Access
    <3>2. N \in Seq(BorrowNode) /\ PermIn(N, ExactAfter(parent, {path}, access))
      BY <1>0, <3>1, TouchNodes, TouchConservative
    <3>3. /\ node \in BorrowNode
          /\ node.state = IF mutable THEN "Unique" ELSE "Frozen"
      <4>1. borrow_nodes[parent] \in BorrowNode /\ parent \in Tag
        BY <1>0, NodesTyped, MaxNodesAssumption DEF IInv, TreeIn, TypeIn, Minted, Tag
      <4> QED BY <4>1 DEF NewNode, BorrowNode, NodeState
    <3>4. /\ borrow_nodes' = Append(N, node)
          /\ perm' = Append(ExactAfter(parent, {path}, access), Everywhere(node.state))
      BY <1>3, <2>1, <3>3 DEF LMint, MintBelow
    <3> HIDE DEF N, node
    <3> QED BY <3>2, <3>3, <3>4, AppendPerm
  <2>2. CASE verdict' # "ok"
    BY <1>0, <1>3, <2>2 DEF LMint, MintBelow
  <2> QED BY <2>1, <2>2
<1>4. ASSUME NEW alloc \in Alloc, NEW path \in Path, NEW mutable \in BOOLEAN,
             LMintFirst(alloc, path, mutable)
      PROVE  PermIn(borrow_nodes, perm)'
  <2> DEFINE root == Len(borrow_nodes) + 1
             node == [alloc |-> alloc, parent |-> root, above |-> {root},
                      path |-> path, state |-> IF mutable THEN "Unique" ELSE "Frozen",
                      invalidated |-> FALSE, mutable |-> mutable]
             one == Append(borrow_nodes, Root(alloc))
             P == Append(perm, Everywhere("Unique"))
  <2>1. /\ borrow_nodes' = Append(one, node)
        /\ perm' = perm \o <<Everywhere("Unique"), Everywhere(node.state)>>
        /\ root + 1 <= MaxNodes
    BY <1>4 DEF LMintFirst, MintFirst, NextTag
  <2>2. /\ Root(alloc) \in BorrowNode /\ Root(alloc).state = "Unique"
        /\ node \in BorrowNode /\ node.state \in {"Unique", "Frozen"}
    <3>1. root \in Tag
      BY <1>0, <2>1, LenProperties, MaxNodesAssumption DEF Tag
    <3> HIDE DEF root
    <3> QED BY <3>1, PathAssumption DEF Root, BorrowNode, NodeState, NoParent
  <2>3. PermIn(one, P) /\ one \in Seq(BorrowNode)
    BY <1>0, <2>2, AppendPerm, AppendShape
  <2>4. perm' = Append(P, Everywhere(node.state))
    <3>1. Everywhere("Unique") \in Perms /\ Everywhere(node.state) \in Perms
      BY <2>2 DEF Everywhere, Perms, NodeState
    <3> HIDE DEF node
    <3> QED BY <1>0, <2>1, <3>1 DEF PermIn
  <2> HIDE DEF one, P, node
  <2> QED BY <2>1, <2>2, <2>3, <2>4, AppendPerm
<1>5. \A alloc \in DOMAIN borrow_roots : borrow_roots[alloc] \in Minted
  BY <1>0 DEF IInv, TreeIn, OwnerIn, Minted
<1>6. ASSUME NEW alloc \in Alloc, NEW paths \in Ranges, NEW access \in Access,
             LAccessUntracked(alloc, paths, access)
      PROVE  PermIn(borrow_nodes, perm)'
  BY <1>2, <1>5, <1>6 DEF LAccessUntracked
<1>7. ASSUME NEW alloc \in Alloc, NEW path \in Path, NEW mutable \in BOOLEAN,
             LMintUntracked(alloc, path, mutable)
      PROVE  PermIn(borrow_nodes, perm)'
  BY <1>3, <1>4, <1>5, <1>7 DEF LMintUntracked
<1>8. CASE LNext
  BY <1>1, <1>2, <1>3, <1>6, <1>7, <1>8 DEF LNext, LIInv
<1>9. CASE UNCHANGED lvars
  BY <1>9 DEF lvars, LIInv, IInv
<1> QED BY <1>8, <1>9

\* Before the first borrow there is nothing to compare.
LEMMA LInitInv == LInit => LIInv
<1> SUFFICES ASSUME LInit PROVE LIInv
  OBVIOUS
<1>1. borrow_nodes = <<>> /\ perm = <<>>
  BY DEF LInit, Init
<1>2. PermIn(borrow_nodes, perm)
  BY <1>1 DEF PermIn, ConservativeIn
<1> QED BY <1>2, InitIInv DEF LInit, LIInv

\* The approximation of one state per node is sound: whatever aliasing_access
\* accepts, exact per-location tracking accepts too.
THEOREM ApproximationIsSound == LSpec => []NoViolationMissed
<1>1. LIInv => NoViolationMissed
  <2> SUFFICES ASSUME LIInv, NEW tag \in Minted, NEW paths \in Ranges,
                      NEW access \in Access,
                      Judge(borrow_nodes[tag], access) = "ok",
                      ExactRefuses(tag, paths, access)
               PROVE  FALSE
    BY DEF NoViolationMissed
  <2>1. borrow_nodes[tag].state \in NodeState
    BY NodesTyped DEF LIInv, IInv, TreeIn, TypeIn, Minted
  <2>2. \/ borrow_nodes[tag].state = "Unique"
        \/ borrow_nodes[tag].state = "Frozen" /\ access = "Read"
    BY <2>1 DEF Judge, NodeState, Access
  <2> QED BY <2>2 DEF ExactRefuses, LIInv, PermIn, ConservativeIn, Minted
<1> QED BY <1>1, LInitInv, LStep, PTL DEF LSpec

-----------------------------------------------------------------------------

(***************************************************************************)
(* The frames and the allocations of Memory agree, for any locals, values  *)
(* and bounds.                                                             *)
(*                                                                         *)
(* A statement does one of a few things to the two: it writes a plain      *)
(* local, changes what an allocation holds, promotes a local, appends an   *)
(* allocation no local owns, ends one, or pushes or pops a frame.  The     *)
(* invariant is stated of any stack F and any memory M, so that each of    *)
(* these is one lemma.  What the aliasing tree says decides only whether a *)
(* statement runs, so the tree is in none of them.                         *)
(*                                                                         *)
(* That each write leaves one line of borrows is about the tree, and about *)
(* how far a write reaches: the second part, after the poison.             *)
(***************************************************************************)

Local == Name \cup Plain
Content == Aggregate \cup {Whole, Uninit}

Partial(D, R) == UNION {[S -> R] : S \in SUBSET D}

\* A local whose address is taken holds an aggregate, a plain one a value
\* without poison or the poison a move left.
Stored(x) == IF x \in Name THEN Aggregate ELSE {Whole, Uninit}

FrameSet ==
  {f \in [locals : Partial(Local, Content), promoted : Partial(Name, Nat), dest : Plain] :
     /\ \A x \in DOMAIN f.locals : f.locals[x] \in Stored(x)
     /\ DOMAIN f.locals \cap DOMAIN f.promoted = {}}

\* What a cell holds is left open: nothing here depends on it.
CellsIn(M) ==
  /\ M \in Seq({M[a] : a \in DOMAIN M})
  /\ \A a \in DOMAIN M : /\ {"live", "kind"} \subseteq DOMAIN M[a]
                         /\ M[a].live \in BOOLEAN

\* The live allocations of locals.
Owned(M) == {a \in DOMAIN M : M[a].kind = "Local" /\ M[a].live}

OwnedIn(F, M) ==
  \A i \in DOMAIN F : \A x \in DOMAIN F[i].promoted : F[i].promoted[x] \in Owned(M)

ApartIn(F) ==
  \A i, j \in DOMAIN F :
    \A x \in DOMAIN F[i].promoted, y \in DOMAIN F[j].promoted :
      F[i].promoted[x] = F[j].promoted[y] => i = j /\ x = y

NoneLeftIn(F, M) ==
  \A a \in Owned(M) :
    \E i \in DOMAIN F : \E x \in DOMAIN F[i].promoted : F[i].promoted[x] = a

FramesIn(F) == F \in Seq(FrameSet)

HomesIn(F, M) == OwnedIn(F, M) /\ ApartIn(F) /\ NoneLeftIn(F, M)

Good(F, M) == FramesIn(F) /\ CellsIn(M) /\ HomesIn(F, M)

MInv == Good(frames, memory) /\ (verdict = "ok" => frames # <<>>)
-----------------------------------------------------------------------------
(* Frames.                                                                  *)

LEMMA WithIn ==
  ASSUME NEW D, NEW R, NEW f \in Partial(D, R), NEW x \in D, NEW v \in R
  PROVE  With(f, x, v) \in Partial(D, R)
<1>1. PICK S \in SUBSET D : f \in [S -> R]
  BY DEF Partial
<1>2. With(f, x, v) \in [S \cup {x} -> R]
  BY <1>1 DEF With
<1>3. S \cup {x} \in SUBSET D
  OBVIOUS
<1> QED BY <1>2, <1>3 DEF Partial

LEMMA WithoutIn ==
  ASSUME NEW D, NEW R, NEW f \in Partial(D, R), NEW x
  PROVE  Without(f, x) \in Partial(D, R)
<1>1. PICK S \in SUBSET D : f \in [S -> R]
  BY DEF Partial
<1>2. Without(f, x) \in [S \ {x} -> R]
  BY <1>1 DEF Without
<1>3. S \ {x} \in SUBSET D
  OBVIOUS
<1> QED BY <1>2, <1>3 DEF Partial

\* A frame reads as its parts.
LEMMA FrameParts ==
  ASSUME NEW f \in FrameSet
  PROVE  /\ f.locals \in Partial(Local, Content)
         /\ f.promoted \in Partial(Name, Nat)
         /\ f.dest \in Plain
         /\ f = [locals |-> f.locals, promoted |-> f.promoted, dest |-> f.dest]
         /\ DOMAIN f.promoted \subseteq Name
         /\ DOMAIN f.locals \subseteq Local
         /\ \A x \in DOMAIN f.promoted : f.promoted[x] \in Nat
         /\ \A x \in DOMAIN f.locals : f.locals[x] \in Stored(x)
         /\ DOMAIN f.locals \cap DOMAIN f.promoted = {}
<1>1. /\ f.locals \in Partial(Local, Content)
      /\ f.promoted \in Partial(Name, Nat)
      /\ f.dest \in Plain
      /\ f = [locals |-> f.locals, promoted |-> f.promoted, dest |-> f.dest]
      /\ \A x \in DOMAIN f.locals : f.locals[x] \in Stored(x)
      /\ DOMAIN f.locals \cap DOMAIN f.promoted = {}
  BY DEF FrameSet
<1>2. PICK S \in SUBSET Name : f.promoted \in [S -> Nat]
  BY <1>1 DEF Partial
<1>3. PICK T \in SUBSET Local : f.locals \in [T -> Content]
  BY <1>1 DEF Partial
<1> QED BY <1>1, <1>2, <1>3

\* Writing a plain local leaves what the frame owns.
LEMMA SetLocalFrame ==
  ASSUME NEW f \in FrameSet, NEW x \in Local, x \notin DOMAIN f.promoted,
         NEW v \in Stored(x)
  PROVE  /\ [f EXCEPT !.locals = With(@, x, v)] \in FrameSet
         /\ [f EXCEPT !.locals = With(@, x, v)].promoted = f.promoted
<1> DEFINE g == [f EXCEPT !.locals = With(@, x, v)]
<1>0. /\ f.locals \in Partial(Local, Content)
      /\ f.promoted \in Partial(Name, Nat)
      /\ f = [locals |-> f.locals, promoted |-> f.promoted, dest |-> f.dest]
  BY FrameParts
<1>1. v \in Content
  BY DEF Stored, Content
<1>2. With(f.locals, x, v) \in Partial(Local, Content)
  BY <1>0, <1>1, WithIn
<1>2a. /\ DOMAIN With(f.locals, x, v) = DOMAIN f.locals \cup {x}
       /\ With(f.locals, x, v)[x] = v
       /\ \A y \in DOMAIN f.locals : y # x => With(f.locals, x, v)[y] = f.locals[y]
  BY DEF With
<1>3. g = [locals |-> With(f.locals, x, v), promoted |-> f.promoted, dest |-> f.dest]
  BY FrameParts
<1>4. \A y \in DOMAIN g.locals : g.locals[y] \in Stored(y)
  BY <1>2a, <1>3, FrameParts
<1>5. DOMAIN g.locals \cap DOMAIN g.promoted = {}
  BY <1>2a, <1>3, FrameParts
<1> QED BY <1>2, <1>3, <1>4, <1>5, FrameParts DEF FrameSet

\* Promotion moves the name, the end of its storage removes it.
LEMMA PromoteFrame ==
  ASSUME NEW f \in FrameSet, NEW x \in Name, NEW n \in Nat
  PROVE  LET g == Homed(f, x, n)
         IN  /\ g \in FrameSet
             /\ DOMAIN g.promoted = DOMAIN f.promoted \cup {x}
             /\ g.promoted[x] = n
             /\ \A y \in DOMAIN f.promoted : y # x => g.promoted[y] = f.promoted[y]
<1> DEFINE g == Homed(f, x, n)
<1>0. /\ f \in [locals : Partial(Local, Content), promoted : Partial(Name, Nat), dest : Plain]
      /\ f.locals \in Partial(Local, Content)
      /\ f.promoted \in Partial(Name, Nat)
  BY FrameParts DEF FrameSet
<1>2. Without(f.locals, x) \in Partial(Local, Content)
  BY <1>0, WithoutIn
<1>2a. /\ DOMAIN Without(f.locals, x) = DOMAIN f.locals \ {x}
       /\ \A y \in DOMAIN f.locals \ {x} : Without(f.locals, x)[y] = f.locals[y]
  BY DEF Without
<1>3. With(f.promoted, x, n) \in Partial(Name, Nat)
  BY <1>0, WithIn
<1>3a. /\ DOMAIN With(f.promoted, x, n) = DOMAIN f.promoted \cup {x}
       /\ With(f.promoted, x, n)[x] = n
       /\ \A y \in DOMAIN f.promoted : y # x => With(f.promoted, x, n)[y] = f.promoted[y]
  BY DEF With
<1>1. /\ g \in [locals : Partial(Local, Content), promoted : Partial(Name, Nat), dest : Plain]
      /\ g.locals = Without(f.locals, x)
      /\ g.promoted = With(f.promoted, x, n)
  BY <1>0, <1>2, <1>3 DEF Homed
<1>4. \A y \in DOMAIN g.locals : g.locals[y] \in Stored(y)
  BY <1>1, <1>2, <1>2a, FrameParts
<1>5. DOMAIN g.locals \cap DOMAIN g.promoted = {}
  BY <1>1, <1>2a, <1>3a, FrameParts
<1> QED BY <1>1, <1>3a, <1>4, <1>5 DEF FrameSet

LEMMA ForgetFrame ==
  ASSUME NEW f \in FrameSet, NEW x \in Name
  PROVE  LET g == Left(f, x)
         IN  /\ g \in FrameSet
             /\ DOMAIN g.promoted = DOMAIN f.promoted \ {x}
             /\ \A y \in DOMAIN f.promoted \ {x} : g.promoted[y] = f.promoted[y]
<1> DEFINE g == Left(f, x)
<1>0. /\ f \in [locals : Partial(Local, Content), promoted : Partial(Name, Nat), dest : Plain]
      /\ f.locals \in Partial(Local, Content)
      /\ f.promoted \in Partial(Name, Nat)
  BY FrameParts DEF FrameSet
<1>2. Without(f.locals, x) \in Partial(Local, Content)
  BY <1>0, WithoutIn
<1>2a. /\ DOMAIN Without(f.locals, x) = DOMAIN f.locals \ {x}
       /\ \A y \in DOMAIN f.locals \ {x} : Without(f.locals, x)[y] = f.locals[y]
  BY DEF Without
<1>3. Without(f.promoted, x) \in Partial(Name, Nat)
  BY <1>0, WithoutIn
<1>3a. /\ DOMAIN Without(f.promoted, x) = DOMAIN f.promoted \ {x}
       /\ \A y \in DOMAIN f.promoted \ {x} : Without(f.promoted, x)[y] = f.promoted[y]
  BY DEF Without
<1>1. /\ g \in [locals : Partial(Local, Content), promoted : Partial(Name, Nat), dest : Plain]
      /\ g.locals = Without(f.locals, x)
      /\ g.promoted = Without(f.promoted, x)
  BY <1>0, <1>2, <1>3 DEF Left
<1>4. \A y \in DOMAIN g.locals : g.locals[y] \in Stored(y)
  BY <1>1, <1>2, <1>2a, FrameParts
<1>5. DOMAIN g.locals \cap DOMAIN g.promoted = {}
  BY <1>1, <1>2a, <1>3a, FrameParts
<1> QED BY <1>1, <1>3a, <1>4, <1>5 DEF FrameSet

\* A frame just pushed owns nothing.
LEMMA NewFrame ==
  ASSUME NEW S, S \subseteq Local, NEW locals \in [S -> Content],
         \A x \in S : locals[x] \in Stored(x), NEW t \in Plain
  PROVE  /\ Frame(locals, t) \in FrameSet
         /\ DOMAIN Frame(locals, t).promoted = {}
<1> DEFINE promoted == [y \in {} |-> 1]
<1>1. locals \in Partial(Local, Content)
  BY DEF Partial
<1>2. promoted \in [{} -> Nat]
  OBVIOUS
<1>3. promoted \in Partial(Name, Nat)
  BY <1>2 DEF Partial
<1> QED BY <1>1, <1>3 DEF Frame, FrameSet
-----------------------------------------------------------------------------
(* Stacks.                                                                  *)

\* The innermost frame replaced.
LEMMA TopReplaced ==
  ASSUME NEW F, FramesIn(F), F # <<>>, NEW g \in FrameSet
  PROVE  LET G == [F EXCEPT ![Len(F)] = g]
         IN  /\ FramesIn(G) /\ G # <<>>
             /\ Len(F) \in DOMAIN F /\ DOMAIN G = DOMAIN F
             /\ G[Len(F)] = g
             /\ \A i \in DOMAIN F : i # Len(F) => G[i] = F[i]
<1> DEFINE G == [F EXCEPT ![Len(F)] = g]
<1>1. Len(F) \in Nat \ {0} /\ DOMAIN F = 1..Len(F)
  BY EmptySeq, LenProperties DEF FramesIn
<1>2. G \in Seq(FrameSet) /\ Len(G) = Len(F)
  BY <1>1, ExceptSeq DEF FramesIn
<1>3. G # <<>>
  BY <1>1, <1>2, EmptySeq
<1> QED BY <1>1, <1>2, <1>3 DEF FramesIn

LEMMA FrameOfStack ==
  ASSUME NEW F, FramesIn(F)
  PROVE  /\ DOMAIN F = 1..Len(F) /\ Len(F) \in Nat
         /\ \A i \in DOMAIN F : F[i] \in FrameSet
         /\ F # <<>> => Len(F) \in DOMAIN F
BY EmptySeq, LenProperties, ElementOfSeq DEF FramesIn

LEMMA SamePromoted ==
  ASSUME NEW F, NEW G, NEW M, HomesIn(F, M), DOMAIN G = DOMAIN F,
         \A i \in DOMAIN F : G[i].promoted = F[i].promoted
  PROVE  HomesIn(G, M)
BY DEF HomesIn, OwnedIn, ApartIn, NoneLeftIn

\* A plain local written.
LEMMA SetLocalKeeps ==
  ASSUME NEW F, NEW M, Good(F, M), F # <<>>, NEW x \in Local,
         x \notin DOMAIN F[Len(F)].promoted, NEW v \in Stored(x)
  PROVE  Good(WithLocal(F, x, v), M) /\ WithLocal(F, x, v) # <<>>
<1> DEFINE f == F[Len(F)]
           g == [f EXCEPT !.locals = With(@, x, v)]
           G == [F EXCEPT ![Len(F)] = g]
<1>1. f \in FrameSet /\ Len(F) \in DOMAIN F
  BY FrameOfStack DEF Good
<1>2. g \in FrameSet /\ g.promoted = f.promoted
  BY <1>1, SetLocalFrame
<1>3. WithLocal(F, x, v) = G
  BY <1>1 DEF WithLocal
<1> HIDE DEF g
<1>4. /\ FramesIn(G) /\ G # <<>> /\ DOMAIN G = DOMAIN F /\ G[Len(F)] = g
      /\ \A i \in DOMAIN F : i # Len(F) => G[i] = F[i]
  BY <1>2, TopReplaced DEF Good
<1>5. \A i \in DOMAIN F : G[i].promoted = F[i].promoted
  BY <1>2, <1>4
<1>6. HomesIn(G, M)
  BY <1>4, <1>5, SamePromoted DEF Good
<1> QED BY <1>3, <1>4, <1>6 DEF Good
-----------------------------------------------------------------------------
(* Memory.                                                                  *)

\* The cells are those of M but for what they hold.
SameCells(M, N) ==
  /\ N = [a \in DOMAIN M |-> N[a]]
  /\ \A a \in DOMAIN M : /\ {"live", "kind"} \subseteq DOMAIN N[a]
                         /\ N[a].live = M[a].live
                         /\ N[a].kind = M[a].kind

LEMMA CellsOfMemory ==
  ASSUME NEW M, CellsIn(M)
  PROVE  /\ Len(M) \in Nat /\ DOMAIN M = 1..Len(M)
         /\ M = [a \in DOMAIN M |-> M[a]]
BY LenProperties DEF CellsIn

LEMMA CellsReplaced ==
  ASSUME NEW M, CellsIn(M), NEW N, N = [a \in DOMAIN M |-> N[a]],
         \A a \in DOMAIN M : /\ {"live", "kind"} \subseteq DOMAIN N[a]
                             /\ N[a].live \in BOOLEAN
  PROVE  CellsIn(N)
<1>1. Len(M) \in Nat /\ DOMAIN M = 1..Len(M)
  BY CellsOfMemory
<1>2. DOMAIN N = 1..Len(M)
  BY <1>1
<1>3. N \in [1..Len(M) -> {N[a] : a \in DOMAIN N}]
  BY <1>1, <1>2
<1>4. N \in Seq({N[a] : a \in DOMAIN N})
  BY <1>1, <1>3, SeqDef
<1> QED BY <1>1, <1>2, <1>4 DEF CellsIn

LEMMA SameCellsKeep ==
  ASSUME NEW F, NEW M, NEW N, Good(F, M), SameCells(M, N)
  PROVE  Good(F, N)
<1>1. CellsIn(N)
  BY CellsReplaced DEF SameCells, Good, CellsIn
<1>2. DOMAIN N = DOMAIN M
  BY DEF SameCells
<1>3. Owned(N) = Owned(M)
  BY <1>2 DEF Owned, SameCells
<1> QED BY <1>1, <1>2, <1>3 DEF Good, HomesIn, OwnedIn, NoneLeftIn

\* What a cell holds replaced.
LEMMA ValueReplaced ==
  ASSUME NEW F, NEW M, Good(F, M), NEW b, NEW v
  PROVE  Good(F, [M EXCEPT ![b].value = v])
<1>1. SameCells(M, [M EXCEPT ![b].value = v])
  BY CellsOfMemory DEF SameCells, CellsIn, Good
<1> QED BY <1>1, SameCellsKeep

\* Cells ended.
LEMMA CellsEnded ==
  ASSUME NEW M, CellsIn(M), NEW S,
         NEW N, N = [a \in DOMAIN M |->
                       IF a \in S THEN [M[a] EXCEPT !.live = FALSE, !.value = Uninit]
                                  ELSE M[a]]
  PROVE  /\ CellsIn(N) /\ DOMAIN N = DOMAIN M
         /\ Owned(N) = Owned(M) \ S
<1>1. DOMAIN N = DOMAIN M
  OBVIOUS
<1>2. \A a \in DOMAIN M :
        /\ {"live", "kind"} \subseteq DOMAIN N[a]
        /\ N[a].live = (M[a].live /\ a \notin S)
        /\ N[a].kind = M[a].kind
        /\ N[a].live \in BOOLEAN
  <2> TAKE a \in DOMAIN M
  <2>1. {"live", "kind"} \subseteq DOMAIN M[a] /\ M[a].live \in BOOLEAN
    BY DEF CellsIn
  <2>2. CASE a \in S
    <3>1. N[a] = [M[a] EXCEPT !.live = FALSE, !.value = Uninit]
      BY <2>2
    <3> QED BY <2>1, <2>2, <3>1
  <2>3. CASE a \notin S
    BY <2>1, <2>3
  <2> QED BY <2>2, <2>3
<1>3. CellsIn(N)
  BY <1>1, <1>2, CellsReplaced
<1> QED BY <1>1, <1>2, <1>3 DEF Owned

\* A cell added.
LEMMA CellAppended ==
  ASSUME NEW M, CellsIn(M), NEW c, {"live", "kind"} \subseteq DOMAIN c,
         c.live \in BOOLEAN
  PROVE  LET N == Append(M, c)
         IN  /\ CellsIn(N)
             /\ Len(M) + 1 \in Nat /\ Len(M) + 1 \notin DOMAIN M
             /\ DOMAIN N = DOMAIN M \cup {Len(M) + 1}
             /\ N[Len(M) + 1] = c
             /\ \A a \in DOMAIN M : N[a] = M[a]
<1> DEFINE S == {M[a] : a \in DOMAIN M} \cup {c}  N == Append(M, c)
<1>1. Len(M) \in Nat /\ DOMAIN M = 1..Len(M)
  BY CellsOfMemory
<1>2. M \in Seq(S)
  BY SeqMonotonic DEF CellsIn
<1>3. /\ N \in Seq(S) /\ Len(N) = Len(M) + 1
      /\ \A i \in 1..Len(M) : N[i] = M[i]
      /\ N[Len(M) + 1] = c
  BY <1>2, AppendProperties
<1>4. DOMAIN N = 1..(Len(M) + 1)
  BY <1>3, LenProperties
<1>5. \A a \in DOMAIN N : N[a] \in {N[b] : b \in DOMAIN N}
  OBVIOUS
<1>6. N \in [1..(Len(M) + 1) -> {N[b] : b \in DOMAIN N}]
  BY <1>3, <1>4, <1>5, LenProperties
<1> HIDE DEF N, S
<1>7. N \in Seq({N[b] : b \in DOMAIN N})
  <2>1. Len(M) + 1 \in Nat
    BY <1>1
  <2> QED BY <2>1, <1>6, SeqDef
<1>8. 1..(Len(M) + 1) = 1..Len(M) \cup {Len(M) + 1}
  BY <1>1
<1>9. DOMAIN N = DOMAIN M \cup {Len(M) + 1}
  BY <1>1, <1>4, <1>8
<1> QED BY <1>1, <1>3, <1>7, <1>9 DEF CellsIn, N
-----------------------------------------------------------------------------
(* Homes.                                                                   *)

\* A local promoted into a cell of its own.
LEMMA PromoteKeeps ==
  ASSUME NEW F, NEW M, Good(F, M), F # <<>>, NEW x \in Name,
         x \notin DOMAIN F[Len(F)].promoted, NEW n, n = Len(M) + 1,
         NEW c, {"live", "kind"} \subseteq DOMAIN c, c.live = TRUE, c.kind = "Local",
         NEW G, G = [F EXCEPT ![Len(F)] = Homed(F[Len(F)], x, n)],
         NEW N, N = Append(M, c)
  PROVE  Good(G, N) /\ G # <<>>
<1> DEFINE f == F[Len(F)]
           g == Homed(f, x, n)
<1>b. LET A == Append(M, c)
      IN  /\ CellsIn(A) /\ Len(M) + 1 \in Nat /\ Len(M) + 1 \notin DOMAIN M
          /\ DOMAIN A = DOMAIN M \cup {Len(M) + 1} /\ A[Len(M) + 1] = c
          /\ \A a \in DOMAIN M : A[a] = M[a]
  BY CellAppended DEF Good
<1>1. /\ CellsIn(N) /\ n \in Nat /\ n \notin DOMAIN M
      /\ DOMAIN N = DOMAIN M \cup {n} /\ N[n] = c
      /\ \A a \in DOMAIN M : N[a] = M[a]
  BY <1>b
<1>2. Owned(N) = Owned(M) \cup {n}
  BY <1>1 DEF Owned
<1>3. f \in FrameSet /\ Len(F) \in DOMAIN F
  BY FrameOfStack DEF Good
<1>4. /\ g \in FrameSet
      /\ DOMAIN g.promoted = DOMAIN f.promoted \cup {x}
      /\ g.promoted[x] = n
      /\ \A y \in DOMAIN f.promoted : y # x => g.promoted[y] = f.promoted[y]
  BY <1>1, <1>3, PromoteFrame
<1>a. G = [F EXCEPT ![Len(F)] = g]
  OBVIOUS
<1> HIDE DEF g
<1>c. LET H == [F EXCEPT ![Len(F)] = g]
      IN  /\ FramesIn(H) /\ H # <<>> /\ DOMAIN H = DOMAIN F /\ H[Len(F)] = g
          /\ \A i \in DOMAIN F : i # Len(F) => H[i] = F[i]
  BY <1>4, TopReplaced DEF Good
<1>5. /\ FramesIn(G) /\ G # <<>> /\ DOMAIN G = DOMAIN F /\ G[Len(F)] = g
      /\ \A i \in DOMAIN F : i # Len(F) => G[i] = F[i]
  BY <1>a, <1>c, Zenon
<1>6. \A i \in DOMAIN F : \A y \in DOMAIN F[i].promoted :
        /\ F[i].promoted[y] \in Owned(M) /\ F[i].promoted[y] # n
        /\ y \in DOMAIN G[i].promoted /\ G[i].promoted[y] = F[i].promoted[y]
        /\ i = Len(F) => y # x
  BY <1>1, <1>4, <1>5 DEF Good, HomesIn, OwnedIn, Owned
<1>7. \A i \in DOMAIN G : \A y \in DOMAIN G[i].promoted :
        \/ i = Len(F) /\ y = x /\ G[i].promoted[y] = n
        \/ y \in DOMAIN F[i].promoted
  BY <1>4, <1>5
<1>8. OwnedIn(G, N)
  BY <1>2, <1>5, <1>6, <1>7 DEF OwnedIn
<1>9. ApartIn(G)
  BY <1>5, <1>6, <1>7 DEF ApartIn, Good, HomesIn
<1>10. NoneLeftIn(G, N)
  <2> SUFFICES ASSUME NEW a \in Owned(N)
               PROVE  \E i \in DOMAIN G : \E y \in DOMAIN G[i].promoted :
                        G[i].promoted[y] = a
    BY DEF NoneLeftIn
  <2>1. CASE a = n
    BY <2>1, <1>3, <1>4, <1>5
  <2>2. CASE a \in Owned(M)
    <3>1. PICK i \in DOMAIN F : \E y \in DOMAIN F[i].promoted : F[i].promoted[y] = a
      BY <2>2 DEF NoneLeftIn, Good, HomesIn
    <3> QED BY <3>1, <1>5, <1>6
  <2> QED BY <2>1, <2>2, <1>2
<1> QED BY <1>1, <1>5, <1>8, <1>9, <1>10 DEF Good, HomesIn

\* The scope of a local left.
LEMMA ForgetKeeps ==
  ASSUME NEW F, NEW M, Good(F, M), F # <<>>, NEW x \in Name, NEW S,
         S = IF x \in DOMAIN F[Len(F)].promoted THEN {F[Len(F)].promoted[x]} ELSE {},
         NEW N, CellsIn(N), DOMAIN N = DOMAIN M,
         Owned(N) = Owned(M) \ S,
         NEW G, G = [F EXCEPT ![Len(F)] = Left(F[Len(F)], x)]
  PROVE  Good(G, N) /\ G # <<>>
<1> DEFINE f == F[Len(F)]
           g == Left(f, x)
<1>a. G = [F EXCEPT ![Len(F)] = g]
  OBVIOUS
<1>1. f \in FrameSet /\ Len(F) \in DOMAIN F
  BY FrameOfStack DEF Good
<1>2. /\ g \in FrameSet
      /\ DOMAIN g.promoted = DOMAIN f.promoted \ {x}
      /\ \A y \in DOMAIN f.promoted \ {x} : g.promoted[y] = f.promoted[y]
  BY <1>1, ForgetFrame
<1> HIDE DEF g
<1>c. LET H == [F EXCEPT ![Len(F)] = g]
      IN  /\ FramesIn(H) /\ H # <<>> /\ DOMAIN H = DOMAIN F /\ H[Len(F)] = g
          /\ \A i \in DOMAIN F : i # Len(F) => H[i] = F[i]
  BY <1>2, TopReplaced DEF Good
<1>3. /\ FramesIn(G) /\ G # <<>> /\ DOMAIN G = DOMAIN F /\ G[Len(F)] = g
      /\ \A i \in DOMAIN F : i # Len(F) => G[i] = F[i]
  BY <1>a, <1>c, Zenon
<1>4. \A i \in DOMAIN F : \A y \in DOMAIN F[i].promoted :
        (i = Len(F) /\ y = x) <=> F[i].promoted[y] \in S
  BY <1>1 DEF Good, HomesIn, ApartIn
<1>5. \A i \in DOMAIN G : \A y \in DOMAIN G[i].promoted :
        /\ y \in DOMAIN F[i].promoted /\ G[i].promoted[y] = F[i].promoted[y]
        /\ ~(i = Len(F) /\ y = x)
  BY <1>2, <1>3
<1>6. \A i \in DOMAIN F : \A y \in DOMAIN F[i].promoted :
        \/ i = Len(F) /\ y = x
        \/ y \in DOMAIN G[i].promoted /\ G[i].promoted[y] = F[i].promoted[y]
  BY <1>2, <1>3
<1>7. OwnedIn(G, N)
  BY <1>3, <1>4, <1>5 DEF OwnedIn, Good, HomesIn
<1>8. ApartIn(G)
  BY <1>3, <1>5 DEF ApartIn, Good, HomesIn
<1>9. NoneLeftIn(G, N)
  BY <1>3, <1>4, <1>6 DEF NoneLeftIn, Good, HomesIn
<1> QED BY <1>3, <1>7, <1>8, <1>9 DEF Good, HomesIn

\* A frame pushed.
LEMMA PushKeeps ==
  ASSUME NEW F, NEW M, Good(F, M), NEW f \in FrameSet, DOMAIN f.promoted = {}
  PROVE  Good(Append(F, f), M) /\ Append(F, f) # <<>>
<1> DEFINE G == Append(F, f)
<1>1. Len(F) \in Nat /\ DOMAIN F = 1..Len(F)
  BY FrameOfStack DEF Good
<1>2. /\ G \in Seq(FrameSet) /\ Len(G) = Len(F) + 1
      /\ \A i \in 1..Len(F) : G[i] = F[i]
      /\ G[Len(F) + 1] = f
  BY AppendProperties DEF Good, FramesIn
<1>3. DOMAIN G = 1..(Len(F) + 1)
  BY <1>2, LenProperties
<1> HIDE DEF G
<1>4. \A i \in DOMAIN G : i \in DOMAIN F \/ DOMAIN G[i].promoted = {}
  BY <1>1, <1>2, <1>3
<1>5. \A i \in DOMAIN F : i \in DOMAIN G /\ G[i] = F[i]
  BY <1>1, <1>2, <1>3
<1>6. HomesIn(G, M)
  BY <1>4, <1>5 DEF HomesIn, OwnedIn, ApartIn, NoneLeftIn, Good
<1>7. G # <<>>
  BY <1>1, <1>2, EmptySeq
<1> QED BY <1>2, <1>6, <1>7 DEF Good, FramesIn, G

\* A frame popped: what it owned dies with it.
LEMMA PopKeeps ==
  ASSUME NEW F, NEW M, Good(F, M), F # <<>>, Len(F) # 1, NEW S,
         S = {F[Len(F)].promoted[x] : x \in DOMAIN F[Len(F)].promoted},
         NEW N, CellsIn(N), DOMAIN N = DOMAIN M,
         Owned(N) = Owned(M) \ S
  PROVE  LET G == SubSeq(F, 1, Len(F) - 1) IN Good(G, N) /\ G # <<>>
<1> DEFINE G == SubSeq(F, 1, Len(F) - 1)
<1>0. /\ DOMAIN F = 1..Len(F) /\ Len(F) \in Nat /\ Len(F) \in DOMAIN F
      /\ \A i \in DOMAIN F : F[i] \in FrameSet
  BY FrameOfStack DEF Good
<1>1. /\ DOMAIN F = 1..Len(F) /\ Len(F) \in Nat /\ Len(F) > 1
      /\ \A i \in DOMAIN F : F[i] \in FrameSet
  BY <1>0
<1>2. \A i \in 1..(Len(F) - 1) : F[i] \in FrameSet
  BY <1>1
<1>3. /\ G \in Seq(FrameSet) /\ Len(G) = Len(F) - 1
      /\ \A i \in 1..(Len(F) - 1) : G[i] = F[i]
  BY <1>1, <1>2, SubSeqProperties
<1>4. DOMAIN G = 1..(Len(F) - 1)
  BY <1>3, LenProperties
<1> HIDE DEF G
<1>5. \A i \in DOMAIN G : i \in DOMAIN F /\ G[i] = F[i] /\ i # Len(F)
  BY <1>1, <1>3, <1>4
<1>6. \A i \in DOMAIN F : i = Len(F) \/ i \in DOMAIN G
  BY <1>1, <1>4
<1>7. \A i \in DOMAIN F : \A y \in DOMAIN F[i].promoted :
        i = Len(F) <=> F[i].promoted[y] \in S
  BY <1>1 DEF Good, HomesIn, ApartIn
<1>8. HomesIn(G, N)
  BY <1>5, <1>6, <1>7 DEF HomesIn, OwnedIn, ApartIn, NoneLeftIn, Good
<1>9. G # <<>>
  BY <1>1, <1>3, EmptySeq
<1> QED BY <1>3, <1>8, <1>9 DEF Good, FramesIn, G
-----------------------------------------------------------------------------
(* Values.                                                                  *)

LEMMA ArraysApart ==
  /\ Aggregate \subseteq Array
  /\ \A v \in Array : IsArray(v) /\ v # Uninit
<1>1. Aggregate \subseteq Array
  <2>1. [0..(Width - 1) -> Val] \subseteq [0..(Width - 1) -> Val \cup {Uninit}]
    OBVIOUS
  <2>2. [0..(Width - 1) -> Val] \subseteq
          UNION {[0..(n - 1) -> Val \cup {Uninit}] : n \in Sizes \cup {0, Width}}
    BY <2>1
  <2> QED BY <2>2 DEF Aggregate, Array
<1>2. \A v \in Array : v \notin Scalar /\ v \notin Pointer
  BY ArrayAssumption
<1> QED BY <1>1, <1>2 DEF IsArray, Scalar

LEMMA NoPoisonWithin ==
  /\ ~contains_uninit(Whole)
  /\ \A v \in Aggregate : ~contains_uninit(v)
<1>1. ~contains_uninit(Whole)
  BY MemoryAssumption DEF contains_uninit, IsArray, Scalar
<1>2. ASSUME NEW v \in Aggregate
      PROVE  ~contains_uninit(v)
  <2>1. v # Uninit
    BY ArraysApart
  <2>2. v.elems \in [0..(Width - 1) -> Val]
    BY DEF Aggregate
  <2>3. \A i \in DOMAIN v.elems : v.elems[i] \in Val
    BY <2>2
  <2> QED BY <2>1, <2>3, MemoryAssumption DEF contains_uninit
<1> QED BY <1>1, <1>2

LEMMA ProjectMutIn ==
  ASSUME NEW v \in Aggregate, NEW path, path # <<>>, Reaches(v, path), NEW new \in Val
  PROVE  project_mut(v, path, new) \in Aggregate
<1>1. path[1] \in DOMAIN v.elems
  BY DEF Reaches
<1> QED BY <1>1 DEF project_mut, Aggregate

\* A plain local is no home, and may hold any value kept or the poison of a move.
LEMMA SetPlainKeeps ==
  ASSUME NEW F, NEW M, Good(F, M), F # <<>>, NEW t \in Plain, NEW v \in {Whole, Uninit}
  PROVE  Good(WithLocal(F, t, v), M) /\ WithLocal(F, t, v) # <<>>
<1>1. t \in Local /\ t \notin Name /\ v \in Stored(t)
  BY MemoryAssumption DEF Local, Stored
<1>2. F[Len(F)] \in FrameSet
  BY FrameOfStack DEF Good
<1>3. t \notin DOMAIN F[Len(F)].promoted
  BY <1>1, <1>2, FrameParts
<1> QED BY <1>1, <1>3, SetLocalKeeps

\* What the name of a local says.
LEMMA LocalHolds ==
  ASSUME Good(frames, memory), frames # <<>>, NEW x \in Local, Holds(x)
  PROVE  /\ x \in Plain => ~Promoted(x)
         /\ ~Promoted(x) => ValueOf(x) \in Stored(x)
<1>1. frame \in FrameSet
  BY FrameOfStack DEF frame, Good
<1>2. /\ DOMAIN frame.promoted \subseteq Name
      /\ \A y \in DOMAIN frame.locals : frame.locals[y] \in Stored(y)
  BY <1>1, FrameParts
<1> QED BY <1>2, MemoryAssumption DEF Holds, Promoted, ValueOf

\* A read by name that is not refused finds a value with no poison in it.
LEMMA KeptIsWhole ==
  ASSUME Good(frames, memory), frames # <<>>, NEW x \in Local, Holds(x),
         NEW path, NameRefusal(x, path) = "ok"
  PROVE  /\ Kept(project_path(ValueOf(x), path)) = Whole
         /\ path = <<>> => ValueOf(x) # Uninit
<1> DEFINE found == project_path(ValueOf(x), path)
<1>1. Reaches(ValueOf(x), path)
  BY DEF NameRefusal, Lost
<1>2. IF Promoted(x) \/ path # <<>> THEN ~contains_uninit(found) ELSE found # Uninit
  BY <1>1 DEF NameRefusal
<1>3. ~contains_uninit(found)
  <2>1. CASE Promoted(x) \/ path # <<>>
    BY <2>1, <1>2
  <2>2. CASE ~(Promoted(x) \/ path # <<>>)
    <3>1. found = ValueOf(x) /\ found # Uninit /\ found \in Stored(x)
      BY <2>2, <1>2, LocalHolds DEF project_path
    <3>2. found \in Aggregate \/ found = Whole
      BY <3>1 DEF Stored
    <3> QED BY <3>2, NoPoisonWithin
  <2> QED BY <2>1, <2>2
<1>4. path = <<>> => ValueOf(x) # Uninit
  BY <1>3 DEF project_path, contains_uninit
<1> QED BY <1>3, <1>4 DEF Kept
-----------------------------------------------------------------------------
(* Steps.                                                                   *)

LEMMA EmptyGood == Good(<<>>, <<>>)
<1>1. FramesIn(<<>>) /\ CellsIn(<<>>)
  BY EmptySeq DEF FramesIn, CellsIn
<1> QED BY <1>1 DEF Good, HomesIn, OwnedIn, ApartIn, NoneLeftIn, Owned

LEMMA StopKeeps ==
  ASSUME NEW why, Stop(why), why # "ok"
  PROVE  MInv'
BY EmptyGood DEF Stop, MInv

LEMMA PromotedGood ==
  ASSUME Good(frames, memory), frames # <<>>, NEW x \in Name
  PROVE  Good(PromotedFrames(x), PromotedMemory(x)) /\ PromotedFrames(x) # <<>>
<1>1. CASE Promoted(x)
  BY <1>1 DEF PromotedFrames, PromotedMemory
<1>2. CASE ~Promoted(x)
  <2>1. x \notin DOMAIN frames[Len(frames)].promoted
    BY <1>2 DEF Promoted, frame
  <2> DEFINE c == Cell(frame.locals[x], "Local", x \in Binding)
             n == Len(memory) + 1
  <2>2. PromotedFrames(x) =
          [frames EXCEPT ![Len(frames)] = Homed(frames[Len(frames)], x, n)]
    BY <1>2 DEF PromotedFrames, frame, NextAlloc
  <2>3. PromotedMemory(x) = Append(memory, c)
    BY <1>2 DEF PromotedMemory
  <2>4. {"live", "kind"} \subseteq DOMAIN c /\ c.live = TRUE /\ c.kind = "Local"
    BY DEF Cell
  <2>5. n = Len(memory) + 1
    OBVIOUS
  <2> HIDE DEF c, n
  <2>6. \A G, N :
          /\ G = [frames EXCEPT ![Len(frames)] = Homed(frames[Len(frames)], x, n)]
          /\ N = Append(memory, c)
          => Good(G, N) /\ G # <<>>
    <3> SUFFICES ASSUME NEW G, NEW N,
                        G = [frames EXCEPT ![Len(frames)] = Homed(frames[Len(frames)], x, n)],
                        N = Append(memory, c)
                 PROVE  Good(G, N) /\ G # <<>>
      OBVIOUS
    <3>1. Good(G, N)
      BY <2>1, <2>4, <2>5, PromoteKeeps, ZenonT(60)
    <3>2. G # <<>>
      BY <2>1, <2>4, <2>5, PromoteKeeps, ZenonT(60)
    <3> QED BY <3>1, <3>2
  <2>7. Good(PromotedFrames(x), PromotedMemory(x))
    BY <2>2, <2>3, <2>6, Zenon
  <2>8. PromotedFrames(x) # <<>>
    BY <2>2, <2>3, <2>6, Zenon
  <2> QED BY <2>7, <2>8
<1> QED BY <1>1, <1>2

\* A cell no local owns added.
LEMMA AppendKeeps ==
  ASSUME NEW F, NEW M, Good(F, M), NEW c, {"live", "kind"} \subseteq DOMAIN c,
         c.live \in BOOLEAN, c.kind # "Local"
  PROVE  Good(F, Append(M, c))
<1>1. LET A == Append(M, c)
      IN  /\ CellsIn(A) /\ Len(M) + 1 \in Nat /\ Len(M) + 1 \notin DOMAIN M
          /\ DOMAIN A = DOMAIN M \cup {Len(M) + 1} /\ A[Len(M) + 1] = c
          /\ \A a \in DOMAIN M : A[a] = M[a]
  BY CellAppended DEF Good
<1> DEFINE N == Append(M, c)
<1>2. N = Append(M, c)
  OBVIOUS
<1> HIDE DEF N
<1>3. /\ CellsIn(N) /\ Len(M) + 1 \notin DOMAIN M
      /\ DOMAIN N = DOMAIN M \cup {Len(M) + 1} /\ N[Len(M) + 1] = c
      /\ \A a \in DOMAIN M : N[a] = M[a]
  BY <1>1, <1>2
<1>4. Owned(N) = Owned(M)
  BY <1>3 DEF Owned
<1>5. Good(F, N)
  BY <1>3, <1>4 DEF Good, HomesIn, OwnedIn, NoneLeftIn
<1> QED BY <1>2, <1>5

\* Cells no local owns ended.
LEMMA EndKeeps ==
  ASSUME NEW S, Good(frames, memory), S \cap Owned(memory) = {}
  PROVE  Good(frames, Killed(S))
<1>1. /\ CellsIn(Killed(S)) /\ DOMAIN Killed(S) = DOMAIN memory
      /\ Owned(Killed(S)) = Owned(memory) \ S
  BY CellsEnded DEF Killed, Good
<1> QED BY <1>1 DEF Good, HomesIn, OwnedIn, NoneLeftIn
-----------------------------------------------------------------------------
\* What every statement starts from.
LEMMA WhileRunning ==
  ASSUME MInv, Running
  PROVE  Good(frames, memory) /\ frames # <<>> /\ frame \in FrameSet
<1>1. Good(frames, memory) /\ frames # <<>>
  BY DEF MInv, Running
<1> QED BY <1>1, FrameOfStack DEF frame, Good

LEMMA LoadKeeps ==
  ASSUME MInv, NEW x \in Local, NEW path, NEW t \in Plain, Load(t, x, path)
  PROVE  MInv'
<1>0. Good(frames, memory) /\ frames # <<>> /\ Holds(x)
  BY WhileRunning DEF Load
<1>1. CASE NameRefusal(x, path) # "ok"
  BY <1>1, StopKeeps DEF Load
<1>2. CASE NameRefusal(x, path) = "ok"
  <2>1. Kept(project_path(ValueOf(x), path)) = Whole
    BY <1>0, <1>2, KeptIsWhole
  <2>2. frames' = WithLocal(frames, t, Whole) /\ memory' = memory
    BY <1>2, <2>1 DEF Load, SetLocal
  <2> QED BY <1>0, <2>2, SetPlainKeeps DEF MInv
<1> QED BY <1>1, <1>2

LEMMA LoadThroughKeeps ==
  ASSUME MInv, NEW ptr, NEW path, NEW t \in Plain, LoadThrough(t, ptr, path)
  PROVE  MInv'
<1>0. Good(frames, memory) /\ frames # <<>>
  BY WhileRunning DEF LoadThrough
<1>1. CASE ReadRefusal(ptr, path) # "ok"
  BY <1>1, StopKeeps DEF LoadThrough
<1>2. CASE ReadRefusal(ptr, path) = "ok"
  <2> DEFINE found == project_path(memory[ptr.alloc].value, ptr.path \o path)
  <2>1. ~contains_uninit(found)
    BY <1>2 DEF ReadRefusal, Lost
  <2>2. frames' = WithLocal(frames, t, Whole) /\ memory' = memory
    BY <1>2, <2>1 DEF LoadThrough, SetLocal, Kept
  <2> QED BY <1>0, <2>2, SetPlainKeeps DEF MInv
<1> QED BY <1>1, <1>2

\* A statement that only writes what a cell holds.
LEMMA WriteKeeps ==
  ASSUME MInv, Running, NEW b, NEW v, memory' = [memory EXCEPT ![b].value = v],
         frames' = frames
  PROVE  MInv'
<1>1. Good(frames, memory) /\ frames # <<>>
  BY WhileRunning
<1>2. Good(frames, memory')
  BY <1>1, ValueReplaced
<1> QED BY <1>1, <1>2 DEF MInv

LEMMA StoreKeeps ==
  ASSUME MInv, NEW x \in Name, NEW path, NEW value, Store(x, path, value)
  PROVE  MInv'
<1>0. Good(frames, memory) /\ frames # <<>> /\ Running /\ frame \in FrameSet
  BY WhileRunning DEF Store
<1>1. CASE path # <<>> /\ ~Reaches(ValueOf(x), path)
  <2>1. Stop(Lost(ValueOf(x), "bounds"))
    BY <1>1 DEF Store
  <2>2. Lost(ValueOf(x), "bounds") # "ok"
    BY DEF Lost
  <2> QED BY <2>1, <2>2, StopKeeps
<1>2. CASE ~(path # <<>> /\ ~Reaches(ValueOf(x), path)) /\ Promoted(x)
  <2>1. memory' = [memory EXCEPT ![frame.promoted[x]].value =
                     project_mut(@, path, value)]
        /\ frames' = frames
    BY <1>2 DEF Store
  <2> QED BY <1>0, <2>1, WriteKeeps
<1>3. CASE ~(path # <<>> /\ ~Reaches(ValueOf(x), path)) /\ ~Promoted(x)
  <2> DEFINE v == IF path = <<>> THEN value ELSE project_mut(ValueOf(x), path, value)
  <2>1. frames' = WithLocal(frames, x, v) /\ memory' = memory
    BY <1>3 DEF Store, SetLocal
  <2>2. v \in Aggregate
    <3>1. CASE path = <<>>
      BY <3>1 DEF Store
    <3>2. CASE path # <<>>
      <4>1. value \in Val /\ Holds(x) /\ Reaches(ValueOf(x), path)
        BY <1>3, <3>2 DEF Store
      <4>2. ValueOf(x) \in Aggregate
        BY <1>0, <1>3, <4>1, LocalHolds DEF Stored, Local
      <4> QED BY <3>2, <4>1, <4>2, ProjectMutIn
    <3> QED BY <3>1, <3>2
  <2>3. v \in Stored(x) /\ x \in Local
    BY <2>2 DEF Stored, Local
  <2>4. x \notin DOMAIN frames[Len(frames)].promoted
    BY <1>3 DEF Promoted, frame
  <2> HIDE DEF v
  <2> QED BY <1>0, <2>1, <2>3, <2>4, SetLocalKeeps DEF MInv
<1> QED BY <1>1, <1>2, <1>3

LEMMA StoreThroughKeeps ==
  ASSUME MInv, NEW ptr, NEW path, NEW value, StoreThrough(ptr, path, value)
  PROVE  MInv'
<1>1. CASE WriteRefusal(ptr, path) # "ok"
  BY <1>1, StopKeeps DEF StoreThrough
<1>2. CASE WriteRefusal(ptr, path) = "ok"
  <2>1. /\ Running /\ frames' = frames
        /\ memory' = [memory EXCEPT ![ptr.alloc].value =
                        project_mut(@, ptr.path \o path, value)]
    BY <1>2 DEF StoreThrough
  <2> QED BY <2>1, WriteKeeps
<1> QED BY <1>1, <1>2

LEMMA AddrOfKeeps ==
  ASSUME MInv, NEW x \in Name, Running, frames' = PromotedFrames(x),
         memory' = PromotedMemory(x)
  PROVE  MInv'
BY WhileRunning, PromotedGood DEF MInv

\* A statement that changes neither frames nor memory.
LEMMA StutterKeeps ==
  ASSUME MInv, Running, UNCHANGED <<frames, memory>>
  PROVE  MInv'
BY WhileRunning DEF MInv

LEMMA MoveKeeps ==
  ASSUME MInv, NEW x \in Name, NEW t \in Plain, Move(t, x)
  PROVE  MInv'
<1>0. Good(frames, memory) /\ frames # <<>> /\ Holds(x) /\ x \in Local
  BY WhileRunning DEF Move, Local
<1>1. CASE NameRefusal(x, <<>>) # "ok"
  BY <1>1, StopKeeps DEF Move
<1>2. CASE NameRefusal(x, <<>>) = "ok"
  <2>1. Kept(ValueOf(x)) = Whole
    BY <1>0, <1>2, KeptIsWhole DEF project_path
  <2>2. /\ frames' = WithLocal(PromotedFrames(x), t, Whole)
        /\ memory' = [PromotedMemory(x) EXCEPT ![AllocOf(x)].value = Uninit]
    BY <1>2, <2>1 DEF Move
  <2>3. Good(PromotedFrames(x), PromotedMemory(x)) /\ PromotedFrames(x) # <<>>
    BY <1>0, PromotedGood
  <2>4. Good(PromotedFrames(x), memory')
    BY <2>2, <2>3, ValueReplaced
  <2> QED BY <2>2, <2>3, <2>4, SetPlainKeeps DEF MInv
<1> QED BY <1>1, <1>2

LEMMA StorageDeadKeeps ==
  ASSUME MInv, NEW x \in Name, StorageDead(x)
  PROVE  MInv'
<1>0. Good(frames, memory) /\ frames # <<>>
  BY WhileRunning DEF StorageDead
<1> DEFINE S == IF Promoted(x) THEN {frame.promoted[x]} ELSE {}
<1>2. S = IF x \in DOMAIN frames[Len(frames)].promoted
            THEN {frames[Len(frames)].promoted[x]} ELSE {}
  BY DEF Promoted, frame
<1>3. /\ frames' = [frames EXCEPT ![Len(frames)] = Left(frames[Len(frames)], x)]
      /\ memory' = Killed(S)
  BY DEF StorageDead, frame
<1> HIDE DEF S
<1>1. /\ CellsIn(Killed(S)) /\ DOMAIN Killed(S) = DOMAIN memory
      /\ Owned(Killed(S)) = Owned(memory) \ S
  BY <1>0, CellsEnded DEF Killed, Good
<1>4. Good(frames', memory')
  BY <1>0, <1>1, <1>2, <1>3, ForgetKeeps, Zenon
<1>5. frames' # <<>>
  BY <1>0, <1>1, <1>2, <1>3, ForgetKeeps, Zenon
<1> QED BY <1>4, <1>5 DEF MInv

\* The argument of a call is a value, and so is what the parameter gets.
LEMMA CallKeeps ==
  ASSUME MInv, NEW dest \in Plain, NEW arg \in Plain, NEW param \in Local,
         NEW moved \in BOOLEAN, Call(dest, arg, param, moved)
  PROVE  MInv'
<1>0. Good(frames, memory) /\ frames # <<>> /\ Holds(arg) /\ arg \in Local
  BY WhileRunning DEF Call, Local
<1>1. CASE NameRefusal(arg, <<>>) # "ok"
  BY <1>1, StopKeeps DEF Call
<1>2. CASE NameRefusal(arg, <<>>) = "ok" /\ Len(frames) >= MaxFrames
  <2>1. Stop("stack overflow")
    BY <1>2 DEF Call
  <2> QED BY <2>1, StopKeeps
<1>3. CASE NameRefusal(arg, <<>>) = "ok" /\ ~(Len(frames) >= MaxFrames)
  <2> DEFINE F == IF moved THEN WithLocal(frames, arg, Uninit) ELSE frames
  <2>1. PICK value \in IF param \in Name THEN Meant(ValueOf(arg)) ELSE {ValueOf(arg)} :
          /\ frames' = Append(F, Frame([y \in {param} |-> value], dest))
          /\ memory' = memory
    BY <1>3 DEF Call
  <2>2. ValueOf(arg) = Whole
    <3>1. ValueOf(arg) # Uninit
      BY <1>0, <1>3, KeptIsWhole
    <3>2. ValueOf(arg) \in Stored(arg) /\ arg \notin Name
      BY <1>0, LocalHolds, MemoryAssumption
    <3> QED BY <3>1, <3>2 DEF Stored
  <2>3. value \in Stored(param)
    BY <2>1, <2>2 DEF Stored, Meant
  <2>4. Frame([y \in {param} |-> value], dest) \in FrameSet
        /\ DOMAIN Frame([y \in {param} |-> value], dest).promoted = {}
    <3> DEFINE locals == [y \in {param} |-> value]
    <3>1. locals \in [{param} -> Content] /\ {param} \subseteq Local
      BY <2>3 DEF Stored, Content
    <3>2. \A y \in {param} : locals[y] \in Stored(y)
      BY <2>3
    <3> HIDE DEF locals
    <3>3. Frame(locals, dest) \in FrameSet
      BY <3>1, <3>2, NewFrame
    <3>4. DOMAIN Frame(locals, dest).promoted = {}
      BY <3>1, <3>2, NewFrame
    <3> QED BY <3>3, <3>4 DEF locals
  <2>5. Good(F, memory)
    BY <1>0, SetPlainKeeps
  <2> DEFINE f == Frame([y \in {param} |-> value], dest)
  <2> HIDE DEF F, f
  <2>6. Good(Append(F, f), memory) /\ Append(F, f) # <<>>
    BY <2>4, <2>5, PushKeeps DEF f
  <2> QED BY <2>1, <2>6 DEF MInv, f
<1> QED BY <1>1, <1>2, <1>3

LEMMA ReturnKeeps ==
  ASSUME MInv, NEW ret \in Plain, Return(ret)
  PROVE  MInv'
<1>0. Good(frames, memory) /\ frames # <<>> /\ frame \in FrameSet
  BY WhileRunning DEF Return
<1>1. CASE Len(frames) = 1
  <2>1. Stop("done")
    BY <1>1 DEF Return
  <2> QED BY <2>1, StopKeeps
<1>2. CASE Len(frames) # 1
  <2> DEFINE S == {frame.promoted[x] : x \in DOMAIN frame.promoted}
             F == SubSeq(frames, 1, Len(frames) - 1)
  <2>1. frame.dest \in Plain /\ frame.locals[ret] = Whole
    <3>1. ret \in DOMAIN frame.locals /\ frame.locals[ret] # Uninit
      BY DEF Return
    <3> QED BY <1>0, <3>1, FrameParts, MemoryAssumption DEF Stored
  <2>2. /\ frames' = WithLocal(F, frame.dest, Whole)
        /\ memory' = Killed(S)
    BY <1>2, <2>1 DEF Return
  <2>3. /\ CellsIn(Killed(S)) /\ DOMAIN Killed(S) = DOMAIN memory
        /\ Owned(Killed(S)) = Owned(memory) \ S
    BY <1>0, CellsEnded DEF Killed, Good
  <2>4. S = {frames[Len(frames)].promoted[x] : x \in DOMAIN frames[Len(frames)].promoted}
    BY DEF frame
  <2> HIDE DEF S
  <2>5. Good(F, Killed(S)) /\ F # <<>>
    <3>1. Good(F, Killed(S))
      BY <1>0, <1>2, <2>3, <2>4, PopKeeps, Zenon
    <3>2. F # <<>>
      BY <1>0, <1>2, <2>3, <2>4, PopKeeps, Zenon
    <3> QED BY <3>1, <3>2
  <2> HIDE DEF F
  <2> QED BY <2>1, <2>2, <2>5, SetPlainKeeps DEF MInv
<1> QED BY <1>1, <1>2

LEMMA MintCellKeeps ==
  ASSUME MInv, Running, NEW c, {"live", "kind"} \subseteq DOMAIN c,
         c.live \in BOOLEAN, c.kind # "Local", memory' = Append(memory, c),
         frames' = frames
  PROVE  MInv'
<1>1. Good(frames, memory) /\ frames # <<>>
  BY WhileRunning
<1>2. Good(frames, memory')
  BY <1>1, AppendKeeps
<1> QED BY <1>1, <1>2 DEF MInv

LEMMA AddrOfStaticKeeps ==
  ASSUME MInv, NEW v, AddrOfStatic(v)
  PROVE  MInv'
<1> DEFINE c == Cell(Filled(Width, v), "Static", TRUE)
<1>1. Running /\ memory' = Append(memory, c) /\ frames' = frames
  BY DEF AddrOfStatic
<1>2. {"live", "kind"} \subseteq DOMAIN c /\ c.live \in BOOLEAN /\ c.kind # "Local"
  BY DEF Cell
<1> HIDE DEF c
<1> QED BY <1>1, <1>2, MintCellKeeps

LEMMA DanglingKeeps ==
  ASSUME MInv, builtin_dangling
  PROVE  MInv'
<1> DEFINE c == [Cell(Filled(0, Uninit), "Dangling", FALSE) EXCEPT !.live = FALSE]
<1>1. Running /\ memory' = Append(memory, c) /\ frames' = frames
  BY DEF builtin_dangling
<1>2. {"live", "kind"} \subseteq DOMAIN c /\ c.live \in BOOLEAN /\ c.kind # "Local"
  BY DEF Cell
<1> HIDE DEF c
<1> QED BY <1>1, <1>2, MintCellKeeps

LEMMA AllocArrayKeeps ==
  ASSUME MInv, NEW n, builtin_alloc_array(n)
  PROVE  MInv'
<1> DEFINE c == Cell(Filled(n, Uninit), "Heap", FALSE)
<1>1. CASE n = 0
  <2>1. Stop("zero size")
    BY <1>1 DEF builtin_alloc_array
  <2> QED BY <2>1, StopKeeps
<1>2. CASE n # 0
  <2>1. Running /\ memory' = Append(memory, c) /\ frames' = frames
    BY <1>2 DEF builtin_alloc_array
  <2>2. {"live", "kind"} \subseteq DOMAIN c /\ c.live \in BOOLEAN /\ c.kind # "Local"
    BY DEF Cell
  <2> HIDE DEF c
  <2> QED BY <2>1, <2>2, MintCellKeeps
<1> QED BY <1>1, <1>2

LEMMA DeallocArrayKeeps ==
  ASSUME MInv, NEW ptr, NEW n, builtin_dealloc_array(ptr, n)
  PROVE  MInv'
<1>0. Good(frames, memory) /\ frames # <<>>
  BY WhileRunning DEF builtin_dealloc_array
<1> DEFINE cell == memory[ptr.alloc]
           why == CASE cell.kind # "Heap" -> "not heap"
                    [] ~Live(ptr.alloc) -> "double free"
                    [] ptr.path # <<0>> -> "not the head"
                    [] n # Cardinality(DOMAIN cell.value.elems) -> "wrong count"
                    [] OTHER -> "ok"
<1>1. IF why # "ok" THEN Stop(why)
      ELSE memory' = Killed({ptr.alloc}) /\ frames' = frames
  BY DEF builtin_dealloc_array
<1>2. why = "ok" => memory[ptr.alloc].kind = "Heap"
  OBVIOUS
<1> HIDE DEF why
<1>3. CASE why # "ok"
  BY <1>1, <1>3, StopKeeps
<1>4. CASE why = "ok"
  <2>1. {ptr.alloc} \cap Owned(memory) = {}
    BY <1>2, <1>4 DEF Owned
  <2>2. Good(frames, Killed({ptr.alloc}))
    BY <1>0, <2>1, EndKeeps
  <2> QED BY <1>0, <1>1, <1>4, <2>2 DEF MInv
<1> QED BY <1>3, <1>4

LEMMA CopyKeeps ==
  ASSUME MInv, NEW src, NEW dst, NEW n, builtin_copy(src, dst, n)
  PROVE  MInv'
<1> DEFINE after == Accessed(Tree, src.alloc, src.tag, Span(src, n), "Read")
           why == First(RangeRefusal(src, n),
                  First(Permits(borrow_nodes, src.alloc, src.tag, "Read"),
                        RangeWriteRefusal(after.nodes, dst, n)))
           v == [memory[dst.alloc].value EXCEPT !.elems =
                   [i \in DOMAIN @ |-> IF i - dst.path[1] \in DOMAIN Elements(src, n)
                                         THEN Elements(src, n)[i - dst.path[1]] ELSE @[i]]]
<1>1. Running /\ IF why # "ok" THEN Stop(why)
                 ELSE memory' = Landed(dst, Elements(src, n)) /\ frames' = frames
  BY DEF builtin_copy
<1> HIDE DEF why
<1>2. CASE why # "ok"
  BY <1>1, <1>2, StopKeeps
<1>3. CASE why = "ok"
  <2>1. memory' = [memory EXCEPT ![dst.alloc].value = v]
    BY <1>1, <1>3 DEF Landed
  <2> HIDE DEF v
  <2> QED BY <1>1, <1>3, <2>1, WriteKeeps
<1> QED BY <1>2, <1>3

LEMMA HostReadKeeps ==
  ASSUME MInv, NEW ptr, NEW n, NEW got, NEW w, host_read(ptr, n, got, w)
  PROVE  MInv'
<1> DEFINE why == RangeWriteRefusal(borrow_nodes, ptr, n)
           elems == [i \in 0..(got - 1) |-> w]
           v == [memory[ptr.alloc].value EXCEPT !.elems =
                   [i \in DOMAIN @ |-> IF i - ptr.path[1] \in DOMAIN elems
                                         THEN elems[i - ptr.path[1]] ELSE @[i]]]
<1>1. Running /\ IF why # "ok" THEN Stop(why)
                 ELSE memory' = Landed(ptr, elems) /\ frames' = frames
  BY DEF host_read
<1> HIDE DEF why
<1>2. CASE why # "ok"
  BY <1>1, <1>2, StopKeeps
<1>3. CASE why = "ok"
  <2>1. memory' = [memory EXCEPT ![ptr.alloc].value = v]
    BY <1>1, <1>3 DEF Landed
  <2> HIDE DEF v
  <2> QED BY <1>1, <1>3, <2>1, WriteKeeps
<1> QED BY <1>2, <1>3
-----------------------------------------------------------------------------
\* The outermost frame owns nothing yet.
LEMMA InitGood == MInit => MInv
<1> SUFFICES ASSUME MInit PROVE MInv
  OBVIOUS
<1>1. PICK t \in Plain : frames = <<Frame([p \in Plain |-> Whole], t)>>
  BY DEF MInit
<1> DEFINE locals == [p \in Plain |-> Whole]
           f == Frame(locals, t)
<1>2. locals \in [Plain -> Content] /\ Plain \subseteq Local
  BY DEF Content, Local
<1>3. \A p \in Plain : locals[p] \in Stored(p)
  BY MemoryAssumption DEF Stored
<1> HIDE DEF locals
<1>4. f \in FrameSet
  BY <1>2, <1>3, NewFrame
<1>5. DOMAIN f.promoted = {}
  BY <1>2, <1>3, NewFrame
<1> HIDE DEF f
<1>6. Good(Append(<<>>, f), <<>>) /\ Append(<<>>, f) # <<>>
  BY <1>4, <1>5, EmptyGood, PushKeeps
<1>7. frames = Append(<<>>, f) /\ memory = <<>>
  BY <1>1 DEF MInit, f, locals
<1> QED BY <1>6, <1>7 DEF MInv

LEMMA ByNameKeeps == MInv /\ ByName => MInv'
<1> SUFFICES ASSUME MInv, ByName PROVE MInv'
  OBVIOUS
<1>1. ASSUME NEW x \in Name, NEW path \in Path, NEW t \in Plain, Load(t, x, path)
      PROVE  MInv'
  <2>1. x \in Local
    BY DEF Local
  <2> QED BY <1>1, <2>1, LoadKeeps
<1>2. ASSUME NEW x \in Plain, NEW t \in Plain, Load(t, x, <<>>)
      PROVE  MInv'
  <2>1. x \in Local
    BY DEF Local
  <2> QED BY <1>2, <2>1, LoadKeeps
<1>3. ASSUME NEW x \in Name, NEW path \in Path, NEW v \in Const, Store(x, path, v)
      PROVE  MInv'
  BY <1>3, StoreKeeps
<1> QED BY <1>1, <1>2, <1>3 DEF ByName

LEMMA ThroughKeeps == MInv /\ Through => MInv'
<1> SUFFICES ASSUME MInv, Through PROVE MInv'
  OBVIOUS
<1>1. PICK ptr \in Held, path \in Path :
        \/ \E t \in Plain : LoadThrough(t, ptr, path)
        \/ \E v \in Const : StoreThrough(ptr, path, v)
  BY DEF Through
<1>2. CASE \E t \in Plain : LoadThrough(t, ptr, path)
  BY <1>2, LoadThroughKeeps
<1>3. CASE \E v \in Const : StoreThrough(ptr, path, v)
  BY <1>3, StoreThroughKeeps
<1> QED BY <1>1, <1>2, <1>3

LEMMA AddressesKeep == MInv /\ Addresses => MInv'
<1> SUFFICES ASSUME MInv, Addresses PROVE MInv'
  OBVIOUS
<1>1. ASSUME NEW x \in Name, AddrOf(x)
      PROVE  MInv'
  BY <1>1, AddrOfKeeps DEF AddrOf
<1>2. ASSUME NEW x \in Name, NEW path \in Path, NEW mutable \in BOOLEAN,
             Borrow(x, path, mutable)
      PROVE  MInv'
  <2>1. Running /\ frames' = PromotedFrames(x) /\ memory' = PromotedMemory(x)
    BY <1>2 DEF Borrow
  <2> QED BY <2>1, AddrOfKeeps
<1>3. ASSUME NEW ptr \in Held, NEW mutable \in BOOLEAN, Reborrow(ptr, mutable)
      PROVE  MInv'
  <2> DEFINE why == Permits(borrow_nodes, ptr.alloc, ptr.tag,
                            IF mutable THEN "Write" ELSE "Read")
  <2>1. Running /\ IF why # "ok" THEN Stop(why) ELSE UNCHANGED <<frames, memory>>
    BY <1>3 DEF Reborrow
  <2> HIDE DEF why
  <2> QED BY <2>1, StopKeeps, StutterKeeps
<1>4. ASSUME NEW v \in Val, AddrOfStatic(v)
      PROVE  MInv'
  BY <1>4, AddrOfStaticKeeps
<1> QED BY <1>1, <1>2, <1>3, <1>4 DEF Addresses

LEMMA StorageKeeps == MInv /\ Storage => MInv'
BY MoveKeeps, StorageDeadKeeps DEF Storage

LEMMA CallsKeep == MInv /\ Calls => MInv'
BY CallKeeps, ReturnKeeps DEF Calls, Local

LEMMA BuiltinsKeep == MInv /\ Builtins => MInv'
BY DanglingKeeps, AllocArrayKeeps, DeallocArrayKeeps, CopyKeeps, HostReadKeeps
   DEF Builtins

\* The invariant of the frames and the memory.
THEOREM MemoryInductive == MSpec => []MInv
<1>1. MInv /\ [MNext]_mvars => MInv'
  <2>1. MInv /\ MNext => MInv'
    BY ByNameKeeps, ThroughKeeps, AddressesKeep, StorageKeeps, CallsKeep, BuiltinsKeep
       DEF MNext
  <2>2. MInv /\ UNCHANGED mvars => MInv'
    BY DEF MInv, mvars
  <2> QED BY <2>1, <2>2
<1> QED BY InitGood, <1>1, PTL DEF MSpec

\* Homes, which the run speaks of as pairs, are the entries of promoted.
LEMMA MInvIsOneHome == MInv => OneHome
<1> SUFFICES ASSUME MInv PROVE OneHome
  OBVIOUS
<1>1. /\ OwnedIn(frames, memory) /\ ApartIn(frames) /\ NoneLeftIn(frames, memory)
      /\ \A i \in DOMAIN frames : frames[i] \in FrameSet
  BY FrameOfStack DEF MInv, Good, HomesIn
<1>2. \A i \in DOMAIN frames : /\ DOMAIN frames[i].promoted \subseteq Name
                               /\ DOMAIN frames[i].locals \cap DOMAIN frames[i].promoted = {}
  BY <1>1, FrameParts
<1>3. ASSUME NEW i \in DOMAIN frames, NEW x \in DOMAIN frames[i].promoted
      PROVE  <<i, x>> \in Homes /\ HomeOf(<<i, x>>) = frames[i].promoted[x]
  BY <1>2, <1>3 DEF Homes, HomeOf
<1>4. ASSUME NEW h \in Homes
      PROVE  /\ h = <<h[1], h[2]>> /\ h[1] \in DOMAIN frames
             /\ h[2] \in DOMAIN frames[h[1]].promoted
             /\ HomeOf(h) = frames[h[1]].promoted[h[2]]
  BY <1>4 DEF Homes, HomeOf
<1>5. \A g, h \in Homes : HomeOf(g) = HomeOf(h) => g = h
  <2> SUFFICES ASSUME NEW g \in Homes, NEW h \in Homes, HomeOf(g) = HomeOf(h)
               PROVE  g = h
    OBVIOUS
  <2>1. g[1] = h[1] /\ g[2] = h[2]
    BY <1>1, <1>4 DEF ApartIn
  <2> QED BY <2>1, <1>4
<1>6. {HomeOf(h) : h \in Homes} = Owned(memory)
  <2>1. \A h \in Homes : HomeOf(h) \in Owned(memory)
    BY <1>1, <1>4 DEF OwnedIn
  <2>2. \A a \in Owned(memory) : \E h \in Homes : HomeOf(h) = a
    BY <1>1, <1>3 DEF NoneLeftIn
  <2> QED BY <2>1, <2>2
<1> QED BY <1>2, <1>5, <1>6 DEF OneHome, Owned, Live

\* A local has one home: its plain map or one live allocation of its own, which
\* dies with it (promote_local, StorageDead and the end of a frame).
THEOREM EachLocalHasOneHome == MSpec => []OneHome
BY MemoryInductive, MInvIsOneHome, PTL

LEMMA MInvKeepsPoison == MInv => PoisonStaysInMemory
<1> SUFFICES ASSUME MInv, NEW i \in DOMAIN frames, NEW x \in DOMAIN frames[i].locals
             PROVE  LET value == frames[i].locals[x]
                    IN  value = Uninit \/ ~contains_uninit(value)
  BY DEF PoisonStaysInMemory
<1>1. frames[i].locals[x] \in Stored(x)
  BY FrameOfStack, FrameParts DEF MInv, Good
<1> QED BY <1>1, NoPoisonWithin DEF Stored

\* No frame's plain map ever holds a value with poison inside it: what `copy`
\* plants stays in memory, every way out of it is a read that refuses it.
THEOREM PoisonNeverLeaves == MSpec => []PoisonStaysInMemory
BY MemoryInductive, MInvKeepsPoison, PTL

(*************************************************************************)
(* Writes and the borrows they leave.                                    *)
(*************************************************************************)

\* The ancestors of a node are one line, and those of an exclusive borrow are
\* exclusive borrows.
LinesIn(N) ==
  \A t \in DOMAIN N :
    /\ \A r, s \in N[t].above : r = s \/ r \in N[s].above \/ s \in N[r].above
    /\ N[t].mutable => \A s \in N[t].above : N[s].mutable

Rooting(N, L) == TreeIn(N, L, borrow_roots) /\ LinesIn(N)

\* The nodes of N are those of B but for their states.
SameNodes(B, N) ==
  /\ DOMAIN N = DOMAIN B
  /\ \A t \in DOMAIN B : /\ N[t].alloc = B[t].alloc /\ N[t].above = B[t].above
                         /\ N[t].path = B[t].path /\ N[t].mutable = B[t].mutable

\* A pointer's node is one of its allocation.
Speaks(N, alloc, tag) == tag # NoTag => tag \in DOMAIN N /\ N[tag].alloc = alloc

\* A pointer speaks through a node of its allocation, if there is any.
LEMMA SpeakerIs ==
  ASSUME NEW N, NEW L, Rooting(N, L), NEW alloc, NEW tag, Speaks(N, alloc, tag)
  PROVE  /\ Speaker(alloc, tag) # NoTag =>
              /\ Speaker(alloc, tag) \in DOMAIN N
              /\ N[Speaker(alloc, tag)].alloc = alloc
         /\ Speaker(alloc, tag) = NoTag => \A t \in DOMAIN N : N[t].alloc # alloc
<1>1. OwnerIn(N, borrow_roots) /\ N \in Seq(BorrowNode)
  BY DEF Rooting, TreeIn, TypeIn
<1>2. NoTag \notin DOMAIN N
  BY <1>1, LenProperties DEF NoTag, NoParent
<1> QED BY <1>1, <1>2 DEF Speaker, Speaks, OwnerIn

\* Lines are of the nodes, whatever becomes of their states.
LEMMA LinesKept ==
  ASSUME NEW B, NEW N, LinesIn(B), AboveIn(B), B \in Seq(BorrowNode), SameNodes(B, N)
  PROVE  LinesIn(N)
<1>1. \A t \in DOMAIN B : \A s \in B[t].above : s \in DOMAIN B
  BY LenProperties DEF AboveIn
<1> QED BY <1>1 DEF LinesIn, SameNodes

\* What a permitted access through the speaker makes of a tree is a tree.
LEMMA AccessedIs ==
  ASSUME NEW B, NEW L, Rooting(B, L), NEW alloc, NEW tag, Speaks(B, alloc, tag),
         NEW paths, NEW access \in Access, Speaker(alloc, tag) # NoTag
  PROVE  LET n == Speaker(alloc, tag)
         IN  /\ Accessed([nodes |-> B, lists |-> L], alloc, tag, paths, access)
                  = Touched(B, L, n, paths, access)
             /\ TouchCase(B, L, borrow_roots, n, access)
<1> DEFINE n == Speaker(alloc, tag)
<1>1. n # NoTag /\ n \in DOMAIN B /\ B[n].alloc = alloc
  BY SpeakerIs
<1>2. TouchCase(B, L, borrow_roots, n, access)
  BY <1>1 DEF TouchCase, Rooting
<1> HIDE DEF n
<1>3. Accessed([nodes |-> B, lists |-> L], alloc, tag, paths, access)
        = Touched(B, L, n, paths, access)
  <2> DEFINE victims == Victims(B, L[alloc], n, paths, access)
             nodes == Reacted(B, victims, access)
  <2>1. Accessed([nodes |-> B, lists |-> L], alloc, tag, paths, access)
          = [nodes |-> nodes,
             lists |-> [L EXCEPT ![alloc] = Refiled(nodes, L[alloc], victims # {})]]
    BY <1>1 DEF Accessed, n
  <2>2. Touched(B, L, n, paths, access)
          = [nodes |-> nodes,
             lists |-> [L EXCEPT ![alloc] = Refiled(nodes, L[alloc], victims # {})]]
    BY <1>1 DEF Touched
  <2> QED BY <2>1, <2>2
<1> QED BY <1>2, <1>3 DEF n

\* An access keeps a tree a tree and its nodes what they are.
LEMMA AccessedKeeps ==
  ASSUME NEW B, NEW L, Rooting(B, L), NEW alloc, NEW tag, Speaks(B, alloc, tag),
         NEW paths, NEW access \in Access
  PROVE  LET T == Accessed([nodes |-> B, lists |-> L], alloc, tag, paths, access)
         IN  Rooting(T.nodes, T.lists) /\ SameNodes(B, T.nodes)
<1> DEFINE T == Accessed([nodes |-> B, lists |-> L], alloc, tag, paths, access)
           n == Speaker(alloc, tag)
<1>1. CASE n = NoTag
  <2>1. T = [nodes |-> B, lists |-> L]
    BY <1>1 DEF Accessed
  <2> QED BY <2>1 DEF SameNodes
<1>2. CASE n # NoTag
  <2> HIDE DEF n
  <2>1. T = Touched(B, L, n, paths, access) /\ TouchCase(B, L, borrow_roots, n, access)
    BY <1>2, AccessedIs DEF n
  <2> HIDE DEF T
  <2>2. TreeIn(T.nodes, T.lists, borrow_roots)
    BY <2>1, TouchedKeeps
  <2>3. B \in Seq(BorrowNode) /\ AboveIn(B) /\ LinesIn(B)
    BY DEF Rooting, TreeIn, TypeIn
  <2>4. SameNodes(B, T.nodes)
    <3>1. \A t \in DOMAIN B : B[t] \in BorrowNode
      BY <2>3, NodesTyped
    <3>2. /\ DOMAIN T.nodes = DOMAIN B
          /\ \A t \in DOMAIN B :
               T.nodes[t] = IF t \in ReachedIn(B, n, paths, access)
                              THEN React(B[t], access) ELSE B[t]
      BY <2>1, TouchedNodes
    <3> QED BY <3>1, <3>2, ReactFields DEF SameNodes
  <2> QED BY <2>2, <2>3, <2>4, LinesKept DEF Rooting, T
<1> QED BY <1>1, <1>2

\* The name of a local is never refused: its root stays exclusive.
LEMMA OwnerPermitted ==
  ASSUME NEW B, NEW L, Rooting(B, L), NEW alloc, NEW access
  PROVE  Permits(B, alloc, NoTag, access) = "ok"
<1>1. OwnerIn(B, borrow_roots)
  BY DEF Rooting, TreeIn
<1> QED BY <1>1 DEF Permits, Speaker, OwnerIn, Judge

\* What a write it is permitted leaves valid where it wrote is in the line of
\* the node it went through, which is an exclusive borrow.
LEMMA WriteLeavesLine ==
  ASSUME NEW B, NEW L, Rooting(B, L), NEW alloc, NEW tag, Speaks(B, alloc, tag),
         NEW paths, Permits(B, alloc, tag, "Write") = "ok",
         NEW t \in DOMAIN B, B[t].alloc = alloc,
         \E p \in paths : paths_overlap(p, B[t].path),
         Accessed([nodes |-> B, lists |-> L], alloc, tag, paths, "Write").nodes[t].state
           # "Disabled"
  PROVE  LET n == Speaker(alloc, tag)
         IN  n \in DOMAIN B /\ B[n].mutable /\ is_descendant_of(B, n, t)
<1> DEFINE n == Speaker(alloc, tag)
<1>1. n # NoTag /\ n \in DOMAIN B /\ B[n].alloc = alloc
  BY SpeakerIs
<1>a. "Write" \in Access
  BY DEF Access
<1>2. /\ Accessed([nodes |-> B, lists |-> L], alloc, tag, paths, "Write")
           = Touched(B, L, n, paths, "Write")
      /\ TouchCase(B, L, borrow_roots, n, "Write")
  BY <1>1, <1>a, AccessedIs
<1>3. Judge(B[n], "Write") = "ok"
  BY <1>1 DEF Permits
<1> HIDE DEF n
<1>4. is_descendant_of(B, n, t)
  BY <1>1, <1>2, TouchedClears
<1>5. B[n].mutable
  <2>1. B[n].state \in NodeState
    BY <1>1, NodesTyped DEF Rooting, TreeIn, TypeIn
  <2>2. B[n].state = "Unique"
    BY <1>3, <2>1 DEF Judge, NodeState
  <2> QED BY <1>1, <2>2 DEF Rooting, TreeIn, StoryIn
<1> QED BY <1>1, <1>4, <1>5 DEF n

-----------------------------------------------------------------------------
\* What a place of a value shows.
Shown(value, path) ==
  IF Reaches(value, path) THEN project_path(value, path) ELSE Uninit

\* The value outside the places written.
SameOutside(old, new, paths) ==
  \A p \in Path : (\A w \in paths : ~paths_overlap(w, p)) => Shown(new, p) = Shown(old, p)

ValuesIn(M) ==
  \A a \in DOMAIN M : "value" \in DOMAIN M[a] /\ M[a].value \in Array \cup {Uninit}

\* The property of a step, said of this step.
OneChain ==
  \A t \in Minted :
    (/\ verdict' = "ok"
     /\ borrow_nodes'[t].state # "Disabled"
     /\ memory'[borrow_nodes[t].alloc].live
     /\ Seen(memory', borrow_nodes[t]) # Seen(memory, borrow_nodes[t]))
    => /\ borrow_nodes[t].mutable
       /\ \A s \in Minted :
            (/\ borrow_nodes[s].alloc = borrow_nodes[t].alloc
             /\ borrow_nodes'[s].state # "Disabled"
             /\ Seen(memory', borrow_nodes[s]) # Seen(memory, borrow_nodes[s])
             /\ paths_overlap(borrow_nodes[s].path, borrow_nodes[t].path))
            => ~Unrelated(s, t)

TreeInv ==
  /\ Rooting(borrow_nodes, borrow_nodes_of)
  /\ DOMAIN borrow_roots \subseteq Alloc
  /\ DOMAIN borrow_roots \subseteq DOMAIN memory

WInv == verdict = "ok" => TreeInv /\ ValuesIn(memory)

\* An allocation with a node is one of memory's.
LEMMA NodeInMemory ==
  ASSUME TreeInv, NEW t \in Minted
  PROVE  borrow_nodes[t].alloc \in DOMAIN memory /\ borrow_nodes[t].path \in Path
<1>1. OwnerIn(borrow_nodes, borrow_roots) /\ borrow_nodes \in Seq(BorrowNode)
  BY DEF TreeInv, Rooting, TreeIn, TypeIn
<1> QED BY <1>1, NodesTyped DEF TreeInv, OwnerIn, Minted

\* A step that changes no value that stays alive.
LEMMA QuietStep ==
  ASSUME TreeInv,
         \A a \in DOMAIN memory : memory'[a].value = memory[a].value \/ ~memory'[a].live
  PROVE  OneChain
BY NodeInMemory DEF OneChain, Seen

\* A step that writes places of one allocation through a pointer allowed to.
LEMMA WriteStep ==
  ASSUME TreeInv, NEW B, NEW L, Rooting(B, L), SameNodes(borrow_nodes, B),
         NEW alloc, NEW tag, Speaks(B, alloc, tag), NEW paths,
         Permits(B, alloc, tag, "Write") = "ok",
         borrow_nodes' = Accessed([nodes |-> B, lists |-> L], alloc, tag, paths, "Write").nodes,
         \A a \in DOMAIN memory : a # alloc => memory'[a].value = memory[a].value,
         SameOutside(memory[alloc].value, memory'[alloc].value, paths)
  PROVE  OneChain
<1> DEFINE n == Speaker(alloc, tag)
<1>1. ASSUME NEW t \in Minted, borrow_nodes'[t].state # "Disabled",
             Seen(memory', borrow_nodes[t]) # Seen(memory, borrow_nodes[t])
      PROVE  n \in DOMAIN B /\ B[n].mutable /\ is_descendant_of(B, n, t) /\ t \in DOMAIN B
  <2>1. borrow_nodes[t].alloc \in DOMAIN memory /\ borrow_nodes[t].path \in Path
    BY NodeInMemory
  <2>2. Shown(memory'[borrow_nodes[t].alloc].value, borrow_nodes[t].path)
          # Shown(memory[borrow_nodes[t].alloc].value, borrow_nodes[t].path)
    BY <1>1 DEF Seen, Shown
  <2>3. borrow_nodes[t].alloc = alloc
    BY <2>1, <2>2
  <2>4. \E p \in paths : paths_overlap(p, borrow_nodes[t].path)
    BY <2>1, <2>2, <2>3 DEF SameOutside
  <2>5. t \in DOMAIN B /\ B[t].alloc = alloc /\ B[t].path = borrow_nodes[t].path
    BY <2>3 DEF SameNodes, Minted
  <2> QED BY <1>1, <2>4, <2>5, WriteLeavesLine
<1> HIDE DEF n
<1>2. LinesIn(B) /\ AboveIn(B) /\ B \in Seq(BorrowNode)
  BY DEF Rooting, TreeIn, TypeIn
<1>3. \A s, t : is_descendant_of(B, n, s) /\ is_descendant_of(B, n, t) /\ n \in DOMAIN B
               => is_descendant_of(B, s, t) \/ is_descendant_of(B, t, s)
  BY <1>2 DEF LinesIn, is_descendant_of
<1>4. \A s, t \in DOMAIN B :
        is_descendant_of(borrow_nodes, s, t) <=> is_descendant_of(B, s, t)
  BY DEF SameNodes, is_descendant_of
<1>5. \A t \in DOMAIN B : is_descendant_of(B, n, t) /\ n \in DOMAIN B /\ B[n].mutable
                            => borrow_nodes[t].mutable
  BY <1>2 DEF LinesIn, is_descendant_of, SameNodes
<1> QED BY <1>1, <1>3, <1>4, <1>5 DEF OneChain, Unrelated

-----------------------------------------------------------------------------
\* A place is the whole or one element.
LEMMA PathsAre ==
  ASSUME NEW p \in Path
  PROVE  /\ p # <<>> => DOMAIN p = {1} /\ p[1] \in Nat /\ p = <<p[1]>>
         /\ p = <<>> => DOMAIN p = {}
<1>1. p \in Seq(PathElem) /\ Len(p) <= 1 /\ Len(p) \in Nat /\ DOMAIN p = 1..Len(p)
  BY PathAssumption, ShallowAssumption, LenProperties
<1>2. CASE Len(p) = 0
  BY <1>1, <1>2, EmptySeq
<1>3. CASE Len(p) = 1
  <2>1. DOMAIN p = {1}
    BY <1>1, <1>3
  <2>2. p[1] \in PathElem
    BY <1>1, <1>3, ElementOfSeq
  <2>3. PathElem \subseteq Nat
    BY ShallowAssumption
  <2>4. p # <<>>
    BY <1>3, EmptySeq
  <2>5. p = <<p[1]>>
    BY <1>1, <1>3
  <2> QED BY <2>1, <2>2, <2>3, <2>4, <2>5
<1> QED BY <1>1, <1>2, <1>3

\* The elements of an array, and what they may be.
LEMMA ArrayIs ==
  ASSUME NEW v \in Array
  PROVE  /\ \E n \in Sizes \cup {0, Width} : v.elems \in [0..(n - 1) -> Val \cup {Uninit}]
         /\ v = [elems |-> v.elems] /\ IsArray(v)
         /\ DOMAIN v.elems \subseteq Nat
<1>1. PICK n \in Sizes \cup {0, Width} : v.elems \in [0..(n - 1) -> Val \cup {Uninit}]
  BY DEF Array
<1>2. n \in Nat
  BY MemoryAssumption
<1>3. DOMAIN v.elems \subseteq Nat
  BY <1>1, <1>2
<1>4. v = [elems |-> v.elems]
  BY DEF Array
<1> QED BY <1>1, <1>3, <1>4, ArraysApart

\* The elements of an array replaced.
LEMMA ElementsReplaced ==
  ASSUME NEW v \in Array, NEW elems, elems \in [DOMAIN v.elems -> Val \cup {Uninit}]
  PROVE  [elems |-> elems] \in Array
<1>1. PICK n \in Sizes \cup {0, Width} : v.elems \in [0..(n - 1) -> Val \cup {Uninit}]
  BY ArrayIs
<1>2. elems \in [0..(n - 1) -> Val \cup {Uninit}]
  BY <1>1
<1> QED BY <1>2 DEF Array

\* Arrays that differ only at places written show the same elsewhere.
LEMMA ArraysAgree ==
  ASSUME NEW v \in Array, NEW w \in Array, DOMAIN w.elems = DOMAIN v.elems, NEW paths,
         paths # {},
         \A i \in DOMAIN v.elems : w.elems[i] # v.elems[i] => <<i>> \in paths
  PROVE  SameOutside(v, w, paths)
<1> SUFFICES ASSUME NEW p \in Path, \A q \in paths : ~paths_overlap(q, p)
             PROVE  Shown(w, p) = Shown(v, p)
  BY DEF SameOutside
<1>1. p # <<>>
  BY PathsAre DEF paths_overlap
<1>2. DOMAIN p = {1} /\ p[1] \in Nat
  BY <1>1, PathsAre
<1>3. <<p[1]>> \notin paths
  <2>1. \A i \in DOMAIN <<p[1]>> : i = 1
    OBVIOUS
  <2>2. paths_overlap(<<p[1]>>, p)
    BY <2>1 DEF paths_overlap
  <2> QED BY <2>2
<1>4. IsArray(v) /\ IsArray(w)
  BY ArrayIs
<1> QED BY <1>1, <1>3, <1>4 DEF Shown, Reaches, project_path

\* A path that goes on goes on into an array.
LEMMA ArrayWhenReached ==
  ASSUME NEW v \in Array \cup {Uninit}, NEW path, path # <<>>, Reaches(v, path)
  PROVE  v \in Array /\ path[1] \in DOMAIN v.elems
BY DEF Reaches, IsArray, Scalar

\* What a write of one place leaves of a value.
LEMMA ProjectMutShows ==
  ASSUME NEW v \in Array \cup {Uninit}, NEW w \in Path, NEW new,
         w = <<>> => new \in Aggregate,
         w # <<>> => new \in Val /\ Reaches(v, w)
  PROVE  /\ project_mut(v, w, new) \in Array
         /\ SameOutside(v, project_mut(v, w, new), {w})
<1>1. CASE w = <<>>
  <2>1. \A p : paths_overlap(w, p)
    BY <1>1 DEF paths_overlap
  <2>2. project_mut(v, w, new) \in Array
    BY <1>1, ArraysApart DEF project_mut
  <2> QED BY <2>1, <2>2 DEF SameOutside
<1>2. CASE w # <<>>
  <2> DEFINE elems == [v.elems EXCEPT ![w[1]] = new]
             u == [elems |-> elems]
  <2>1. v \in Array /\ w[1] \in DOMAIN v.elems /\ new \in Val
    BY <1>2, ArrayWhenReached
  <2>2. project_mut(v, w, new) = u
    <3>1. v = [elems |-> v.elems]
      BY <2>1, ArrayIs
    <3> QED BY <1>2, <3>1 DEF project_mut
  <2>3. elems \in [DOMAIN v.elems -> Val \cup {Uninit}]
    <3>1. v.elems \in [DOMAIN v.elems -> Val \cup {Uninit}]
      BY <2>1, ArrayIs
    <3> QED BY <2>1, <3>1
  <2>4. DOMAIN u.elems = DOMAIN v.elems
        /\ \A i \in DOMAIN v.elems : u.elems[i] # v.elems[i] => i = w[1]
    BY <2>1
  <2>5. w = <<w[1]>>
    BY <1>2, PathsAre
  <2> HIDE DEF elems
  <2>6. u \in Array
    BY <2>1, <2>3, ElementsReplaced
  <2> HIDE DEF u
  <2>7. SameOutside(v, u, {w})
    BY <2>1, <2>4, <2>5, <2>6, ArraysAgree
  <2> QED BY <2>2, <2>6, <2>7
<1> QED BY <1>1, <1>2

\* What a range landed at k leaves of an array.
LEMMA LandedShows ==
  ASSUME NEW v \in Array, NEW k \in Nat, NEW n \in Nat \ {0}, NEW E, NEW D, D \subseteq 0..(n - 1),
         E \in [D -> Val \cup {Uninit}]
  PROVE  LET u == [v EXCEPT !.elems =
                     [i \in DOMAIN @ |-> IF i - k \in DOMAIN E THEN E[i - k] ELSE @[i]]]
         IN  u \in Array /\ SameOutside(v, u, {<<i>> : i \in k..(k + n - 1)})
<1> DEFINE elems == [i \in DOMAIN v.elems |->
                       IF i - k \in DOMAIN E THEN E[i - k] ELSE v.elems[i]]
           u == [elems |-> elems]
           paths == {<<i>> : i \in k..(k + n - 1)}
<1>1. [v EXCEPT !.elems =
         [i \in DOMAIN @ |-> IF i - k \in DOMAIN E THEN E[i - k] ELSE @[i]]] = u
  <2>1. v = [elems |-> v.elems]
    BY ArrayIs
  <2> QED BY <2>1
<1>2. v.elems \in [DOMAIN v.elems -> Val \cup {Uninit}] /\ DOMAIN v.elems \subseteq Nat
  BY ArrayIs
<1>3. elems \in [DOMAIN v.elems -> Val \cup {Uninit}]
  BY <1>2
<1>4. \A i \in DOMAIN v.elems : u.elems[i] # v.elems[i] => i \in k..(k + n - 1)
  <2> SUFFICES ASSUME NEW i \in DOMAIN v.elems, i - k \in D
               PROVE  i \in k..(k + n - 1)
    OBVIOUS
  <2>1. i \in Nat /\ i - k \in 0..(n - 1)
    BY <1>2
  <2> QED BY <2>1
<1>5. DOMAIN u.elems = DOMAIN v.elems
  OBVIOUS
<1>6. paths # {}
  <2>1. k \in k..(k + n - 1)
    OBVIOUS
  <2> QED BY <2>1
<1>7. \A i \in DOMAIN v.elems : u.elems[i] # v.elems[i] => <<i>> \in paths
  BY <1>4
<1> HIDE DEF elems
<1>8. u \in Array
  BY <1>3, ElementsReplaced
<1> HIDE DEF u, paths
<1>9. SameOutside(v, u, paths)
  BY <1>5, <1>6, <1>7, <1>8, ArraysAgree
<1> QED BY <1>1, <1>8, <1>9 DEF paths

\* A fresh allocation holds an array.
LEMMA FilledIs ==
  ASSUME NEW n \in Sizes \cup {0, Width}, NEW v \in Val \cup {Uninit}
  PROVE  Filled(n, v) \in Array
BY DEF Filled, Array
-----------------------------------------------------------------------------
(* Steps.                                                                   *)

\* A run that stops owes nothing.
LEMMA StopSound ==
  ASSUME NEW why, why # "ok", Stop(why)
  PROVE  WInv' /\ OneChain
BY DEF Stop, WInv, OneChain

\* What the invariants say of a program that runs.
LEMMA Going ==
  ASSUME MInv, WInv, Running
  PROVE  /\ TreeInv /\ ValuesIn(memory) /\ Good(frames, memory) /\ frames # <<>>
         /\ verdict = "ok" /\ Rooting(borrow_nodes, borrow_nodes_of)
         /\ Len(memory) \in Nat /\ DOMAIN memory = 1..Len(memory)
         /\ memory = [a \in DOMAIN memory |-> memory[a]]
<1>1. TreeInv /\ ValuesIn(memory) /\ verdict = "ok"
  BY DEF WInv, Running
<1>2. Good(frames, memory) /\ frames # <<>>
  BY WhileRunning
<1> QED BY <1>1, <1>2, CellsOfMemory DEF TreeInv, Good

\* A local's storage is in memory, or in its frame as an aggregate.
LEMMA HomeIsThere ==
  ASSUME Good(frames, memory), frames # <<>>, NEW x \in Name
  PROVE  /\ Promoted(x) => frame.promoted[x] \in DOMAIN memory
         /\ Holds(x) /\ ~Promoted(x) => frame.locals[x] \in Aggregate
<1>1. Len(frames) \in DOMAIN frames
  <2>1. Len(frames) \in Nat /\ DOMAIN frames = 1..Len(frames)
    BY LenProperties DEF Good, FramesIn
  <2>2. Len(frames) # 0
    BY EmptySeq DEF Good, FramesIn
  <2> QED BY <2>1, <2>2
<1>2. Promoted(x) => frame.promoted[x] \in Owned(memory)
  BY <1>1 DEF Promoted, frame, Good, HomesIn, OwnedIn
<1>3. x \in Local
  BY DEF Local
<1>4. Holds(x) /\ ~Promoted(x) => ValueOf(x) \in Stored(x)
  BY <1>3, LocalHolds
<1> QED BY <1>2, <1>4 DEF Owned, ValueOf, Stored

\* A pointer the program may hold points into memory, at its own node.
LEMMA HeldIs ==
  ASSUME NEW ptr \in Held
  PROVE  /\ ptr.alloc \in DOMAIN memory /\ ptr.alloc \in Alloc /\ ptr.path \in Path
         /\ Speaks(borrow_nodes, ptr.alloc, ptr.tag)
BY DEF Held, Pointer, Speaks, Minted

\* A step that leaves the tree one, and every value that stays alive.
LEMMA QuietSound ==
  ASSUME TreeInv, Rooting(borrow_nodes', borrow_nodes_of'), borrow_roots' = borrow_roots,
         DOMAIN memory \subseteq DOMAIN memory', ValuesIn(memory'),
         \A a \in DOMAIN memory : memory'[a].value = memory[a].value \/ ~memory'[a].live
  PROVE  WInv' /\ OneChain
<1>1. TreeInv'
  BY DEF TreeInv, Rooting
<1> QED BY <1>1, QuietStep DEF WInv

\* A step that touches neither.
LEMMA StillSound ==
  ASSUME TreeInv, ValuesIn(memory), UNCHANGED <<tree, memory>>
  PROVE  WInv' /\ OneChain
<1>1. Rooting(borrow_nodes', borrow_nodes_of') /\ borrow_roots' = borrow_roots
  BY DEF TreeInv, tree
<1> QED BY <1>1, QuietSound

\* An access through a pointer keeps the tree.
LEMMA AccessKeepsRooting ==
  ASSUME TreeInv, NEW alloc, NEW tag, Speaks(borrow_nodes, alloc, tag), NEW paths,
         NEW access \in Access, aliasing_access(alloc, tag, paths, access)
  PROVE  Rooting(borrow_nodes', borrow_nodes_of') /\ borrow_roots' = borrow_roots
<1> DEFINE T == Accessed([nodes |-> borrow_nodes, lists |-> borrow_nodes_of],
                         alloc, tag, paths, access)
<1>1. borrow_nodes' = T.nodes /\ borrow_nodes_of' = T.lists /\ borrow_roots' = borrow_roots
  BY DEF aliasing_access, SetTree, Tree
<1>2. Rooting(T.nodes, T.lists)
  BY AccessedKeeps DEF TreeInv
<1> QED BY <1>1, <1>2

\* An access by name keeps the tree.
LEMMA NameKeepsRooting ==
  ASSUME TreeInv, NEW x, NEW path, NEW access \in Access, NameAccess(x, path, access)
  PROVE  Rooting(borrow_nodes', borrow_nodes_of') /\ borrow_roots' = borrow_roots
<1>1. CASE Promoted(x)
  <2>1. aliasing_access(frame.promoted[x], NoTag, {path}, access)
    BY <1>1 DEF NameAccess
  <2>2. Speaks(borrow_nodes, frame.promoted[x], NoTag)
    BY DEF Speaks
  <2> QED BY <2>1, <2>2, AccessKeepsRooting
<1>2. CASE ~Promoted(x)
  BY <1>2 DEF NameAccess, tree, TreeInv
<1> QED BY <1>1, <1>2

\* A write of one allocation is of no other.
LEMMA ValueWritten ==
  ASSUME ValuesIn(memory), memory = [a \in DOMAIN memory |-> memory[a]],
         NEW b \in DOMAIN memory, NEW v \in Array \cup {Uninit},
         memory' = [memory EXCEPT ![b].value = v]
  PROVE  /\ DOMAIN memory' = DOMAIN memory /\ ValuesIn(memory')
         /\ memory'[b].value = v
         /\ \A a \in DOMAIN memory : a # b => memory'[a] = memory[a]
BY DEF ValuesIn

\* A step that writes places of a cell, judged on the tree B and L.
LEMMA WriteSound ==
  ASSUME TreeInv, ValuesIn(memory), memory = [a \in DOMAIN memory |-> memory[a]],
         NEW B, NEW L, Rooting(B, L), SameNodes(borrow_nodes, B),
         NEW alloc \in DOMAIN memory, NEW tag, Speaks(B, alloc, tag), NEW paths,
         Permits(B, alloc, tag, "Write") = "ok",
         SetTree(Accessed([nodes |-> B, lists |-> L], alloc, tag, paths, "Write")),
         NEW v \in Array \cup {Uninit}, memory' = [memory EXCEPT ![alloc].value = v],
         SameOutside(memory[alloc].value, v, paths)
  PROVE  WInv' /\ OneChain
<1> DEFINE T == Accessed([nodes |-> B, lists |-> L], alloc, tag, paths, "Write")
<1>1. /\ DOMAIN memory' = DOMAIN memory /\ ValuesIn(memory')
      /\ memory'[alloc].value = v
      /\ \A a \in DOMAIN memory : a # alloc => memory'[a] = memory[a]
  BY ValueWritten
<1>2. borrow_nodes' = T.nodes /\ borrow_nodes_of' = T.lists /\ borrow_roots' = borrow_roots
  BY DEF SetTree
<1>3. Rooting(T.nodes, T.lists)
  <2>1. "Write" \in Access
    BY DEF Access
  <2> QED BY <2>1, AccessedKeeps
<1>4. TreeInv'
  BY <1>1, <1>2, <1>3 DEF TreeInv, Rooting
<1>5. OneChain
  <2>1. \A a \in DOMAIN memory : a # alloc => memory'[a].value = memory[a].value
    BY <1>1
  <2>2. SameOutside(memory[alloc].value, memory'[alloc].value, paths)
    BY <1>1
  <2> QED BY <1>2, <2>1, <2>2, WriteStep
<1> QED BY <1>1, <1>4, <1>5 DEF WInv

\* Cells appended.
LEMMA CellsMore ==
  ASSUME Good(frames, memory), ValuesIn(memory), NEW c,
         {"live", "kind", "value"} \subseteq DOMAIN c,
         c.live \in BOOLEAN, c.value \in Array, NEW M, M = Append(memory, c)
  PROVE  /\ DOMAIN M = DOMAIN memory \cup {NextAlloc} /\ ValuesIn(M)
         /\ M[NextAlloc] = c /\ NextAlloc \notin DOMAIN memory
         /\ \A a \in DOMAIN memory : M[a] = memory[a]
<1>1. LET A == Append(memory, c)
      IN  /\ Len(memory) + 1 \notin DOMAIN memory
          /\ DOMAIN A = DOMAIN memory \cup {Len(memory) + 1} /\ A[Len(memory) + 1] = c
          /\ \A a \in DOMAIN memory : A[a] = memory[a]
  BY CellAppended DEF Good
<1>2. /\ DOMAIN M = DOMAIN memory \cup {NextAlloc} /\ M[NextAlloc] = c
      /\ NextAlloc \notin DOMAIN memory
      /\ \A a \in DOMAIN memory : M[a] = memory[a]
  BY <1>1 DEF NextAlloc
<1>3. ValuesIn(M)
  BY <1>2 DEF ValuesIn
<1> QED BY <1>2, <1>3

\* An allocation that ends keeps its value.
LEMMA KilledValues ==
  ASSUME ValuesIn(memory), CellsIn(memory), NEW S
  PROVE  /\ DOMAIN Killed(S) = DOMAIN memory /\ ValuesIn(Killed(S))
         /\ \A a \in DOMAIN memory :
              Killed(S)[a].value = memory[a].value \/ ~Killed(S)[a].live
<1>1. DOMAIN Killed(S) = DOMAIN memory
  BY DEF Killed
<1>2. ASSUME NEW a \in DOMAIN memory
      PROVE  /\ "value" \in DOMAIN Killed(S)[a]
             /\ Killed(S)[a].value \in Array \cup {Uninit}
             /\ Killed(S)[a].value = memory[a].value \/ ~Killed(S)[a].live
  <2>1. "value" \in DOMAIN memory[a] /\ "live" \in DOMAIN memory[a]
        /\ memory[a].value \in Array \cup {Uninit}
    BY DEF ValuesIn, CellsIn
  <2>2. CASE a \in S
    <3>1. Killed(S)[a] = [memory[a] EXCEPT !.live = FALSE, !.value = Uninit]
      BY <2>2 DEF Killed
    <3> QED BY <2>1, <3>1
  <2>3. CASE a \notin S
    <3>1. Killed(S)[a] = memory[a]
      BY <2>3 DEF Killed
    <3> QED BY <2>1, <3>1
  <2> QED BY <2>2, <2>3
<1> QED BY <1>1, <1>2 DEF ValuesIn

(*************************************************************************)
(* Each statement that reads or writes.                                  *)
(*************************************************************************)

\* Reads write nothing.
LEMMA LoadSound ==
  ASSUME MInv, WInv, NEW x \in Local, NEW path, NEW t, Load(t, x, path)
  PROVE  WInv' /\ OneChain
<1>0. TreeInv /\ ValuesIn(memory)
  BY Going DEF Load
<1>1. CASE NameRefusal(x, path) # "ok"
  BY <1>1, StopSound DEF Load
<1>2. CASE NameRefusal(x, path) = "ok"
  <2>1. NameAccess(x, path, "Read") /\ memory' = memory /\ "Read" \in Access
    BY <1>2 DEF Load, Access
  <2>2. Rooting(borrow_nodes', borrow_nodes_of') /\ borrow_roots' = borrow_roots
    BY <1>0, <2>1, NameKeepsRooting
  <2> QED BY <1>0, <2>1, <2>2, QuietSound
<1> QED BY <1>1, <1>2

\* A read through a pointer.
LEMMA LoadThroughSound ==
  ASSUME MInv, WInv, NEW ptr \in Held, NEW path, NEW t, LoadThrough(t, ptr, path)
  PROVE  WInv' /\ OneChain
<1>0. TreeInv /\ ValuesIn(memory)
  BY Going DEF LoadThrough
<1>1. CASE ReadRefusal(ptr, path) # "ok"
  BY <1>1, StopSound DEF LoadThrough
<1>2. CASE ReadRefusal(ptr, path) = "ok"
  <2>1. /\ aliasing_access(ptr.alloc, ptr.tag, {ptr.path \o path}, "Read")
        /\ memory' = memory /\ "Read" \in Access
    BY <1>2 DEF LoadThrough, Access
  <2>2. Rooting(borrow_nodes', borrow_nodes_of') /\ borrow_roots' = borrow_roots
    BY <1>0, <2>1, HeldIs, AccessKeepsRooting
  <2> QED BY <1>0, <2>1, <2>2, QuietSound
<1> QED BY <1>1, <1>2

\* A write by the name of a promoted local.
LEMMA NameWriteSound ==
  ASSUME MInv, WInv, Running, NEW x \in Name, Promoted(x), NEW path,
         NameAccess(x, path, "Write"), NEW v \in Array \cup {Uninit},
         memory' = [memory EXCEPT ![frame.promoted[x]].value = v],
         SameOutside(memory[frame.promoted[x]].value, v, {path})
  PROVE  WInv' /\ OneChain
<1> DEFINE alloc == frame.promoted[x]
<1>1. /\ TreeInv /\ ValuesIn(memory) /\ Rooting(borrow_nodes, borrow_nodes_of)
      /\ memory = [a \in DOMAIN memory |-> memory[a]]
  BY Going
<1>2. alloc \in DOMAIN memory
  BY Going, HomeIsThere
<1>3. SetTree(Accessed([nodes |-> borrow_nodes, lists |-> borrow_nodes_of],
                       alloc, NoTag, {path}, "Write"))
  BY DEF NameAccess, aliasing_access, Tree
<1>4. Permits(borrow_nodes, alloc, NoTag, "Write") = "ok"
  BY <1>1, OwnerPermitted
<1>5. Speaks(borrow_nodes, alloc, NoTag) /\ SameNodes(borrow_nodes, borrow_nodes)
  BY DEF Speaks, SameNodes
<1> HIDE DEF alloc
<1>6. memory' = [memory EXCEPT ![alloc].value = v] /\ SameOutside(memory[alloc].value, v, {path})
  BY DEF alloc
<1> QED BY <1>1, <1>2, <1>3, <1>4, <1>5, <1>6, WriteSound

\* A store by name: in the frame, or in memory as its owner.
LEMMA StoreSound ==
  ASSUME MInv, WInv, NEW x \in Name, NEW path \in Path, NEW value, Store(x, path, value)
  PROVE  WInv' /\ OneChain
<1>0. /\ Running /\ TreeInv /\ ValuesIn(memory)
      /\ memory = [a \in DOMAIN memory |-> memory[a]]
  BY Going DEF Store
<1>1. CASE path # <<>> /\ ~Reaches(ValueOf(x), path)
  <2>1. Stop(Lost(ValueOf(x), "bounds"))
    BY <1>1 DEF Store
  <2>2. Lost(ValueOf(x), "bounds") # "ok"
    BY DEF Lost
  <2> QED BY <2>1, <2>2, StopSound
<1>2. CASE ~(path # <<>> /\ ~Reaches(ValueOf(x), path)) /\ Promoted(x)
  <2> DEFINE old == memory[frame.promoted[x]].value
             new == project_mut(old, path, value)
  <2>1. memory' = [memory EXCEPT ![frame.promoted[x]].value = new]
    BY <1>2 DEF Store
  <2>2. NameAccess(x, path, "Write")
    BY <1>2 DEF Store
  <2>3. old \in Array \cup {Uninit}
    BY Going, HomeIsThere, <1>0, <1>2 DEF ValuesIn
  <2>4. (path = <<>> => value \in Aggregate)
        /\ (path # <<>> => value \in Val /\ Reaches(old, path))
    BY <1>2 DEF Store, ValueOf
  <2> HIDE DEF old
  <2>5. new \in Array /\ SameOutside(old, new, {path})
    BY <2>3, <2>4, ProjectMutShows
  <2> HIDE DEF new
  <2>6. SameOutside(memory[frame.promoted[x]].value, new, {path})
    BY <2>5 DEF old
  <2> QED BY <1>0, <1>2, <2>1, <2>2, <2>5, <2>6, NameWriteSound
<1>3. CASE ~(path # <<>> /\ ~Reaches(ValueOf(x), path)) /\ ~Promoted(x)
  <2>1. UNCHANGED <<tree, memory>>
    BY <1>3 DEF Store
  <2> QED BY <1>0, <2>1, StillSound
<1> QED BY <1>1, <1>2, <1>3

\* A store through a pointer.
LEMMA StoreThroughSound ==
  ASSUME MInv, WInv, NEW ptr \in Held, NEW path, NEW value, StoreThrough(ptr, path, value)
  PROVE  WInv' /\ OneChain
<1>0. /\ Running /\ TreeInv /\ ValuesIn(memory) /\ Rooting(borrow_nodes, borrow_nodes_of)
      /\ memory = [a \in DOMAIN memory |-> memory[a]]
  BY Going DEF StoreThrough
<1>1. CASE WriteRefusal(ptr, path) # "ok"
  BY <1>1, StopSound DEF StoreThrough
<1>2. CASE WriteRefusal(ptr, path) = "ok"
  <2> DEFINE whole == ptr.path \o path
             old == memory[ptr.alloc].value
             new == project_mut(old, whole, value)
  <2>1. memory' = [memory EXCEPT ![ptr.alloc].value = new]
    BY <1>2 DEF StoreThrough
  <2>2. SetTree(Accessed([nodes |-> borrow_nodes, lists |-> borrow_nodes_of],
                         ptr.alloc, ptr.tag, {whole}, "Write"))
    BY <1>2 DEF StoreThrough, aliasing_access, Tree
  <2>3. Permits(borrow_nodes, ptr.alloc, ptr.tag, "Write") = "ok" /\ Reaches(old, whole)
    BY <1>2 DEF WriteRefusal, Lost
  <2>4. whole \in Path /\ (whole = <<>> => value \in Aggregate) /\ (whole # <<>> => value \in Val)
    BY DEF StoreThrough
  <2>5. /\ ptr.alloc \in DOMAIN memory /\ Speaks(borrow_nodes, ptr.alloc, ptr.tag)
        /\ old \in Array \cup {Uninit} /\ SameNodes(borrow_nodes, borrow_nodes)
    BY <1>0, HeldIs DEF ValuesIn, SameNodes
  <2> HIDE DEF old, whole
  <2>6. new \in Array /\ SameOutside(old, new, {whole})
    BY <2>3, <2>4, <2>5, ProjectMutShows
  <2> HIDE DEF new
  <2>7. SameOutside(memory[ptr.alloc].value, new, {whole})
    BY <2>6 DEF old
  <2> QED BY <1>0, <2>1, <2>2, <2>3, <2>5, <2>6, <2>7, WriteSound
<1> QED BY <1>1, <1>2

\* The first address of a local, whatever else it is taken for.
LEMMA PromotedValues ==
  ASSUME MInv, WInv, Running, NEW x \in Name, Holds(x)
  PROVE  LET M == PromotedMemory(x)
         IN  /\ DOMAIN memory \subseteq DOMAIN M /\ AllocOf(x) \in DOMAIN M
             /\ ValuesIn(M) /\ M = [a \in DOMAIN M |-> M[a]]
             /\ \A a \in DOMAIN memory : M[a] = memory[a]
             /\ ~Promoted(x) => AllocOf(x) \notin DOMAIN memory
<1>0. /\ Good(frames, memory) /\ frames # <<>> /\ ValuesIn(memory)
      /\ memory = [a \in DOMAIN memory |-> memory[a]]
  BY Going
<1>1. CASE Promoted(x)
  BY <1>0, <1>1, HomeIsThere DEF PromotedMemory, AllocOf
<1>2. CASE ~Promoted(x)
  <2> DEFINE c == Cell(frame.locals[x], "Local", x \in Binding)
             M == PromotedMemory(x)
  <2>1. M = Append(memory, c)
    BY <1>2 DEF PromotedMemory
  <2>2. {"live", "kind", "value"} \subseteq DOMAIN c /\ c.live \in BOOLEAN
        /\ c.value \in Array
    BY <1>0, <1>2, HomeIsThere, ArraysApart DEF Cell
  <2> HIDE DEF c, M
  <2>3. /\ DOMAIN M = DOMAIN memory \cup {NextAlloc} /\ ValuesIn(M)
        /\ NextAlloc \notin DOMAIN memory
        /\ \A a \in DOMAIN memory : M[a] = memory[a]
    <3>1. DOMAIN M = DOMAIN memory \cup {NextAlloc}
      BY <1>0, <2>1, <2>2, CellsMore, Zenon
    <3>2. ValuesIn(M)
      BY <1>0, <2>1, <2>2, CellsMore, Zenon
    <3>3. \A a \in DOMAIN memory : M[a] = memory[a]
      BY <1>0, <2>1, <2>2, CellsMore
    <3>4. NextAlloc \notin DOMAIN memory
      BY <1>0, <2>1, <2>2, CellsMore, Zenon
    <3> QED BY <3>1, <3>2, <3>3, <3>4
  <2>4. M = [a \in DOMAIN M |-> M[a]]
    <3>1. CellsIn(Append(memory, c))
      BY <1>0, <2>2, CellAppended DEF Good
    <3> QED BY <2>1, <3>1, CellsOfMemory
  <2> QED BY <1>2, <2>3, <2>4 DEF AllocOf, M
<1> QED BY <1>1, <1>2

\* Taking an address moves the value, unchanged, to memory.
LEMMA AddrOfSound ==
  ASSUME MInv, WInv, NEW x \in Name, AddrOf(x)
  PROVE  WInv' /\ OneChain
<1>0. TreeInv /\ Running /\ Holds(x)
  BY Going DEF AddrOf
<1>1. memory' = PromotedMemory(x) /\ UNCHANGED tree
  BY DEF AddrOf
<1>2. /\ DOMAIN memory \subseteq DOMAIN memory' /\ ValuesIn(memory')
      /\ \A a \in DOMAIN memory : memory'[a] = memory[a]
  BY <1>0, <1>1, PromotedValues
<1>3. Rooting(borrow_nodes', borrow_nodes_of') /\ borrow_roots' = borrow_roots
  BY <1>0, <1>1 DEF TreeInv, tree
<1> QED BY <1>0, <1>2, <1>3, QuietSound

\* A move by name: the write is of the whole, the storage is left vacant.
LEMMA MoveSound ==
  ASSUME MInv, WInv, NEW x \in Name, NEW t, Move(t, x)
  PROVE  WInv' /\ OneChain
<1>0. TreeInv /\ Running /\ Holds(x) /\ ValuesIn(memory)
  BY Going DEF Move
<1>1. CASE NameRefusal(x, <<>>) # "ok"
  BY <1>1, StopSound DEF Move
<1>2. CASE NameRefusal(x, <<>>) = "ok"
  <2> DEFINE M == PromotedMemory(x)
  <2>1. NameAccess(x, <<>>, "Write") /\ memory' = [M EXCEPT ![AllocOf(x)].value = Uninit]
    BY <1>2 DEF Move
  <2>2. CASE Promoted(x)
    <3>1. memory' = [memory EXCEPT ![frame.promoted[x]].value = Uninit]
      BY <2>1, <2>2 DEF PromotedMemory, AllocOf
    <3>2. SameOutside(memory[frame.promoted[x]].value, Uninit, {<<>>})
      BY DEF SameOutside, paths_overlap
    <3> QED BY <1>0, <2>1, <2>2, <3>1, <3>2, NameWriteSound
  <2>3. CASE ~Promoted(x)
    <3>1. UNCHANGED tree
      BY <2>1, <2>3 DEF NameAccess
    <3>2. /\ DOMAIN memory \subseteq DOMAIN M /\ AllocOf(x) \in DOMAIN M
          /\ ValuesIn(M) /\ M = [a \in DOMAIN M |-> M[a]]
          /\ \A a \in DOMAIN memory : M[a] = memory[a]
          /\ AllocOf(x) \notin DOMAIN memory
      BY <1>0, <2>3, PromotedValues
    <3> HIDE DEF M
    <3>3. DOMAIN memory' = DOMAIN M /\ \A a \in DOMAIN M : a # AllocOf(x) => memory'[a] = M[a]
      BY <2>1, <3>2
    <3>4. memory'[AllocOf(x)] = [M[AllocOf(x)] EXCEPT !.value = Uninit]
      BY <2>1, <3>2
    <3>5. ValuesIn(memory')
      BY <3>2, <3>3, <3>4 DEF ValuesIn
    <3>6. Rooting(borrow_nodes', borrow_nodes_of') /\ borrow_roots' = borrow_roots
      BY <1>0, <3>1 DEF TreeInv, tree
    <3>7. /\ DOMAIN memory \subseteq DOMAIN memory'
          /\ \A a \in DOMAIN memory : memory'[a] = memory[a]
      BY <3>2, <3>3
    <3> QED BY <1>0, <3>5, <3>6, <3>7, QuietSound
  <2> QED BY <2>2, <2>3
<1> QED BY <1>1, <1>2

\* Cells killed.
LEMMA KillSound ==
  ASSUME MInv, WInv, Running, NEW S, memory' = Killed(S), UNCHANGED tree
  PROVE  WInv' /\ OneChain
<1>1. TreeInv /\ ValuesIn(memory) /\ CellsIn(memory)
  BY Going DEF Good
<1>2. Rooting(borrow_nodes', borrow_nodes_of') /\ borrow_roots' = borrow_roots
  BY <1>1 DEF TreeInv, tree
<1>3. /\ DOMAIN memory' = DOMAIN memory /\ ValuesIn(memory')
      /\ \A a \in DOMAIN memory : memory'[a].value = memory[a].value \/ ~memory'[a].live
  BY <1>1, KilledValues
<1> QED BY <1>1, <1>2, <1>3, QuietSound

\* The end of a scope.
LEMMA StorageDeadSound ==
  ASSUME MInv, WInv, NEW x, StorageDead(x)
  PROVE  WInv' /\ OneChain
BY KillSound DEF StorageDead

\* A call passes values: memory and tree are as they were.
LEMMA CallSound ==
  ASSUME MInv, WInv, NEW dest, NEW arg, NEW param, NEW moved, Call(dest, arg, param, moved)
  PROVE  WInv' /\ OneChain
<1>0. TreeInv /\ ValuesIn(memory)
  BY Going DEF Call
<1>1. CASE NameRefusal(arg, <<>>) # "ok"
  BY <1>1, StopSound DEF Call
<1>2. CASE NameRefusal(arg, <<>>) = "ok" /\ Len(frames) >= MaxFrames
  <2>1. Stop("stack overflow")
    BY <1>2 DEF Call
  <2> QED BY <2>1, StopSound
<1>3. CASE NameRefusal(arg, <<>>) = "ok" /\ ~(Len(frames) >= MaxFrames)
  <2>1. UNCHANGED <<tree, memory>>
    BY <1>3 DEF Call
  <2> QED BY <1>0, <2>1, StillSound
<1> QED BY <1>1, <1>2, <1>3

\* A return ends the frame's allocations and writes nothing that stays.
LEMMA ReturnSound ==
  ASSUME MInv, WInv, NEW ret, Return(ret)
  PROVE  WInv' /\ OneChain
<1>1. CASE Len(frames) = 1
  <2>1. Stop("done")
    BY <1>1 DEF Return
  <2> QED BY <2>1, StopSound
<1>2. CASE Len(frames) # 1
  <2>1. /\ Running /\ UNCHANGED tree
        /\ memory' = Killed({frame.promoted[x] : x \in DOMAIN frame.promoted})
    BY <1>2 DEF Return
  <2> QED BY <2>1, KillSound
<1> QED BY <1>1, <1>2

\* A cell no local owns, added.
LEMMA MintCellSound ==
  ASSUME MInv, WInv, Running, NEW c, {"live", "kind", "value"} \subseteq DOMAIN c,
         c.live \in BOOLEAN, c.value \in Array, memory' = Append(memory, c), UNCHANGED tree
  PROVE  WInv' /\ OneChain
<1>1. TreeInv /\ ValuesIn(memory) /\ Good(frames, memory)
  BY Going
<1>2. Rooting(borrow_nodes', borrow_nodes_of') /\ borrow_roots' = borrow_roots
  BY <1>1 DEF TreeInv, tree
<1>3. /\ DOMAIN memory \subseteq DOMAIN memory' /\ ValuesIn(memory')
      /\ \A a \in DOMAIN memory : memory'[a] = memory[a]
  <2>1. DOMAIN memory' = DOMAIN memory \cup {NextAlloc}
    BY <1>1, CellsMore, Zenon
  <2>2. ValuesIn(memory')
    BY <1>1, CellsMore, Zenon
  <2>3. \A a \in DOMAIN memory : memory'[a] = memory[a]
    BY <1>1, CellsMore
  <2> QED BY <2>1, <2>2, <2>3
<1> QED BY <1>1, <1>2, <1>3, QuietSound

\* Allocations nothing has borrowed yet.
LEMMA CellMintersSound ==
  ASSUME MInv, WInv,
         \/ \E v \in Val : AddrOfStatic(v)
         \/ builtin_dangling
         \/ \E n \in Sizes : builtin_alloc_array(n)
  PROVE  WInv' /\ OneChain
<1>1. ASSUME NEW v \in Val, AddrOfStatic(v)
      PROVE  WInv' /\ OneChain
  <2> DEFINE c == Cell(Filled(Width, v), "Static", TRUE)
  <2>1. Filled(Width, v) \in Array
    BY FilledIs
  <2>2. {"live", "kind", "value"} \subseteq DOMAIN c /\ c.live \in BOOLEAN /\ c.value \in Array
    BY <2>1 DEF Cell
  <2>3. Running /\ memory' = Append(memory, c) /\ UNCHANGED tree
    BY <1>1 DEF AddrOfStatic
  <2> HIDE DEF c
  <2> QED BY <2>2, <2>3, MintCellSound
<1>2. CASE builtin_dangling
  <2> DEFINE c == [Cell(Filled(0, Uninit), "Dangling", FALSE) EXCEPT !.live = FALSE]
  <2>1. Filled(0, Uninit) \in Array
    BY FilledIs
  <2>2. {"live", "kind", "value"} \subseteq DOMAIN c /\ c.live \in BOOLEAN /\ c.value \in Array
    BY <2>1 DEF Cell
  <2>3. Running /\ memory' = Append(memory, c) /\ UNCHANGED tree
    BY <1>2 DEF builtin_dangling
  <2> HIDE DEF c
  <2> QED BY <2>2, <2>3, MintCellSound
<1>3. ASSUME NEW n \in Sizes, builtin_alloc_array(n)
      PROVE  WInv' /\ OneChain
  <2>1. CASE n = 0
    <3>1. Stop("zero size")
      BY <1>3, <2>1 DEF builtin_alloc_array
    <3> QED BY <3>1, StopSound
  <2>2. CASE n # 0
    <3> DEFINE c == Cell(Filled(n, Uninit), "Heap", FALSE)
    <3>1. Filled(n, Uninit) \in Array
      BY FilledIs
    <3>2. {"live", "kind", "value"} \subseteq DOMAIN c /\ c.live \in BOOLEAN /\ c.value \in Array
      BY <3>1 DEF Cell
    <3>3. Running /\ memory' = Append(memory, c) /\ UNCHANGED tree
      BY <1>3, <2>2 DEF builtin_alloc_array
    <3> HIDE DEF c
    <3> QED BY <3>2, <3>3, MintCellSound
  <2> QED BY <2>1, <2>2
<1> QED BY <1>1, <1>2, <1>3

\* An array freed.
LEMMA DeallocArraySound ==
  ASSUME MInv, WInv, NEW ptr, NEW n, builtin_dealloc_array(ptr, n)
  PROVE  WInv' /\ OneChain
<1> DEFINE cell == memory[ptr.alloc]
           why == CASE cell.kind # "Heap" -> "not heap"
                    [] ~Live(ptr.alloc) -> "double free"
                    [] ptr.path # <<0>> -> "not the head"
                    [] n # Cardinality(DOMAIN cell.value.elems) -> "wrong count"
                    [] OTHER -> "ok"
<1>1. Running /\ IF why # "ok" THEN Stop(why)
                 ELSE memory' = Killed({ptr.alloc}) /\ UNCHANGED tree
  BY DEF builtin_dealloc_array
<1> HIDE DEF why
<1> QED BY <1>1, StopSound, KillSound

(*************************************************************************)
(* Ranges, borrows, and every step.                                      *)
(*************************************************************************)

\* A range that is not refused lies within an array.
LEMMA RangeIs ==
  ASSUME ValuesIn(memory), NEW ptr \in Held, NEW n \in Nat \ {0}, RangeRefusal(ptr, n) = "ok"
  PROVE  /\ memory[ptr.alloc].value \in Array /\ ptr.path[1] \in Nat
         /\ \A i \in 0..(n - 1) :
              memory[ptr.alloc].value.elems[ptr.path[1] + i] \in Val \cup {Uninit}
<1> DEFINE v == memory[ptr.alloc].value
           k == ptr.path[1]
<1>1. /\ ptr.path # <<>> /\ v # Uninit /\ \A p \in Span(ptr, n) : Reaches(v, p)
  BY DEF RangeRefusal
<1>2. v \in Array
  BY <1>1, HeldIs DEF ValuesIn
<1>3. k \in Nat
  BY <1>1, HeldIs, PathsAre
<1> HIDE DEF v
<1>4. ASSUME NEW i \in 0..(n - 1)
      PROVE  v.elems[k + i] \in Val \cup {Uninit}
  <2>1. k + i \in k..(k + n - 1)
    BY <1>3
  <2>2. Reaches(v, <<k + i>>)
    BY <1>1, <2>1 DEF Span
  <2>3. k + i \in DOMAIN v.elems
    <3>1. <<k + i>> # <<>> /\ <<k + i>>[1] = k + i
      OBVIOUS
    <3> QED BY <2>2, <3>1 DEF Reaches
  <2>4. v.elems \in [DOMAIN v.elems -> Val \cup {Uninit}]
    BY <1>2, ArrayIs
  <2> QED BY <2>3, <2>4
<1> QED BY <1>2, <1>3, <1>4 DEF v

\* A range written, judged on the tree B and L.
LEMMA RangeWriteSound ==
  ASSUME TreeInv, ValuesIn(memory), memory = [a \in DOMAIN memory |-> memory[a]],
         NEW B, NEW L, Rooting(B, L), SameNodes(borrow_nodes, B),
         NEW ptr \in Held, NEW n \in Nat \ {0}, RangeWriteRefusal(B, ptr, n) = "ok",
         NEW D, D \subseteq 0..(n - 1), NEW E, E \in [D -> Val \cup {Uninit}],
         SetTree(Accessed([nodes |-> B, lists |-> L], ptr.alloc, ptr.tag, Span(ptr, n), "Write")),
         memory' = Landed(ptr, E)
  PROVE  WInv' /\ OneChain
<1> DEFINE old == memory[ptr.alloc].value
           k == ptr.path[1]
           new == [old EXCEPT !.elems =
                     [i \in DOMAIN @ |-> IF i - k \in DOMAIN E THEN E[i - k] ELSE @[i]]]
<1>1. RangeRefusal(ptr, n) = "ok" /\ Permits(B, ptr.alloc, ptr.tag, "Write") = "ok"
  BY DEF RangeWriteRefusal, First
<1>2. old \in Array /\ k \in Nat
  BY <1>1, RangeIs
<1>3. new \in Array /\ SameOutside(old, new, {<<i>> : i \in k..(k + n - 1)})
  <2> HIDE DEF old, k
  <2> QED BY <1>2, LandedShows
<1>4. memory' = [memory EXCEPT ![ptr.alloc].value = new]
  BY DEF Landed
<1>5. ptr.alloc \in DOMAIN memory /\ Speaks(B, ptr.alloc, ptr.tag)
  <2>1. ptr.alloc \in DOMAIN memory /\ Speaks(borrow_nodes, ptr.alloc, ptr.tag)
    BY HeldIs
  <2> QED BY <2>1 DEF Speaks, SameNodes
<1>6. SameOutside(memory[ptr.alloc].value, new, Span(ptr, n))
  BY <1>3 DEF Span
<1> HIDE DEF new
<1> QED BY <1>1, <1>3, <1>4, <1>5, <1>6, WriteSound

\* The host's read writes a part of the range it has asked for.
LEMMA HostReadSound ==
  ASSUME MInv, WInv, NEW ptr \in Held, NEW n \in 1..Width, NEW got \in 0..n, NEW w \in Val,
         host_read(ptr, n, got, w)
  PROVE  WInv' /\ OneChain
<1> DEFINE why == RangeWriteRefusal(borrow_nodes, ptr, n)
           E == [i \in 0..(got - 1) |-> w]
<1>0. /\ TreeInv /\ ValuesIn(memory) /\ Rooting(borrow_nodes, borrow_nodes_of)
      /\ memory = [a \in DOMAIN memory |-> memory[a]]
  BY Going DEF host_read
<1>1. IF why # "ok" THEN Stop(why)
      ELSE /\ memory' = Landed(ptr, E)
           /\ SetTree(Accessed([nodes |-> borrow_nodes, lists |-> borrow_nodes_of],
                               ptr.alloc, ptr.tag, Span(ptr, n), "Write"))
  BY DEF host_read, aliasing_access, Tree
<1>2. n \in Nat \ {0} /\ 0..(got - 1) \subseteq 0..(n - 1)
  BY MemoryAssumption
<1>3. E \in [0..(got - 1) -> Val \cup {Uninit}] /\ SameNodes(borrow_nodes, borrow_nodes)
  BY DEF SameNodes
<1> HIDE DEF E
<1>4. CASE why # "ok"
  <2> HIDE DEF why
  <2> QED BY <1>1, <1>4, StopSound
<1>5. CASE why = "ok"
  BY <1>0, <1>1, <1>2, <1>3, <1>5, RangeWriteSound
<1> QED BY <1>4, <1>5

\* copy: the write is judged on the tree that its read has left.
LEMMA CopySound ==
  ASSUME MInv, WInv, NEW src \in Held, NEW dst \in Held, NEW n \in 1..Width,
         builtin_copy(src, dst, n)
  PROVE  WInv' /\ OneChain
<1> DEFINE after == Accessed(Tree, src.alloc, src.tag, Span(src, n), "Read")
           why == First(RangeRefusal(src, n),
                  First(Permits(borrow_nodes, src.alloc, src.tag, "Read"),
                        RangeWriteRefusal(after.nodes, dst, n)))
           E == Elements(src, n)
<1>0. /\ TreeInv /\ ValuesIn(memory) /\ Rooting(borrow_nodes, borrow_nodes_of)
      /\ memory = [a \in DOMAIN memory |-> memory[a]]
  BY Going DEF builtin_copy
<1>1. IF why # "ok" THEN Stop(why)
      ELSE /\ memory' = Landed(dst, E)
           /\ SetTree(Accessed(after, dst.alloc, dst.tag, Span(dst, n), "Write"))
  BY DEF builtin_copy
<1>2. n \in Nat \ {0} /\ 0..(n - 1) \subseteq 0..(n - 1)
  BY MemoryAssumption
<1>3. after = [nodes |-> after.nodes, lists |-> after.lists]
  BY DEF Accessed, Tree
<1>4. Rooting(after.nodes, after.lists) /\ SameNodes(borrow_nodes, after.nodes)
  <2>1. "Read" \in Access /\ Speaks(borrow_nodes, src.alloc, src.tag)
    BY HeldIs DEF Access
  <2> QED BY <1>0, <2>1, AccessedKeeps DEF Tree
<1>5. CASE why # "ok"
  <2> HIDE DEF why
  <2> QED BY <1>1, <1>5, StopSound
<1>6. CASE why = "ok"
  <2>1. RangeRefusal(src, n) = "ok" /\ RangeWriteRefusal(after.nodes, dst, n) = "ok"
    BY <1>6 DEF First
  <2>2. E \in [0..(n - 1) -> Val \cup {Uninit}]
    BY <1>0, <1>2, <2>1, RangeIs DEF Elements
  <2> HIDE DEF E
  <2>3. /\ memory' = Landed(dst, E)
        /\ SetTree(Accessed([nodes |-> after.nodes, lists |-> after.lists],
                            dst.alloc, dst.tag, Span(dst, n), "Write"))
    BY <1>1, <1>3, <1>6
  <2> HIDE DEF after
  <2> QED BY <1>0, <1>2, <1>4, <2>1, <2>2, <2>3, RangeWriteSound
<1> QED BY <1>5, <1>6
-----------------------------------------------------------------------------
(* Borrows.                                                                 *)

\* A leaf prolongs the line of its parent.
LEMMA LinesAppend ==
  ASSUME NEW N \in Seq(BorrowNode), AboveIn(N), LinesIn(N), NEW node \in BorrowNode,
         \/ node.above = {}
         \/ \E p \in DOMAIN N : /\ node.above = N[p].above \cup {p}
                                /\ node.mutable => N[p].mutable
  PROVE  LinesIn(Append(N, node))
<1> DEFINE M == Append(N, node)
<1>1. /\ DOMAIN M = 1..(Len(N) + 1) /\ DOMAIN N = 1..Len(N) /\ Len(N) \in Nat
      /\ M[Len(N) + 1] = node /\ \A t \in DOMAIN N : M[t] = N[t]
  BY AppendShape
<1>2. \A t \in DOMAIN N : \A s \in N[t].above : s \in DOMAIN N
  BY <1>1 DEF AboveIn
<1>3. DOMAIN M = DOMAIN N \cup {Len(N) + 1}
  BY <1>1
<1> HIDE DEF M
<1>4. ASSUME NEW t \in DOMAIN N
      PROVE  /\ \A r, s \in M[t].above : r = s \/ r \in M[s].above \/ s \in M[r].above
             /\ M[t].mutable => \A s \in M[t].above : M[s].mutable
  BY <1>1, <1>2 DEF LinesIn
<1>5. /\ \A r, s \in node.above : r = s \/ r \in M[s].above \/ s \in M[r].above
      /\ node.mutable => \A s \in node.above : M[s].mutable
  <2>1. CASE node.above = {}
    BY <2>1
  <2>2. CASE \E p \in DOMAIN N : /\ node.above = N[p].above \cup {p}
                                 /\ node.mutable => N[p].mutable
    BY <1>1, <1>2, <2>2 DEF LinesIn
  <2> QED BY <2>1, <2>2
<1> QED BY <1>1, <1>3, <1>4, <1>5 DEF LinesIn, M

\* A reborrow, below a node its own access has let stand.
LEMMA BelowLines ==
  ASSUME TreeInv, verdict = "ok", NEW parent \in Minted, NEW path \in Path,
         NEW mutable \in BOOLEAN, MintBelow(parent, path, mutable), verdict' = "ok"
  PROVE  LinesIn(borrow_nodes') /\ TreeIn(borrow_nodes', borrow_nodes_of', borrow_roots')
         /\ borrow_roots' = borrow_roots
<1> DEFINE access == IF mutable THEN "Write" ELSE "Read"
           alloc == borrow_nodes[parent].alloc
           T == Touch(parent, {path}, access)
           N == T.nodes
           node == NewNode(alloc, parent, path, mutable)
<1>0. IInv
  BY DEF IInv, TreeInv, Rooting
<1>1. IInv'
  BY <1>0, MintBelowKeeps
<1>2. borrow_nodes' = Append(N, node) /\ Judge(borrow_nodes[parent], access) = "ok"
  BY DEF MintBelow
<1>3. TouchCase(borrow_nodes, borrow_nodes_of, borrow_roots, parent, access)
  BY DEF TouchCase, TreeInv, Rooting, Minted, Access
<1>4. T = Touched(borrow_nodes, borrow_nodes_of, parent, {path}, access)
  BY TouchIs
<1>5. /\ borrow_nodes \in Seq(BorrowNode) /\ LinesIn(borrow_nodes) /\ AboveIn(borrow_nodes)
      /\ StoryIn(borrow_nodes)
  BY DEF TreeInv, Rooting, TreeIn, TypeIn
<1>b. borrow_nodes[parent] \in BorrowNode /\ parent \in Tag /\ parent \in DOMAIN borrow_nodes
  <2>1. parent \in DOMAIN borrow_nodes /\ Len(borrow_nodes) <= MaxNodes
    BY DEF Minted, TreeInv, Rooting, TreeIn, TypeIn
  <2> QED BY <1>5, <2>1, NodesTyped, MaxNodesAssumption DEF Tag
<1>6. /\ node \in BorrowNode /\ node.mutable = mutable
      /\ node.above = borrow_nodes[parent].above \cup {parent}
  BY <1>b DEF NewNode, BorrowNode, NodeState
<1> HIDE DEF node
<1>7. mutable => borrow_nodes[parent].mutable
  BY <1>2, <1>5, <1>b DEF Judge, StoryIn, BorrowNode, NodeState
<1>8. /\ N \in Seq(BorrowNode) /\ DOMAIN N = DOMAIN borrow_nodes
      /\ \A t \in DOMAIN borrow_nodes :
           N[t] = IF t \in ReachedIn(borrow_nodes, parent, {path}, access)
                    THEN React(borrow_nodes[t], access) ELSE borrow_nodes[t]
  <2> HIDE DEF access, T
  <2> QED BY <1>3, <1>4, TouchedNodes
<1>9. AboveIn(N)
  <2> HIDE DEF access, T
  <2> QED BY <1>3, <1>4, TouchedKeeps DEF TreeIn
<1>10. SameNodes(borrow_nodes, N)
  <2>1. \A t \in DOMAIN borrow_nodes : borrow_nodes[t] \in BorrowNode
    BY <1>5, NodesTyped
  <2>2. access \in Access
    BY DEF Access
  <2> HIDE DEF N, access
  <2> QED BY <1>8, <2>1, <2>2, ReactFields DEF SameNodes
<1> HIDE DEF N
<1>11. LinesIn(N)
  BY <1>5, <1>10, LinesKept
<1>12. LinesIn(Append(N, node))
  BY <1>6, <1>7, <1>8, <1>9, <1>10, <1>11, <1>b, LinesAppend DEF SameNodes
<1> QED BY <1>1, <1>2, <1>12 DEF IInv, MintBelow

\* The first borrow of an allocation brings the root with it.
LEMMA FirstLines ==
  ASSUME TreeInv, verdict = "ok", NEW alloc \in Alloc, NEW path \in Path,
         NEW mutable \in BOOLEAN, MintFirst(alloc, path, mutable)
  PROVE  /\ LinesIn(borrow_nodes') /\ TreeIn(borrow_nodes', borrow_nodes_of', borrow_roots')
         /\ DOMAIN borrow_roots' = DOMAIN borrow_roots \cup {alloc}
<1> DEFINE root == Len(borrow_nodes) + 1
           N == Append(borrow_nodes, Root(alloc))
           node == [alloc |-> alloc, parent |-> root, above |-> {root},
                    path |-> path, state |-> IF mutable THEN "Unique" ELSE "Frozen",
                    invalidated |-> FALSE, mutable |-> mutable]
<1>0. IInv
  BY DEF IInv, TreeInv, Rooting
<1>1. IInv'
  BY <1>0, MintFirstKeeps
<1>2. /\ borrow_nodes' = Append(N, node)
      /\ DOMAIN borrow_roots' = DOMAIN borrow_roots \cup {alloc}
      /\ alloc \notin DOMAIN borrow_roots /\ root + 1 <= MaxNodes
  BY DEF MintFirst, NextTag, Rooted
<1>5. /\ borrow_nodes \in Seq(BorrowNode) /\ LinesIn(borrow_nodes) /\ AboveIn(borrow_nodes)
      /\ TreeIn(borrow_nodes, borrow_nodes_of, borrow_roots)
  BY DEF TreeInv, Rooting, TreeIn, TypeIn
<1>3. Root(alloc) \in BorrowNode /\ Root(alloc).above = {} /\ Root(alloc).mutable = TRUE
  BY PathAssumption DEF Root, BorrowNode, NodeState, NoParent
<1>4. /\ N \in Seq(BorrowNode) /\ DOMAIN N = 1..root /\ N[root] = Root(alloc)
      /\ root \in Nat /\ Len(borrow_nodes) \in Nat
  BY <1>3, <1>5, AppendShape
<1>6. LinesIn(N)
  BY <1>3, <1>5, LinesAppend
<1>7. AboveIn(N)
  <2>1. Len(borrow_nodes) + 1 <= MaxNodes
    BY <1>2, <1>4, MaxNodesAssumption
  <2>2. TreeIn(N, Filed(borrow_nodes_of, alloc, Len(borrow_nodes) + 1, TRUE),
               Rooted(borrow_roots, alloc, Len(borrow_nodes) + 1))
    BY <1>2, <1>5, <2>1, RootKeeps
  <2> QED BY <2>2 DEF TreeIn
<1>8. root \in Tag /\ root \in DOMAIN N
  BY <1>2, <1>4, MaxNodesAssumption DEF Tag
<1> HIDE DEF N, root
<1>9. node \in BorrowNode /\ node.above = {root} /\ node.mutable = mutable
  BY <1>8 DEF BorrowNode, NodeState
<1> HIDE DEF node
<1>10. node.above = N[root].above \cup {root} /\ (node.mutable => N[root].mutable)
  BY <1>3, <1>4, <1>9
<1>11. LinesIn(Append(N, node))
  BY <1>4, <1>6, <1>7, <1>8, <1>9, <1>10, LinesAppend
<1> QED BY <1>1, <1>2, <1>11 DEF IInv

\* A borrow off a name or a pointer, in a memory that has its allocation.
LEMMA MintSound ==
  ASSUME TreeInv, verdict = "ok", NEW alloc \in Alloc, alloc \in DOMAIN memory', NEW path \in Path,
         NEW mutable \in BOOLEAN,
         \/ MintUntracked(alloc, path, mutable)
         \/ \E tag \in Minted : MintBelow(tag, path, mutable),
         DOMAIN memory \subseteq DOMAIN memory', ValuesIn(memory'),
         \A a \in DOMAIN memory : memory'[a] = memory[a]
  PROVE  WInv' /\ OneChain
<1>1. OneChain
  BY QuietStep
<1>2. ASSUME verdict' = "ok"
      PROVE  TreeInv'
  <2>1. CASE MintFirst(alloc, path, mutable)
    BY <2>1, FirstLines DEF TreeInv, Rooting
  <2>2. CASE \E tag \in Minted : MintBelow(tag, path, mutable)
    BY <1>2, <2>2, BelowLines DEF TreeInv, Rooting
  <2>3. CASE alloc \in DOMAIN borrow_roots /\ MintBelow(borrow_roots[alloc], path, mutable)
    <3>1. borrow_roots[alloc] \in Minted
      BY <2>3 DEF TreeInv, Rooting, TreeIn, OwnerIn, Minted
    <3> QED BY <2>2, <2>3, <3>1
  <2> QED BY <2>1, <2>2, <2>3 DEF MintUntracked
<1> QED BY <1>1, <1>2 DEF WInv

\* A borrow of a local's place.
LEMMA BorrowSound ==
  ASSUME MInv, WInv, NEW x \in Name, NEW path \in Path, NEW mutable \in BOOLEAN,
         Borrow(x, path, mutable)
  PROVE  WInv' /\ OneChain
<1>1. /\ TreeInv /\ verdict = "ok" /\ Running /\ Holds(x) /\ AllocOf(x) \in Alloc
      /\ MintUntracked(AllocOf(x), path, mutable) /\ memory' = PromotedMemory(x)
  BY Going DEF Borrow
<1>2. /\ DOMAIN memory \subseteq DOMAIN memory' /\ AllocOf(x) \in DOMAIN memory'
      /\ ValuesIn(memory')
      /\ \A a \in DOMAIN memory : memory'[a] = memory[a]
  BY <1>1, PromotedValues
<1> QED BY <1>1, <1>2, MintSound

\* A borrow through a pointer.
LEMMA ReborrowSound ==
  ASSUME MInv, WInv, NEW ptr \in Held, NEW mutable \in BOOLEAN, Reborrow(ptr, mutable)
  PROVE  WInv' /\ OneChain
<1> DEFINE why == Permits(borrow_nodes, ptr.alloc, ptr.tag,
                          IF mutable THEN "Write" ELSE "Read")
<1>1. TreeInv /\ ValuesIn(memory) /\ verdict = "ok"
  BY Going DEF Reborrow
<1>2. IF why # "ok" THEN Stop(why)
      ELSE /\ IF ptr.tag = NoTag THEN MintUntracked(ptr.alloc, ptr.path, mutable)
                                 ELSE MintBelow(ptr.tag, ptr.path, mutable)
           /\ memory' = memory
  BY DEF Reborrow
<1> HIDE DEF why
<1>3. CASE why # "ok"
  BY <1>2, <1>3, StopSound
<1>4. CASE why = "ok"
  <2>1. /\ ptr.alloc \in DOMAIN memory /\ ptr.alloc \in Alloc /\ ptr.path \in Path
        /\ ptr.tag # NoTag => ptr.tag \in Minted
    BY HeldIs DEF Speaks, Minted
  <2>2. /\ memory' = memory
        /\ \/ MintUntracked(ptr.alloc, ptr.path, mutable)
           \/ \E tag \in Minted : MintBelow(tag, ptr.path, mutable)
    BY <1>2, <1>4, <2>1
  <2> QED BY <1>1, <2>1, <2>2, MintSound
<1> QED BY <1>3, <1>4
-----------------------------------------------------------------------------
\* Nothing is allocated at first.
LEMMA InitSound == MInit => WInv
<1> SUFFICES ASSUME MInit PROVE WInv
  OBVIOUS
<1>1. Init /\ memory = <<>>
  BY DEF MInit
<1>2. IInv
  BY <1>1, InitIInv
<1>3. DOMAIN borrow_nodes = {} /\ DOMAIN borrow_roots = {} /\ DOMAIN memory = {}
  BY <1>1 DEF Init
<1> QED BY <1>2, <1>3 DEF WInv, TreeInv, Rooting, IInv, LinesIn, ValuesIn

\* Every step keeps the invariant and leaves one line where it writes.
LEMMA StepSound == MInv /\ WInv /\ MNext => WInv' /\ OneChain
<1> SUFFICES ASSUME MInv, WInv, MNext PROVE WInv' /\ OneChain
  OBVIOUS
<1>1. CASE ByName
  BY <1>1, LoadSound, StoreSound DEF ByName, Local
<1>2. CASE Through
  BY <1>2, LoadThroughSound, StoreThroughSound DEF Through
<1>3. CASE Addresses
  BY <1>3, AddrOfSound, BorrowSound, ReborrowSound, CellMintersSound DEF Addresses
<1>4. CASE Storage
  BY <1>4, MoveSound, StorageDeadSound DEF Storage
<1>5. CASE Calls
  BY <1>5, CallSound, ReturnSound DEF Calls
<1>6. CASE Builtins
  BY <1>6, CellMintersSound, DeallocArraySound, CopySound, HostReadSound DEF Builtins
<1> QED BY <1>1, <1>2, <1>3, <1>4, <1>5, <1>6 DEF MNext

\* Every write is judged: what a step changes is left to one line of exclusive
\* borrows, however it writes it (the name of a local, write_through, a move,
\* copy, the host's read).
THEOREM EveryWriteIsJudged == MSpec => WritesLeaveOneChain
<1>1. MInit => WInv
  BY InitSound
<1>2. MInv /\ WInv /\ [MNext]_mvars => WInv'
  <2>1. MInv /\ WInv /\ MNext => WInv'
    BY StepSound
  <2>2. WInv /\ UNCHANGED mvars => WInv'
    BY DEF WInv, TreeInv, Rooting, ValuesIn, mvars
  <2> QED BY <2>1, <2>2
<1>3. MInv /\ WInv /\ [MNext]_mvars => [OneChain]_mvars
  BY StepSound
<1>4. MSpec => [][OneChain]_mvars
  BY <1>1, <1>2, <1>3, MemoryInductive, PTL DEF MSpec
<1> QED BY <1>4 DEF WritesLeaveOneChain, OneChain
=============================================================================
