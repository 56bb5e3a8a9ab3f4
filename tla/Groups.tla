-------------------------------- MODULE Groups --------------------------------
(***************************************************************************)
(* Which items are inferred together: the partition of a library's          *)
(* unannotated items into binding groups, and the cycles of calls within    *)
(* one, callees first (crates/hir/src/groups.rs).                           *)
(*                                                                         *)
(* An item is its index in the library; a graph is the sequence, per item,  *)
(* of the items it has edges to, in order.                                  *)
(***************************************************************************)
EXTENDS Integers, Sequences, FiniteSets, SequencesExt, FiniteSetsExt

Sorted(set) == SetToSortSeq(set, <)
-----------------------------------------------------------------------------
(* Tarjan's algorithm.                                                      *)

NotVisited == -1

Unvisited(edges) ==
  [index |-> [n \in DOMAIN edges |-> NotVisited], low |-> [n \in DOMAIN edges |-> 0],
   stack |-> <<>>, next_index |-> 0, groups |-> <<>>]

on_stack(s, node) == node \in ToSet(s.stack)

Lower(s, node, to) == IF to < s.low[node] THEN [s EXCEPT !.low[node] = to] ELSE s

Entered(s, node) ==
  [s EXCEPT !.index[node] = s.next_index, !.low[node] = s.next_index,
            !.next_index = @ + 1, !.stack = Append(@, node)]

\* Off the stack down to the node that nothing below it reaches over.
Popped(s, node) ==
  LET from == CHOOSE i \in DOMAIN s.stack : s.stack[i] = node
  IN  [s EXCEPT !.stack = SubSeq(@, 1, from - 1),
                !.groups = Append(@, Sorted(ToSet(SubSeq(s.stack, from, Len(s.stack)))))]

\* Mutant: a successor already in a group lowers too.
LowersFinished(s, node, succ) == Lower(s, node, s.index[succ])

\* A successor visited before counts only while it is on the stack.
LowersVisited(s, node, succ) ==
  IF on_stack(s, succ) THEN Lower(s, node, s.index[succ]) ELSE s

RECURSIVE visit(_, _, _)
visit(edges, s, node) ==
  LET scan(acc, succ) ==
        IF acc.index[succ] = NotVisited
          THEN LET after == visit(edges, acc, succ)
               IN  Lower(after, node, after.low[succ])
          ELSE LowersVisited(acc, node, succ)
      done == FoldLeft(scan, Entered(s, node), edges[node])
  IN  IF done.low[node] = done.index[node] THEN Popped(done, node) ELSE done

\* The strongly connected components of the included nodes, each sorted, one
\* only after everything it reaches.
Tarjan(edges, include) ==
  LET from(s, node) ==
        IF node \in include /\ s.index[node] = NotVisited THEN visit(edges, s, node) ELSE s
  IN  FoldLeft(from, Unvisited(edges), [i \in 1..Len(edges) |-> i]).groups
-----------------------------------------------------------------------------
(* Groups.  refs: per item, the unannotated items its body mentions; typed: *)
(* the items with a whole signature, whose bodies only feed groups.         *)

Inferrable(refs, typed) == DOMAIN refs \ typed

\* What one fully typed body mentions joins one group, each with the next.
Windows(set) ==
  LET s == Sorted(set) IN {<<s[i], s[i + 1]>> : i \in 1..(Len(s) - 1)}

\* Mutant: only callers pull their callees in.
OneWay(refs, typed) ==
  [n \in DOMAIN refs |-> IF n \in typed THEN <<>> ELSE Sorted(refs[n])]

\* Every reference in both directions.
biedges(refs, typed) ==
  LET linked == UNION {Windows(refs[n]) : n \in typed}
      to(n) == (IF n \in typed THEN {} ELSE refs[n])
               \cup {m \in Inferrable(refs, typed) : n \in refs[m]}
               \cup {m \in DOMAIN refs : <<n, m>> \in linked \/ <<m, n>> \in linked}
  IN  [n \in DOMAIN refs |-> IF n \in typed THEN <<>> ELSE Sorted(to(n))]

inference_groups(refs, typed) ==
  Tarjan(biedges(refs, typed), Inferrable(refs, typed))

\* The fully typed bodies that feed a group: any of their references tells.
SourcesOf(refs, typed, members) ==
  Sorted({n \in typed : refs[n] # {} /\ refs[n] \subseteq ToSet(members)})

\* Within a group, by the members' positions: callees before their callers.
call_cycles(calls) == Tarjan(calls, DOMAIN calls)
-----------------------------------------------------------------------------
(* What a grouping is for.                                                  *)

RECURSIVE Closed(_, _)
Closed(steps, set) ==
  LET more == set \cup {e[2] : e \in {f \in steps : f[1] \in set}}
  IN  IF more = set THEN set ELSE Closed(steps, more)

\* Two unannotated items share a group if and only if a chain of mentions,
\* followed either way, or of bodies mentioning both, joins them.
AreComponents(groups, refs, typed) ==
  LET related == {e \in (DOMAIN refs) \X (DOMAIN refs) :
                    /\ {e[1], e[2]} \subseteq Inferrable(refs, typed)
                    /\ \/ e[2] \in refs[e[1]] \/ e[1] \in refs[e[2]]
                       \/ \E n \in typed : {e[1], e[2]} \subseteq refs[n]}
  IN  /\ UNION {ToSet(groups[i]) : i \in DOMAIN groups} = Inferrable(refs, typed)
      /\ \A i \in DOMAIN groups : \A n \in ToSet(groups[i]) :
           ToSet(groups[i]) = Closed(related, {n})

\* The cycles are what calls itself through others, and none comes before one
\* that it calls.
CalleesFirst(cycles, calls) ==
  LET steps == {e \in (DOMAIN calls) \X (DOMAIN calls) : e[2] \in ToSet(calls[e[1]])}
      reach == [n \in DOMAIN calls |-> Closed(steps, {n})]
  IN  /\ {ToSet(cycles[i]) : i \in DOMAIN cycles} =
           {{m \in reach[n] : n \in reach[m]} : n \in DOMAIN calls}
      /\ \A i, j \in DOMAIN cycles :
           i < j => \A n \in ToSet(cycles[i]), m \in ToSet(cycles[j]) : m \notin ToSet(calls[n])
=============================================================================
