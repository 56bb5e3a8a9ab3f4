-------------------------------- MODULE Votes --------------------------------
(***************************************************************************)
(* The inference of one binding group, infer_group of                       *)
(* crates/hir/src/groups.rs: its bodies checked each in a table of its own, *)
(* callees first; their uses of a member unified with what is decided of    *)
(* it, all together if they agree, else by a vote a member (T11).  The      *)
(* group is inferred twice, its items in two orders.                        *)
(*                                                                         *)
(* Abstracted: a signature is Arity parts, each an atom, an error or a      *)
(* variable, so nothing occurs in itself, no region or safety is open and   *)
(* nothing is written; a body is what it says of its own parts and of each  *)
(* mention's, in order, a contradiction leaving the part as it was.  What   *)
(* is said of the losers is left out.                                       *)
(***************************************************************************)
EXTENDS Groups

CONSTANTS
  Atom,      \* the types a part may be
  IntAtom,   \* those a literal's number may be
  Error,     \* {error}
  Open,      \* what is known of a variable: nothing ...
  Number,    \* ... or that it is a literal's
  Arity,     \* the parts of a signature, the last one what it produces
  Libraries  \* the libraries inferred

ASSUME AtomAssumption == IntAtom \subseteq Atom /\ {Error, Open, Number} \cap Atom = {}
ASSUME ArityAssumption == Arity \in Nat \ {0}

Part == 1..Arity
Parts == [i \in Part |-> i]
Whole(term) == [i \in Part |-> term]
Produced == {Arity}

\* A variable of a table is its index.
Var == Nat
Term == Atom \cup {Error} \cup Var
Sig == [Part -> Term]

\* A body: the kinds of its own variables, what it says of its signature (if
\* unannotated) and of those it mentions, by item, its variables by index.
Mention == [item: Nat, sig: Sig]
Source == [typed: BOOLEAN, kinds: Seq({Open, Number}), own: Sig, mentions: Seq(Mention)]

ASSUME LibrariesAssumption == Libraries \subseteq Seq(Source)

VARIABLES
  library,   \* the items: a sequence of Source
  order,     \* the order they stand in: a permutation of their indices
  phase,     \* what infer_group does next
  members,   \* the group's members, positions in the order ...
  sources,   \* ... and the fully typed bodies that feed it
  cycles,    \* the cycles of calls still to check
  solver,    \* the Solver
  checked,   \* per body, its table and its copies, once checked
  outcomes   \* what the group came to, an order at a time

vars == <<library, order, phase, members, sources, cycles, solver, checked, outcomes>>
-----------------------------------------------------------------------------
(* Tables.                                                                  *)

IsVar(term) == term \notin Atom \cup {Error}

\* met says that the variable met an error, which left it unbound.
Entry(root, value) == [root |-> root, value |-> value, met |-> FALSE]
NewKey(table, kind) == Append(table, Entry(Len(table) + 1, kind))

Known(value) == value \notin {Open, Number}

resolve(table, term) ==
  IF ~IsVar(term) THEN term
  ELSE LET root == table[term].root
       IN  IF Known(table[root].value) THEN table[root].value ELSE root

union(table, a, b) ==
  LET kind == IF Number \in {table[a].value, table[b].value} THEN Number ELSE Open
  IN  [v \in DOMAIN table |->
         IF table[v].root \in {a, b}
           THEN [table[v] EXCEPT !.root = b, !.value = kind] ELSE table[v]]

union_value(table, v, value) ==
  [table EXCEPT ![table[v].root].value = value]

Unified(ok, table) == [ok |-> ok, table |-> table]

\* A variable an error meets stays unbound.
Bound(table, v, type) ==
  IF type = Error THEN Unified(TRUE, [table EXCEPT ![v].met = TRUE])
  ELSE IF table[v].value = Number /\ type \notin IntAtom THEN Unified(FALSE, table)
  ELSE Unified(TRUE, union_value(table, v, type))

Related(table, a, b) ==
  CASE IsVar(a) /\ IsVar(b) -> Unified(TRUE, IF a = b THEN table ELSE union(table, a, b))
    [] IsVar(a) /\ ~IsVar(b) -> Bound(table, a, b)
    [] IsVar(b) /\ ~IsVar(a) -> Bound(table, b, a)
    [] OTHER -> Unified(Error \in {a, b} \/ a = b, table)

\* Constraints::unify in a group.
unify(table, x, y) == Related(table, resolve(table, x), resolve(table, y))

\* In order, until one fails.
UnifyAll(table, pairs) ==
  FoldLeft(LAMBDA acc, pair : IF acc.ok THEN unify(acc.table, pair[1], pair[2]) ELSE acc,
           Unified(TRUE, table), pairs)

Pairs(sig, other) == [i \in Part |-> <<sig[i], other[i]>>]
UnifySig(table, sig, other) == UnifyAll(table, Pairs(sig, other))

ResolveSig(table, sig) == [i \in Part |-> resolve(table, sig[i])]
open_vars(table, sig) == {resolve(table, sig[i]) : i \in Part} \ (Atom \cup {Error})

\* A speculative unification, undone unless it succeeds.
Speculate(table, unified) == IF unified.ok THEN unified ELSE Unified(FALSE, table)

\* Each of uses with its member's decided signature, all of them or none.
agree(table, decided, uses) ==
  Speculate(table,
    FoldLeft(LAMBDA acc, u : IF acc.ok THEN UnifySig(acc.table, decided[u.m], u.sig) ELSE acc,
             Unified(TRUE, table), uses))
-----------------------------------------------------------------------------
(* One member's vote.                                                       *)

Use(b, m, sig, weight) == [b |-> b, m |-> m, sig |-> sig, weight |-> weight]

Loses(u) == <<u.b, u.m>>

\* What u makes of the member alone: it agrees, or votes, or abstains; key is
\* the signature it makes, open the variables it leaves in it.
Judged(u, holes, r, key, open) ==
  [use |-> u, agrees |-> r.ok, key |-> key, numbers |-> open,
   votes |-> /\ Error \notin {key[i] : i \in Part}
             /\ \A v \in open : r.table[v].value = Number,
   fills |-> [h \in holes |-> resolve(r.table, h)]]

Viewed(u, sig, holes, r) ==
  Judged(u, holes, r, ResolveSig(r.table, sig), open_vars(r.table, sig))

Alone(table, sig, u) ==
  Viewed(u, sig, open_vars(table, sig), UnifySig(table, sig, u.sig))

\* Two votes for one type, a literal's number matching any number type.
matches(table, a, b) ==
  IF a.numbers = {} /\ b.numbers = {} THEN a.key = b.key
  ELSE LET reset == FoldSet(LAMBDA v, t : union_value(t, v, Number), table,
                            a.numbers \cup b.numbers)
       IN  UnifySig(reset, a.key, b.key).ok

\* A use counts as often as its body mentions the member.
Weight(votes) == FoldLeft(LAMBDA sum, v : sum + v.use.weight, 0, votes)

\* Fill the holes with what one winner fills them with.
join(table, fills) ==
  UnifyAll(table, LET holes == Sorted(DOMAIN fills)
                  IN  [i \in DOMAIN holes |-> <<fills[holes[i]], holes[i]>>])

\* A vote with a number counts only where no vote without one matches it.
Candidates(table, votes) ==
  SelectSeq(votes, LAMBDA c : \/ c.numbers = {}
                              \/ \A i \in DOMAIN votes : \/ votes[i].numbers # {}
                                                         \/ ~matches(table, c, votes[i]))

\* The candidates with the most votes.
Heaviest(table, votes, candidates) ==
  LET weight(c) == Weight(SelectSeq(votes, LAMBDA v : matches(table, c, v)))
  IN  {c \in candidates : \A d \in candidates : weight(d) <= weight(c)}

Leaders(table, votes) == Heaviest(table, votes, ToSet(Candidates(table, votes)))

Plan(m, winners, agreeing) == [m |-> m, winners |-> winners, agreeing |-> agreeing]
Tie(lost) == [plans |-> <<>>, lost |-> lost]
Decides(plan, lost) == [plans |-> <<plan>>, lost |-> lost]

\* No use voted: they agree, or the member ties.
NoVote(table, decided, m, abstaining, lost) ==
  IF agree(table, decided, abstaining).ok
    THEN Decides(Plan(m, <<>>, abstaining), lost) ELSE Tie(lost)

\* The uses still to place, in the bodies' order, each folded in or lost.
Placed(acc, decided, u) ==
  LET fold(r) == IF r.ok THEN [acc EXCEPT !.table = r.table, !.agreeing = Append(@, u)]
                         ELSE [acc EXCEPT !.lost = @ \cup {Loses(u)}]
  IN  fold(agree(acc.table, decided, <<u>>))

FoldIn(table, decided, m, winners, rest, lost) ==
  LET decide(placed) == Decides(Plan(m, winners, placed.agreeing), placed.lost)
  IN  decide(FoldLeft(LAMBDA acc, u : Placed(acc, decided, u),
                      [table |-> table, agreeing |-> <<>>, lost |-> lost],
                      SortSeq(rest, LAMBDA u, v : u.b < v.b)))

\* A vote that won is elected if it agrees with the winners' join, taken.
Elected(acc, decided, v, won) ==
  LET place(r) == IF won /\ r.ok
                    THEN [acc EXCEPT !.table = r.table, !.winners = Append(@, v)]
                    ELSE [acc EXCEPT !.rest = Append(@, v.use)]
  IN  place(agree(acc.table, decided, <<v.use>>))

JoinAll(table, votes) ==
  FoldLeft(LAMBDA acc, v : IF acc.ok THEN join(acc.table, v.fills) ELSE acc,
           Unified(TRUE, table), votes)

\* The winners' join, and each winner's own use against it.
Elect(table, decided, m, votes, leaders, abstaining, lost) ==
  LET won(v) == \E l \in leaders : matches(table, l, v)
      among(taken) ==
        FoldLeft(LAMBDA acc, v : Elected(acc, decided, v, taken.ok /\ won(v)),
                 [table |-> taken.table, winners |-> <<>>, rest |-> abstaining], votes)
      decide(e) == IF e.winners = <<>> THEN Tie(lost)
                   ELSE FoldIn(e.table, decided, m, e.winners, e.rest, lost)
  IN  decide(among(JoinAll(table, SelectSeq(votes, won))))

Verdict(table, decided, m, votes, leaders, abstaining, lost) ==
  IF leaders = {} THEN NoVote(table, decided, m, abstaining, lost)
  ELSE IF \E l, k \in leaders : ~matches(table, l, k) THEN Tie(lost)
  ELSE Elect(table, decided, m, votes, leaders, abstaining, lost)

UsesIn(views) == [i \in DOMAIN views |-> views[i].use]

\* vote: against what is decided, leaving the table as it was.
Counted(table, decided, m, views) ==
  LET votes == SelectSeq(views, LAMBDA v : v.agrees /\ v.votes)
  IN  Verdict(table, decided, m, votes, Leaders(table, votes),
              UsesIn(SelectSeq(views, LAMBDA v : v.agrees /\ ~v.votes)),
              {Loses(v.use) : v \in {w \in ToSet(views) : ~w.agrees}})

vote(table, decided, m, uses) ==
  Counted(table, decided, m, [i \in DOMAIN uses |-> Alone(table, decided[m], uses[i])])
-----------------------------------------------------------------------------
(* All the members' votes together.                                         *)

UsesOf(plan) == [i \in DOMAIN plan.winners |-> plan.winners[i].use] \o plan.agreeing

\* Commit a plan's winners and the uses that agree with them.
apply(table, decided, plan) ==
  LET rest(joined) == IF joined.ok THEN agree(joined.table, decided, UsesOf(plan)) ELSE joined
  IN  rest(JoinAll(table, plan.winners))

apply_all(table, decided, plans) ==
  Speculate(table,
    FoldLeft(LAMBDA acc, p : IF acc.ok THEN apply(acc.table, decided, p) ELSE acc,
             Unified(TRUE, table), plans))

\* Mutant: each member's plan stands alone.
Unlinked(table, decided, plans) == {}

\* Plans that share an open variable.
Linked(table, decided, plans) ==
  LET open(p) == UNION {open_vars(table, sig) :
                          sig \in {u.sig : u \in ToSet(UsesOf(p))} \cup {decided[p.m]}}
  IN  {e \in (DOMAIN plans) \X (DOMAIN plans) : open(plans[e[1]]) \cap open(plans[e[2]]) # {}}

undecide(decided, ms) ==
  [m \in DOMAIN decided |-> IF m \in ms THEN Whole(Error) ELSE decided[m]]

\* The plans in order, linked ones standing or falling together: one that
\* cannot be applied leaves its members undecided.
Settled(s, plans, linked) ==
  LET settle(acc, group) ==
        LET committed(r) ==
              IF r.ok THEN [acc EXCEPT !.table = r.table]
              ELSE [acc EXCEPT !.decided = undecide(@, {plans[i].m : i \in group})]
        IN  committed(apply_all(acc.table, acc.decided,
                                LET at == Sorted(group) IN [i \in DOMAIN at |-> plans[at[i]]]))
  IN  FoldLeft(settle, s, SetToSortSeq({Closed(linked, {i}) : i \in DOMAIN plans},
                                       LAMBDA g, h : Min(g) < Min(h)))

\* Those with no plan are tied.
Decided(s, used, votes) ==
  LET tied == {used[i] : i \in {j \in DOMAIN used : votes[j].plans = <<>>}}
      from(start, plans) == Settled(start, plans, Linked(start.table, start.decided, plans))
  IN  from([s EXCEPT !.decided = undecide(@, tied),
                     !.lost = @ \cup UNION {votes[i].lost : i \in DOMAIN used}],
           FoldLeft(LAMBDA acc, v : acc \o v.plans, <<>>, votes))

\* unify_uses: the uses all agree, or each member they use votes against the
\* state before any vote.
unify_uses(s, uses) ==
  LET used == Sorted({uses[i].m : i \in DOMAIN uses})
      all(together) ==
        IF together.ok THEN [s EXCEPT !.table = together.table]
        ELSE Decided(s, used,
               [i \in DOMAIN used |->
                  vote(s.table, s.decided, used[i], SelectSeq(uses, LAMBDA u : u.m = used[i]))])
  IN  all(agree(s.table, s.decided, uses))
-----------------------------------------------------------------------------
(* One body's check.                                                        *)

Bodies == members \o sources
SourceOf(b) == library[order[Bodies[b]]]
IndexOf(item) == CHOOSE m \in DOMAIN members : order[members[m]] = item
Own(b) == IF b \in DOMAIN members THEN {b} ELSE {}
Mentions(b) == SourceOf(b).mentions
mentioned(b) ==
  Own(b) \cup {IndexOf(Mentions(b)[i].item) : i \in DOMAIN Mentions(b)}
weight(b, m) ==
  Cardinality({i \in DOMAIN Mentions(b) : IndexOf(Mentions(b)[i].item) = m})

\* Mutant: one variable per part.
MovedApart(from, at, sig) ==
  LET move(acc, i) ==
        LET term == resolve(from, sig[i])
            new  == NewKey(acc.table, from[term].value)
        IN  IF ~IsVar(term) THEN [acc EXCEPT !.sig[i] = term]
            ELSE [acc EXCEPT !.sig[i] = Len(new), !.table = new, !.vars = (term :> Len(new)) @@ @]
  IN  FoldLeft(move, [table |-> at.table, vars |-> at.vars, sig |-> sig], Parts)

\* A signature moved to another table, one variable per variable: at is the
\* table so far and the variable that each one moved became.
Moved(from, at, sig) ==
  LET move(acc, i) ==
        LET term == resolve(from, sig[i])
            new  == NewKey(acc.table, from[term].value)
        IN  CASE ~IsVar(term) -> [acc EXCEPT !.sig[i] = term]
              [] IsVar(term) /\ term \in DOMAIN acc.vars -> [acc EXCEPT !.sig[i] = acc.vars[term]]
              [] OTHER -> [acc EXCEPT !.sig[i] = Len(new), !.table = new,
                                      !.vars = (term :> Len(new)) @@ @]
  IN  FoldLeft(move, [table |-> at.table, vars |-> at.vars, sig |-> sig], Parts)

\* A signature of variables of its own.
Fresh(at) ==
  [at EXCEPT !.table = FoldLeft(LAMBDA t, i : NewKey(t, Open), @, Parts)]
  @@ [sig |-> [i \in Part |-> Len(at.table) + i]]

\* The copies a body checks against: its own and its cycle's fresh, the rest
\* instances of what is decided.
Copies(s, b, cycle) ==
  LET copy(acc, m) ==
        LET c == IF m \in Own(b) \cup cycle THEN Fresh(acc.at)
                 ELSE Moved(s.table, acc.at, s.decided[m])
        IN  [at |-> [table |-> c.table, vars |-> c.vars], copies |-> (m :> c.sig) @@ acc.copies]
  IN  FoldLeft(copy, [at |-> [table |-> <<>>, vars |-> <<>>], copies |-> <<>>],
               Sorted(mentioned(b)))

\* What the body says, a pair at a time, one that contradicts passed over.
Said(sig, base) == [i \in Part |-> IF IsVar(sig[i]) THEN base + sig[i] ELSE sig[i]]

Relate(t, p) ==
  LET keep(r) == IF r.ok THEN r.table ELSE t IN keep(unify(t, p[1], p[2]))

Checked(src, start, own) ==
  LET base  == Len(start.at.table)
      pairs == FoldLeft(LAMBDA acc, x :
                          acc \o Pairs(Said(x.sig, base), start.copies[IndexOf(x.item)]),
                        own, src.mentions)
  IN  [copies |-> start.copies,
       table  |-> FoldLeft(Relate, FoldLeft(NewKey, start.at.table, src.kinds), pairs)]

check(s, b, cycle) ==
  LET src == SourceOf(b)
      from(start) ==
        Checked(src, start,
                IF b \in DOMAIN members
                  THEN Pairs(Said(src.own, Len(start.at.table)), start.copies[b])
                  ELSE <<>>)
  IN  from(Copies(s, b, cycle))

\* export: a body's copies moved to the solver's table: its own, its uses of
\* its cycle (internal), the others (fills) and the variables that met an
\* error.
Exported(s, ctx, b, moved) ==
  LET errors == {resolve(ctx.table, v) : v \in {w \in DOMAIN ctx.table : ctx.table[w].met}}
      set(f, x) == [m \in DOMAIN f |-> IF m = b THEN x ELSE f[m]]
  IN  [s EXCEPT !.table = moved.at.table, !.own = set(@, moved.own),
                !.fills = @ \o moved.fills, !.internal = @ \o moved.internal,
                !.met = set(@, {moved.at.vars[v] : v \in errors \cap DOMAIN moved.at.vars})]

ExportStep(acc, ctx, b, cycle, m) ==
  LET use(next, u) == IF m \in cycle THEN [next EXCEPT !.internal = Append(@, u)]
                      ELSE [next EXCEPT !.fills = Append(@, u)]
      with(c) == IF m \in Own(b)
                   THEN [acc EXCEPT !.at = [table |-> c.table, vars |-> c.vars], !.own = c.sig]
                 ELSE use([acc EXCEPT !.at = [table |-> c.table, vars |-> c.vars]],
                          Use(b, m, c.sig, weight(b, m)))
  IN  with(Moved(ctx.table, acc.at, ctx.copies[m]))

export(s, ctx, b, cycle) ==
  Exported(s, ctx, b,
    FoldLeft(LAMBDA acc, m : ExportStep(acc, ctx, b, cycle, m),
             [at |-> [table |-> s.table, vars |-> <<>>], own |-> Whole(Error),
              internal |-> <<>>, fills |-> <<>>], Sorted(mentioned(b))))

\* check and export each of bodies.
CheckAll(bodies, cycle) ==
  LET with(acc, b, ctx) == [solver |-> export(acc.solver, ctx, b, cycle),
                            ctxs   |-> (b :> ctx) @@ acc.ctxs]
  IN  FoldLeft(LAMBDA acc, b : with(acc, b, check(acc.solver, b, cycle)),
               [solver |-> solver, ctxs |-> checked], bodies)
-----------------------------------------------------------------------------
(* infer_group.                                                             *)

Refs ==
  [p \in DOMAIN order |->
     LET mentions == library[order[p]].mentions
     IN  {q \in DOMAIN order : \E i \in DOMAIN mentions : mentions[i].item = order[q]}]
Typed == {p \in DOMAIN order : library[order[p]].typed}

EmptySolver(n) ==
  [table |-> <<>>, own |-> [m \in 1..n |-> Whole(Error)],
   decided |-> [m \in 1..n |-> Whole(Error)], met |-> [m \in 1..n |-> {}],
   fills |-> <<>>, internal |-> <<>>, lost |-> {}]

Init ==
  /\ library \in Libraries
  /\ order = [i \in DOMAIN library |-> i]
  /\ phase = "partition"
  /\ members = <<>> /\ sources = <<>> /\ cycles = <<>>
  /\ solver = EmptySolver(0) /\ checked = <<>>
  /\ outcomes = <<>>

\* The calls between members: their mentions of others.
Calls(group) ==
  [m \in DOMAIN group |->
     SetToSortSeq({n \in DOMAIN group \ {m} : group[n] \in Refs[group[m]]}, <)]

\* A group; the second time, of the items it had the first.
Partition ==
  /\ phase = "partition"
  /\ \E group \in ToSet(inference_groups(Refs, Typed)) :
       /\ outcomes # <<>> =>
            {order[p] : p \in ToSet(group)} = DOMAIN outcomes[1].signatures
       /\ members' = group
       /\ sources' = SourcesOf(Refs, Typed, group)
       /\ cycles' = call_cycles(Calls(group))
       /\ solver' = EmptySolver(Len(group))
  /\ phase' = "members"
  /\ checked' = <<>>
  /\ UNCHANGED <<library, order, outcomes>>

TakeInternal(s) == [unify_uses(s, s.internal) EXCEPT !.internal = <<>>]

\* A cycle of calls: its bodies, then their uses of each other.
CheckCycle ==
  /\ phase = "members" /\ cycles # <<>>
  /\ \E all \in {CheckAll(Head(cycles), ToSet(Head(cycles)))} :
       /\ solver' = TakeInternal([all.solver EXCEPT !.decided =
                       [m \in DOMAIN members |-> IF m \in ToSet(Head(cycles))
                                                 THEN all.solver.own[m] ELSE @[m]]])
       /\ checked' = all.ctxs
  /\ cycles' = Tail(cycles)
  /\ UNCHANGED <<library, order, phase, members, sources, outcomes>>

\* The errors the members' bodies met, where what they produce is open.
Poisoned(s) ==
  LET poison(t, m) ==
        LET produced == {resolve(t, s.decided[m][i]) : i \in Produced}
        IN  FoldSet(LAMBDA v, u : IF resolve(u, v) \in Var /\ resolve(t, v) \in produced
                                    THEN union_value(u, v, Error) ELSE u, t, s.met[m])
  IN  [s EXCEPT !.table = FoldLeft(poison, @, [m \in DOMAIN members |-> m])]

\* By body, not in the order their bodies were checked in.
TakeFills(s) ==
  LET before(u, v) == u.b < v.b \/ (u.b = v.b /\ u.m < v.m)
  IN  [unify_uses(s, SortSeq(s.fills, before)) EXCEPT !.fills = <<>>]

\* The members' uses of those decided before them, together.
MemberFills ==
  /\ phase = "members" /\ cycles = <<>>
  /\ solver' = Poisoned(TakeFills(solver))
  /\ phase' = "sources"
  /\ UNCHANGED <<library, order, members, sources, cycles, checked, outcomes>>

\* The fully typed bodies, then their fills.
CheckSources ==
  /\ phase = "sources"
  /\ \E all \in {CheckAll([i \in DOMAIN sources |-> Len(members) + i], {})} :
       solver' = TakeFills(all.solver) /\ checked' = all.ctxs
  /\ phase' = "publish"
  /\ UNCHANGED <<library, order, members, sources, cycles, outcomes>>

\* What no body determined is {error}.
Published(m) ==
  [i \in Part |-> LET term == resolve(solver.table, solver.decided[m][i])
                  IN  IF IsVar(term) THEN Error ELSE term]

Item(b) == order[Bodies[b]]
Outcome ==
  [signatures |-> [x \in {Item(m) : m \in DOMAIN members} |-> Published(IndexOf(x))],
   lost       |-> {<<Item(l[1]), Item(l[2])>> : l \in solver.lost}]

Swapped(i) == [order EXCEPT ![i] = order[i + 1], ![i + 1] = order[i]]

\* Published, and inferred again with two neighbours the other way around.
Publish ==
  /\ phase = "publish"
  /\ outcomes' = Append(outcomes, Outcome)
  /\ IF outcomes = <<>>
       THEN phase' = "partition" /\ \E i \in 1..(Len(order) - 1) : order' = Swapped(i)
       ELSE phase' = "done" /\ order' = order
  /\ UNCHANGED <<library, members, sources, cycles, solver, checked>>

Next == Partition \/ CheckCycle \/ MemberFills \/ CheckSources \/ Publish

Spec == Init /\ [][Next]_vars
-----------------------------------------------------------------------------
\* The groups are the components of the mentions, and the cycles of calls are
\* the calls', callees first: the instance a body checks against is decided.
GroupsAreComponents ==
  /\ phase = "partition" =>
       AreComponents(inference_groups(Refs, Typed), Refs, Typed)
  /\ phase = "members" /\ checked = <<>> => CalleesFirst(cycles, Calls(members))

\* The published signature fits every body that did not lose its use: all
\* the body's copies together (the assertion at the end of infer_group).
CopiesFitTheDecision ==
  phase = "publish" =>
    \A b \in DOMAIN Bodies :
      LET ctx  == checked[b]
          seen == Sorted(mentioned(b) \ (Own(b) \cup {l[2] : l \in {k \in solver.lost : k[1] = b}}))
          own(table) ==
            IF Own(b) = {} THEN Unified(TRUE, table)
            ELSE LET c == Moved(solver.table, [table |-> table, vars |-> <<>>], solver.decided[b])
                 IN  UnifySig(c.table, ctx.copies[b], c.sig)
      IN  FoldLeft(LAMBDA acc, m :
                     IF acc.ok THEN UnifySig(acc.table, ctx.copies[m], Published(m)) ELSE acc,
                   own(ctx.table), seen).ok

\* The order of the items decides nothing.
OrderDecidesNothing == Len(outcomes) = 2 => outcomes[1] = outcomes[2]

Literals == \E x \in ToSet(library) : Number \in ToSet(x.kinds)

\* ... where no number is a literal's.
OrderDecidesNothingWithoutLiterals == Literals \/ OrderDecidesNothing
=============================================================================
