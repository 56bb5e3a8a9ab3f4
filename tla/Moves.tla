--------------------------------- MODULE Moves ---------------------------------
(***************************************************************************)
(* The move checker, crates/mir/src/moves.rs: what every local may hold at  *)
(* every point, forward to a fixpoint; one more pass that reports and notes *)
(* where the refused operations trap; and the body it lets run, trapped at  *)
(* those points (mir_trapped in lib.rs).                                    *)
(*                                                                         *)
(* Holds is a set of flags.  The code's `halted` is kept as its opposite,   *)
(* "running", because a join takes the union of every flag but `halted`,    *)
(* and the intersection of that one.                                        *)
(***************************************************************************)
EXTENDS Cfg

VARIABLES
  body,         \* the body checked
  tracked,      \* BodyCheck.tracked: what each local is checked for
  rpo,          \* BodyCheck.rpo: the blocks' order, once built
  entry,        \* per block, the state entering it, once it is reached
  work,         \* the blocks to walk
  before,       \* per block, the states its last walk saw, point by point
  cur,          \* the walk under way: block, point, state
  phase,        \* "fix", "report", then "run" until "stopped"
  diagnostics,  \* what is reported
  traps,        \* the points trapped
  at,           \* the running body: the next point
  conc          \* and what every local really holds

analysis == <<body, tracked, rpo, entry, before>>
vars == <<body, tracked, rpo, entry, work, before, cur, phase, diagnostics, traps, at, conc>>

Content == {"unassigned", "value", "moved"}
Flag == Content \cup {"running"}
Holds == SUBSET Flag
HALTED == {}
VALUE == {"value", "running"}
Just(content) == {content, "running"}
State == [Local -> Holds]
NoState == <<>>

\* Exactly one consumption owed, at most one read out, nothing, a compiler
\* temporary holding a linear value, and what is not tracked at all.
Tracked == {"once", "at_most_once", "nothing", "temporary", "untracked"}
Bindings == {"once", "at_most_once", "nothing"}

\* BodyCheck::new.
Track(b, l) ==
  LET data == b.data[l]
  IN  IF ~data.binding
        THEN IF l # b.ret /\ l \in for_each_read(b) /\ ~data.forget
               THEN "temporary" ELSE "untracked"
      ELSE IF data.materialized THEN "untracked"
      ELSE IF ~data.forget THEN "once"
      ELSE IF data.borrow THEN "nothing"
      ELSE IF ~data.copyable THEN "at_most_once"
      ELSE "nothing"

IsBinding(l) == tracked[l] \in Bindings

\* A parameter without a name is destructured by the first statements of a
\* body, unless lowering traps there (alloc_pat_slot_local, entry_traps).
ASSUME ParamsAssumption ==
  \A b \in Bodies :
    \A l \in b.params :
      LET code == b.code[b.entry]
          ReadAt(i) == /\ code[i].kind = "assign"
                       /\ \E r \in ReadsOf(code[i]) : r.how \in {"copy", "move"} /\ r.place.local = l
      IN  Track(b, l) = "temporary" =>
            \E i \in DOMAIN code :
              /\ ReadAt(i) \/ code[i].kind = "trap"
              /\ \A j \in 1..(i - 1) : ~(code[j].kind = "dead" /\ code[j].dest.local = l)

entry_state(b, kind) ==
  [l \in Local |-> IF l \in b.params THEN VALUE
                   ELSE IF kind[l] \in Bindings THEN Just("unassigned")
                   ELSE {"running"}]
-----------------------------------------------------------------------------
(* One point's effect on a state.                                           *)

\* Whether an operand takes l's value: a whole-local read of a value that
\* cannot be duplicated; a temporary's goes wherever it is read.
takes(read, l) ==
  /\ read.place.local = l
  /\ read.how \in {"copy", "move"}
  /\ \/ tracked[l] = "temporary"
     \/ /\ IsBinding(l)
        /\ read.place.proj = <<>>
        /\ read.how = "move" \/ tracked[l] \in {"once", "at_most_once"}

TakenBy(reads, l) == \E i \in DOMAIN reads : takes(reads[i], l)

\* An instruction computed from a local a trap halted is halted itself.
ReadsHalted(instr, state) ==
  /\ has_trap(body)
  /\ instr.kind \in {"assign", "call"}
  /\ \E r \in ReadsOf(instr) :
       /\ r.how \in {"copy", "move"}
       /\ r.place.proj = <<>>
       /\ "running" \notin state[r.place.local]

step(instr, state) ==
  [l \in Local |->
     LET read == IF TakenBy(instr.reads, l) THEN Just("moved") ELSE state[l]
     IN  IF instr.kind = "trap" /\ (IsDef(instr, l) \/ (instr.blamed = l /\ IsBinding(l)))
           THEN HALTED
         ELSE IF IsDef(instr, l)
           THEN IF ReadsHalted(instr, state) THEN HALTED
                ELSE IF tracked[l] = "untracked" THEN read \cup {"running"}
                ELSE VALUE
         ELSE IF instr.kind = "dead" /\ instr.dest.local = l /\ tracked[l] # "untracked"
           THEN Just("unassigned")
         ELSE read]

\* Mutant: a join keeps what the block was entered with first.
JoinFirst(old, more) == IF old = NoState THEN more ELSE old

\* Mutant: what one path halts is halted.
JoinHalted(old, more) ==
  IF old = NoState THEN more
  ELSE [l \in Local |-> (old[l] \cup more[l]) \ ({"running"} \ (old[l] \cap more[l]))]

join(old, more) ==
  IF old = NoState THEN more ELSE [l \in Local |-> old[l] \cup more[l]]
-----------------------------------------------------------------------------
(* Walking back, for the sites a report names.                              *)

\* What a point does to l, read off step from a state that holds anything.
effect(instr, l) ==
  LET any   == [m \in Local |-> IF m = l THEN Flag ELSE {"running"}]
      after == step(instr, any)[l]
  IN  IF after = Flag THEN "nothing"
      ELSE IF after = Just("moved") THEN "takes" ELSE "ends"

NoPoint == At(0, 0)

\* The first point back from `to` that is found, without walking past one
\* that refills, ends or halts l; round a loop's back edge only when asked.
walk_back(to, l, round_loops, found) ==
  LET \* back through one block, from point p
      scan[p \in [block: Block, index: Nat]] ==
        IF p.index = 0 THEN NoPoint
        ELSE IF p \in found THEN p
        ELSE IF effect(InstrAt(body, p), l) = "ends" THEN At(p.block, 0)
        ELSE scan[At(p.block, p.index - 1)]
      walk[s \in [seen: SUBSET Block, stack: Seq([block: Block, index: Nat])]] ==
        IF s.stack = <<>> THEN NoPoint
        ELSE LET from == s.stack[Len(s.stack)]
                 hit  == scan[from]
                 rest == SubSeq(s.stack, 1, Len(s.stack) - 1)
                 next == {k \in predecessors(body, from.block) \ s.seen :
                            /\ from.block \in DOMAIN rpo /\ k \in DOMAIN rpo
                            /\ round_loops \/ rpo[k] < rpo[from.block]}
                 more == CHOOSE q \in [1..Cardinality(next) -> next] :
                           \A i, j \in DOMAIN q : i < j => q[i] < q[j]
             IN  IF hit = NoPoint
                   THEN walk[[seen  |-> s.seen \cup next,
                              stack |-> rest \o [i \in DOMAIN more |->
                                          At(more[i], Len(body.code[more[i]]))]]]
                 ELSE IF hit.index = 0 THEN walk[[s EXCEPT !.stack = rest]]
                 ELSE hit
  IN  walk[[seen |-> {}, stack |-> <<At(to.block, to.index - 1)>>]]

\* Mutant: one walk, round the loops.
FindAnywhere(to, l, found) == [site |-> walk_back(to, l, TRUE, found), round |-> FALSE]

\* The nearest of `found` before `to`, and whether only a walk round a
\* loop's back edge finds one.
FindBack(to, l, found) ==
  LET forward == walk_back(to, l, FALSE, found)
  IN  IF forward # NoPoint THEN [site |-> forward, round |-> FALSE]
      ELSE [site |-> walk_back(to, l, TRUE, found), round |-> TRUE]

find_move(to, l) ==
  FindBack(to, l, {p \in Points(body) : effect(InstrAt(body, p), l) = "takes"})

\* Mutant: only writes a forward path leads from.
FillerForward(to, l) == walk_back(to, l, FALSE, defs_of(body, l))

\* The write that filled a temporary on a path to here.
Filler(to, l) == FindBack(to, l, defs_of(body, l)).site
-----------------------------------------------------------------------------
(* What a point reports.                                                    *)

Diag(kind, p, l, site, round) ==
  [kind |-> kind, at |-> p, local |-> l, site |-> site, round |-> round]

\* What the i-th read of a point finds in its local: what the reads before
\* it at the same point left.
FoundBy(instr, i, state, l) ==
  IF \E j \in 1..(i - 1) : takes(instr.reads[j], l) THEN Just("moved") ELSE state[l]

\* place_use: the root of a place must hold a value.
Used(p, l, holds, taken_here) ==
  IF ~IsBinding(l) THEN {}
  ELSE IF "unassigned" \in holds THEN {Diag("ReadUninit", p, l, p, FALSE)}
  ELSE IF "moved" \in holds
    THEN IF taken_here THEN {Diag("AlreadyConsumed", p, l, p, FALSE)}
         ELSE LET first == find_move(p, l)
              IN  {Diag("AlreadyConsumed", p, l, first.site, first.round)}
  ELSE {}

TakenAt(instr, i, l) == \E j \in 1..(i - 1) : takes(instr.reads[j], l)

\* Written into or through: the root must hold its value.
WriteDiags(p, instr, state) ==
  LET l == instr.dest.local
      n == Len(instr.reads) + 1
  IN  IF instr.kind = "assign" /\ instr.dest.proj # <<>>
        THEN Used(p, l, FoundBy(instr, n, state, l), TakenAt(instr, n, l))
        ELSE {}

ReadDiags(p, instr, state) ==
  UNION {LET l == instr.reads[i].place.local
         IN  Used(p, l, FoundBy(instr, i, state, l), TakenAt(instr, i, l))
         : i \in DOMAIN instr.reads}

\* A temporary abandoned with its value; nothing if nothing filled it.
abandoned(p, l) ==
  IF Filler(p, l) = NoPoint THEN {}
  ELSE {Diag("ValueNotConsumed", p, l, Filler(p, l), FALSE)}

\* A whole write over a linear that may still hold a value.
AssignDiags(p, instr, state) ==
  UNION {LET holds == FoundBy(instr, Len(instr.reads) + 1, state, l)
         IN  IF "value" \notin holds \/ ReadsHalted(instr, state) THEN {}
             ELSE IF tracked[l] = "once" /\ instr.user
               THEN {Diag("AssignOverLive", p, l, p, FALSE)}
             ELSE IF tracked[l] = "temporary" THEN abandoned(p, l)
             ELSE {}
         : l \in {m \in Local : IsDef(instr, m) /\ instr.kind # "trap"}}

\* storage_end: a linear still holding a value leaks.
EndDiags(p, instr, state) ==
  UNION {IF "value" \notin state[l] THEN {}
         ELSE IF tracked[l] = "once"
           THEN {Diag("NotConsumed", p, l, find_move(p, l).site, FALSE)}
         ELSE IF tracked[l] = "temporary" THEN abandoned(p, l)
         ELSE {}
         : l \in {m \in Local : \/ instr.kind = "return"
                                \/ instr.kind = "dead" /\ instr.dest.local = m}}

Reported(p, state) ==
  LET instr == InstrAt(body, p)
  IN  ReadDiags(p, instr, state) \cup WriteDiags(p, instr, state)
      \cup AssignDiags(p, instr, state) \cup EndDiags(p, instr, state)
-----------------------------------------------------------------------------
(* The two passes.                                                          *)

Idle == <<>>
Kinds(b) == [l \in Local |-> Track(b, l)]

Init ==
  /\ body \in Bodies
  /\ tracked = Kinds(body)
  /\ rpo = reverse_postorder(body)
  /\ entry = [k \in Block |->
                IF k = body.entry THEN entry_state(body, tracked) ELSE NoState]
  /\ work = {body.entry}
  /\ before = [k \in Block |-> <<>>]
  /\ cur = Idle
  /\ phase = "fix"
  /\ diagnostics = {}
  /\ traps = {}
  /\ at = NoPoint
  /\ conc = [l \in Local |-> IF l \in body.params THEN "value" ELSE "unassigned"]

\* The code pops the block pushed last; here any may be next.
Pop(k) ==
  /\ phase = "fix"
  /\ cur = Idle
  /\ k \in work
  /\ work' = work \ {k}
  /\ cur' = [block |-> k, index |-> 1, state |-> entry[k]]
  /\ before' = [before EXCEPT ![k] = <<>>]
  /\ UNCHANGED <<body, tracked, rpo, entry, phase, diagnostics, traps, at, conc>>

\* One point of the walk that is not the block's last.
Walk ==
  /\ phase = "fix"
  /\ cur # Idle
  /\ cur.index < Len(body.code[cur.block])
  /\ before' = [before EXCEPT ![cur.block] = Append(@, cur.state)]
  /\ cur' = [cur EXCEPT !.index = @ + 1,
                        !.state = step(body.code[cur.block][cur.index], @)]
  /\ UNCHANGED <<body, tracked, rpo, entry, work, phase, diagnostics, traps, at, conc>>

\* Mutant: every successor is walked again.
PushAll(succs, joined) == succs

\* The successors whose state the join changed.
Push(succs, joined) == {k \in succs : joined[k] # entry[k]}

\* The block's terminator, and the join into every successor.
Propagate ==
  /\ phase = "fix"
  /\ cur # Idle
  /\ cur.index = Len(body.code[cur.block])
  /\ LET out    == step(body.code[cur.block][cur.index], cur.state)
         succs  == successors(body, cur.block)
         joined == [k \in Block |->
                      IF k \in succs THEN join(entry[k], out) ELSE entry[k]]
     IN  /\ entry' = joined
         /\ work' = work \cup Push(succs, joined)
  /\ before' = [before EXCEPT ![cur.block] = Append(@, cur.state)]
  /\ cur' = Idle
  /\ UNCHANGED <<body, tracked, rpo, phase, diagnostics, traps, at, conc>>

Reached == {k \in Block : entry[k] # NoState}

\* The fixpoint is reached: walk every reached block once more.
BeginReport ==
  /\ phase = "fix"
  /\ cur = Idle
  /\ work = {}
  /\ phase' = "report"
  /\ work' = Reached
  /\ UNCHANGED <<body, tracked, rpo, entry, before, cur, diagnostics, traps, at, conc>>

\* The blocks in arena order.
Open(k) ==
  /\ phase = "report"
  /\ cur = Idle
  /\ k \in work
  /\ \A j \in work : k <= j
  /\ work' = work \ {k}
  /\ cur' = [block |-> k, index |-> 1, state |-> entry[k]]
  /\ UNCHANGED <<body, tracked, rpo, entry, before, phase, diagnostics, traps, at, conc>>

\* One point of the reporting pass: each refusal once, one trap per point.
Report ==
  /\ phase = "report"
  /\ cur # Idle
  /\ LET p == At(cur.block, cur.index)
         found == Reported(p, cur.state)
     IN  /\ diagnostics' = diagnostics \cup found
         /\ traps' = IF found = {} THEN traps ELSE traps \cup {p}
  /\ cur' = IF cur.index = Len(body.code[cur.block]) THEN Idle
            ELSE [cur EXCEPT !.index = @ + 1,
                             !.state = step(body.code[cur.block][cur.index], @)]
  /\ UNCHANGED <<body, tracked, rpo, entry, work, before, phase, at, conc>>

BeginRun ==
  /\ phase = "report"
  /\ cur = Idle
  /\ work = {}
  /\ phase' = "run"
  /\ at' = At(body.entry, 1)
  /\ UNCHANGED <<body, tracked, rpo, entry, work, before, cur, diagnostics, traps, conc>>
-----------------------------------------------------------------------------
(* The body runs: any branch may be taken; a trap stops it, a const trap     *)
(* only in a const context.                                                *)

\* Giving a binding away: the whole of it read as a move, or as a copy of
\* what may not be duplicated.  A temporary's value goes to its first reader.
Duplicable(data) == data.forget /\ (data.copyable \/ data.borrow)

Given(read, l) ==
  /\ read.place.local = l
  /\ read.how \in {"copy", "move"}
  /\ \/ ~body.data[l].binding
     \/ /\ read.place.proj = <<>>
        /\ read.how = "move" \/ ~Duplicable(body.data[l])

GivenBy(instr, l) == \E i \in DOMAIN instr.reads : Given(instr.reads[i], l)

Executed(instr) ==
  [l \in Local |->
     IF IsDef(instr, l) THEN "value"
     ELSE IF instr.kind = "dead" /\ instr.dest.local = l THEN "unassigned"
     ELSE IF GivenBy(instr, l) THEN "moved"
     ELSE conc[l]]

\* A trap, planted or lowering's, stops the body, and so does its end; a
\* const trap stops an item being forced and lets the runner's entry go on.
Stop ==
  /\ phase = "run"
  /\ at \in traps \/ InstrAt(body, at).kind \in {"trap", "const_trap", "return"}
  /\ phase' = "stopped"
  /\ UNCHANGED <<body, tracked, rpo, entry, work, before, cur, diagnostics, traps, at, conc>>

Execute ==
  /\ phase = "run"
  /\ at \notin traps
  /\ LET instr == InstrAt(body, at)
     IN  /\ IF instr.kind \in Statements THEN at' = At(at.block, at.index + 1)
            ELSE /\ instr.kind # "trap"
                 /\ \E k \in SuccsOf(instr) : at' = At(k, 1)
         /\ conc' = Executed(instr)
  /\ UNCHANGED <<body, tracked, rpo, entry, work, before, cur, phase, diagnostics, traps>>

Next ==
  \/ \E k \in Block : Pop(k) \/ Open(k)
  \/ Walk \/ Propagate \/ BeginReport \/ Report \/ BeginRun
  \/ Stop \/ Execute

Analyse == (\E k \in Block : Pop(k) \/ Open(k))
           \/ Walk \/ Propagate \/ BeginReport \/ Report \/ BeginRun

Spec == Init /\ [][Next]_vars
FairSpec == Spec /\ WF_vars(Analyse)
-----------------------------------------------------------------------------
(* Properties.                                                              *)

\* What the i-th read of the instruction at `at` really finds in l.
Found(instr, i, l) ==
  IF \E j \in 1..(i - 1) : Given(instr.reads[j], l) THEN "moved" ELSE conc[l]

Named(l) == body.data[l].binding /\ ~body.data[l].materialized

ReadsWhatIsThere(instr) ==
  \A i \in DOMAIN instr.reads :
    LET l == instr.reads[i].place.local
    IN  Named(l) => Found(instr, i, l) = "value"

WritesIntoWhatIsThere(instr) ==
  (instr.kind = "assign" /\ instr.dest.proj # <<>> /\ Named(instr.dest.local)) =>
    Found(instr, Len(instr.reads) + 1, instr.dest.local) = "value"

LosesNothing(instr) ==
  \A l \in Local :
    (Named(l) /\ ~body.data[l].forget) =>
      /\ (instr.kind = "dead" /\ instr.dest.local = l) => conc[l] # "value"
      /\ instr.kind = "return" => conc[l] # "value"
      /\ (instr.kind = "assign" /\ instr.user /\ IsDef(instr, l)) =>
           Found(instr, Len(instr.reads) + 1, l) # "value"

\* Whatever branches the body takes, a step that is let run reads no binding
\* that holds nothing, writes into none, and loses no value that must be
\* consumed (BodyCheck::run, step; the traps are mir_trapped's).
NoMisuse ==
  (phase = "run" /\ at \notin traps) =>
    LET instr == InstrAt(body, at)
    IN  ReadsWhatIsThere(instr) /\ WritesIntoWhatIsThere(instr) /\ LosesNothing(instr)

\* Nor is a linear value left in a temporary: the walk back from the end of
\* its storage always finds what filled it (abandoned, walk_back).
NoTemporaryLost ==
  (phase = "run" /\ at \notin traps) =>
    LET instr == InstrAt(body, at)
    IN  \A l \in Local :
          (tracked[l] = "temporary"
           /\ \/ instr.kind = "return"
              \/ instr.kind = "dead" /\ instr.dest.local = l)
          => conc[l] # "value"

\* What a block's points leave in l, as a function of what they find there.
RunBlock(k, l, content) ==
  LET code == body.code[k]
      after[i \in Nat] ==
        IF i = 0 THEN content
        ELSE IF IsDef(code[i], l) THEN "value"
        ELSE IF code[i].kind = "dead" /\ code[i].dest.local = l THEN "unassigned"
        ELSE IF GivenBy(code[i], l) THEN "moved"
        ELSE after[i - 1]
  IN  after[Len(code)]

\* The blocks and contents of l that some path from the body's entry has.
OnPaths(l) ==
  LET grow[s \in SUBSET (Block \X Content)] ==
        LET next == s \cup UNION {{<<k, RunBlock(n[1], l, n[2])>> :
                                      k \in successors(body, n[1])} : n \in s}
        IN  IF next = s THEN s ELSE grow[next]
  IN  grow[{<<body.entry, IF l \in body.params THEN "value" ELSE "unassigned">>}]

\* The fixpoint says of a binding exactly what the paths to a block say of
\* it: nothing missed, so nothing wrong runs, and nothing imagined, so no
\* body is refused for a path it does not have.  (With a trap of lowering's
\* in the body a step asks of two locals at once whether they are halted, and
\* a local's flags are no longer those of its own paths.)
FlagsAreThePaths ==
  (phase = "report" /\ cur = Idle /\ work = Reached /\ ~has_trap(body)) =>
    \A l \in {m \in Local : Named(m)} :
      LET real == OnPaths(l)
      IN  \A k \in Block :
            {c \in Content : <<k, c>> \in real}
              = IF entry[k] = NoState THEN {} ELSE entry[k][l] \ {"running"}

\* No new value, no end of storage, and no trap that halts l.
Untouched(instr, l) ==
  /\ ~IsDef(instr, l)
  /\ ~(instr.kind = "dead" /\ instr.dest.local = l)
  /\ ~(instr.kind = "trap" /\ instr.blamed = l)

\* An edge of the code reached, and of no loop's back.
Forward(k, j) == {k, j} \subseteq DOMAIN rpo /\ rpo[k] < rpo[j]

\* Some way from just after p to q, traps' edges included, leaves l untouched
\* between, and goes round a loop only where that is allowed.
LeadsTo(p, q, l, round) ==
  LET after(n) == IF n.index < Len(body.code[n.block]) THEN {At(n.block, n.index + 1)}
                  ELSE {At(k, 1) : k \in {j \in successors(body, n.block) :
                                            round \/ Forward(n.block, j)}}
      reach[s \in SUBSET Points(body)] ==
        LET next == s \cup UNION {after(n) : n \in {m \in s :
                                     m # q /\ Untouched(InstrAt(body, m), l)}}
        IN  IF next = s THEN s ELSE reach[next]
  IN  q \in reach[after(p)]

\* The move a report of a second use names did take the value, a path leads
\* from it to the use without giving the binding a new one, and the report
\* says that it goes round a loop only if every such path from any move does
\* (find_move, walk_back).
BlameIsARealMove ==
  (phase = "report" /\ cur = Idle /\ work = {}) =>
    \A d \in diagnostics :
      d.kind = "AlreadyConsumed" =>
        /\ d.site # NoPoint
        /\ GivenBy(InstrAt(body, d.site), d.local)
        /\ d.site # d.at => LeadsTo(d.site, d.at, d.local, d.round)
        /\ d.round => ~\E p \in Points(body) :
                         /\ p # d.at
                         /\ GivenBy(InstrAt(body, p), d.local)
                         /\ Untouched(InstrAt(body, p), d.local)
                         /\ LeadsTo(p, d.at, d.local, FALSE)

\* The work list empties: a body is always judged, loops or not.
AnalysisEnds == <>(phase = "run")
=============================================================================
