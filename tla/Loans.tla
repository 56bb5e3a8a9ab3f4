--------------------------------- MODULE Loans ---------------------------------
(***************************************************************************)
(* The loan checker, crates/mir/src/loans.rs: which loans are live where,   *)
(* which are in scope, the accesses that conflict with them, and the body   *)
(* it lets run, trapped where it refuses.  The running body has real        *)
(* pointers: each knows what it points at and what it was borrowed through. *)
(*                                                                         *)
(* Abstracted: a local is a record or one pointer to a record, so a place   *)
(* dereferences its root or nothing; inference's region constraints are     *)
(* the ones the assignments and calls of such locals give rise to (one node *)
(* a local, one a loan, the caller's).  What a call gives is one of the     *)
(* pointers it was given, refused whenever a narrower one would be, and in  *)
(* between the callee does to what they point at what each allows.          *)
(***************************************************************************)
EXTENDS Cfg

CONSTANT MaxMints   \* pointers a running body makes, its parameters' included

ASSUME DerefAssumption == "*" \in Elem

VARIABLES
  body,         \* the body checked
  aliases,      \* BodyCheck.aliases: the place a temp stands for, or Nowhere
  loans,        \* BodyCheck.loans, by the point that mints them
  live,         \* BodyCheck.live_before: per block and point, the live locals
  live_loans,   \* BodyCheck.live_loans: ... and the loans live there
  scope_in,     \* per block, the loans in scope entering it
  sweep,        \* the block the pass is at
  changed,      \* whether this sweep changed any
  phase,        \* "new", "scope", "report", then "run" until "stopped"
  diagnostics,  \* what is reported
  traps,        \* the points trapped
  at,           \* the running body: the next point
  minted,       \* every pointer made so far
  conc          \* per local, the pointer it holds, by its number; or 0

vars == <<body, aliases, loans, live, live_loans, scope_in, sweep, changed, phase,
          diagnostics, traps, at, minted, conc>>

\* One is a prefix of the other, element for element; any two indices meet.
paths_overlap(a, b) ==
  \A i \in 1..(IF Len(a) < Len(b) THEN Len(a) ELSE Len(b)) : a[i] = b[i]

Overlap(p, q) == p.local = q.local /\ paths_overlap(p.proj, q.proj)

Derefs(place) == place.proj # <<>> /\ place.proj[1] = "*"
-----------------------------------------------------------------------------
(* Places that temps stand for.                                             *)

Unbound(b, l) == ~b.data[l].binding

\* A value that is one copied place.
Copies(instr) ==
  /\ instr.kind = "assign"
  /\ Len(instr.reads) = 1
  /\ instr.reads[1].how = "copy"

copied_place(b, l) ==
  IF /\ Unbound(b, l)
     /\ Cardinality(defs_of(b, l)) = 1
     /\ \A p \in defs_of(b, l) : Copies(InstrAt(b, p))
    THEN InstrAt(b, CHOOSE p \in defs_of(b, l) : TRUE).reads[1].place
    ELSE Nowhere

\* Every place the body names.
for_each_place(b) ==
  {r.place : r \in UNION {ReadsOf(InstrAt(b, p)) : p \in Points(b)}}
  \cup {instr.dest : instr \in {i \in {InstrAt(b, p) : p \in Points(b)} : i.kind = "assign"}}

\* The temps projected through, themselves or by way of one copying them.
compute_aliases(b) ==
  LET through == {pl.local : pl \in {q \in for_each_place(b) : q.proj # <<>>}}
      grow[s \in SUBSET Local] ==
        LET more == s \cup {copied_place(b, l).local :
                              l \in {m \in s : /\ copied_place(b, m) # Nowhere
                                               /\ copied_place(b, m).proj = <<>>}}
        IN  IF more = s THEN s ELSE grow[more]
      base == [l \in Local |-> IF l \in grow[through] THEN copied_place(b, l) ELSE Nowhere]
      settle[place \in Place] ==
        IF base[place.local] = Nowhere THEN place
        ELSE settle[[local |-> base[place.local].local,
                     proj  |-> base[place.local].proj \o place.proj]]
  IN  [l \in Local |-> IF base[l] = Nowhere THEN Nowhere ELSE settle[Whole(l)]]

is_place_temp(l) == aliases[l] # Nowhere

resolve(place) ==
  IF place.local \in Local /\ is_place_temp(place.local)
    THEN [local |-> aliases[place.local].local,
          proj  |-> aliases[place.local].proj \o place.proj]
    ELSE place
-----------------------------------------------------------------------------
(* Regions.                                                                 *)

Caller == <<"caller">>
Of(b, l) == IF l \in b.params \cup {b.ret} THEN Caller ELSE <<"local", l>>
LoanAt(p) == <<"loan", p.block, p.index>>
is_universal(node) == node = Caller

Borrows(instr) == \E r \in ReadsOf(instr) : r.how \in {"shared", "mut"}

Constraint(sup, sub, p) == [sup |-> sup, sub |-> sub, origin |-> p]

\* Whether a whole local that is a borrow is read as an operand.
WholeBorrow(b, read) ==
  read.how \in {"copy", "move"} /\ read.place.proj = <<>> /\ b.data[read.place.local].borrow

\* The borrows that a copy, or a call, may give its destination.
Handed(b, instr) ==
  {r \in ReadsOf(instr) :
     /\ WholeBorrow(b, r) /\ b.data[instr.dest.local].borrow
     /\ b.data[r.place.local].copyable <=> b.data[instr.dest.local].copyable}

\* What inference records at a point: a borrow outlives the value it gives
\* and is outlived by the one it reborrows through; a borrow handed on flows,
\* as a signature with one region for the result and each argument of its
\* kind has it.
ConstraintsAt(b, p) ==
  LET instr == InstrAt(b, p)
      flows(l) == Constraint(Of(b, l), Of(b, instr.dest.local), p)
  IN  IF instr.kind \notin {"assign", "call"} \/ instr.dest = Nowhere \/ instr.dest.proj # <<>> THEN {}
      ELSE IF Borrows(instr)
        THEN {Constraint(LoanAt(p), Of(b, instr.dest.local), p)}
             \cup {Constraint(Of(b, r.place.local), LoanAt(p), p) :
                     r \in {q \in ReadsOf(instr) : Derefs(q.place)}}
      ELSE {flows(r.place.local) : r \in Handed(b, instr)}

region_constraints(b) == UNION {ConstraintsAt(b, p) : p \in Points(b)}

\* RegionCover.covers: the constraints closed under transitivity, reflexive.
covers(b, node) ==
  LET next(s) == {c.sub : c \in {d \in region_constraints(b) : d.sup \in s}}
      grow[s \in SUBSET ({node} \cup UNION {{c.sup, c.sub} : c \in region_constraints(b)})] ==
        IF next(s) \subseteq s THEN s ELSE grow[s \cup next(s)]
  IN  grow[{node}]

\* The regions l's value mentions; a universal holds nothing.
local_regions(b, l) ==
  IF ~b.data[l].borrow THEN {}
  ELSE ({Of(b, l)} \cup {LoanAt(p) : p \in {q \in defs_of(b, l) :
                           Unbound(b, l) /\ Borrows(InstrAt(b, q))}})
       \ {Caller}
-----------------------------------------------------------------------------
(* Loans and where they are live.                                           *)

flows_into_universal(b, region) ==
  {c \in region_constraints(b) :
     c.sup \in region /\ ~is_universal(c.sup) /\ is_universal(c.sub)}

Loan(b, p, place, mutable) ==
  LET region == covers(b, LoanAt(p))
  IN  [mint |-> p, mutable |-> mutable, place |-> place, region |-> region,
       universal |-> Caller \in region,
       flow_points |-> {c.origin : c \in flows_into_universal(b, region)}]

\* Every borrow of the body, its place resolved.
collect_loans(b) ==
  {Loan(b, p, resolve(InstrAt(b, p).reads[1].place), InstrAt(b, p).reads[1].how = "mut") :
     p \in {q \in Points(b) : InstrAt(b, q).kind = "assign" /\ Borrows(InstrAt(b, q))}}

NextPoints(b, p) ==
  IF p.index < Len(b.code[p.block]) THEN {At(p.block, p.index + 1)}
  ELSE {At(k, 1) : k \in successors(b, p.block)}

\* Every block reachable from k by one or more edges.
reach(b, k) ==
  LET grow[s \in SUBSET Block] ==
        LET more == s \cup UNION {successors(b, j) : j \in s}
        IN  IF more = s THEN s ELSE grow[more]
  IN  grow[successors(b, k)]

reaches(from, to) ==
  \/ from.block = to.block /\ from.index <= to.index
  \/ to.block \in reach(body, from.block)

live_at(p) == live[p.block][p.index]

\* Mutant: a pointer handed to the caller counts from nowhere.
LiveByHolders(loan, p) ==
  \E l \in live_at(p) : local_regions(body, l) \cap loan.region # {}

\* Live by a live local that mentions a region the loan covers, or handed to
\* the caller on the way here.
loan_live(loan, p) ==
  \/ \E flow \in loan.flow_points : reaches(flow, p)
  \/ \E l \in live_at(p) : local_regions(body, l) \cap loan.region # {}

compute_live_loans ==
  [k \in Block |-> [i \in DOMAIN body.code[k] |->
     {loan \in loans : loan_live(loan, At(k, i))}]]

live_loans_at(p) == live_loans[p.block][p.index]
-----------------------------------------------------------------------------
(* Accesses.                                                                *)

Access(kind, place, shallow) == [kind |-> kind, place |-> place, shallow |-> shallow]
IsWrite(access) == access.kind \in {"mut_borrow", "write", "move", "storage_end"}

operand_access(read) ==
  LET moves == \/ read.how = "move"
               \/ read.place.proj = <<>> /\ ~body.data[read.place.local].copyable
  IN  Access(CASE read.how = "shared" -> "shared_borrow"
               [] read.how = "mut"    -> "mut_borrow"
               [] OTHER               -> IF moves THEN "move" ELSE "read",
             resolve(read.place), FALSE)

\* The copy that defines a temp standing for a place is no access.
DefinesPlaceTemp(instr) ==
  Copies(instr) /\ instr.dest.proj = <<>> /\ is_place_temp(instr.dest.local)

loaned_locals == {loan.place.local : loan \in loans}

\* What a point does once its operands are read: accesses one by one, the
\* frame's end all its storage.
LastAccesses(instr) ==
  CASE instr.kind = "dead" -> {Access("storage_end", instr.dest, TRUE)}
    [] instr.kind = "return" -> {Access("storage_end", Whole(l), TRUE) : l \in loaned_locals}
    [] instr.kind \in {"call", "trap"} -> {Access("write", instr.dest, TRUE)}
    [] instr.kind = "assign" ->
         {Access("write", IF instr.dest.proj = <<>> THEN instr.dest
                          ELSE resolve(instr.dest), TRUE)}
    [] OTHER -> {}

\* Taking a raw address touches nothing.
accesses_at(instr) ==
  {operand_access(r) : r \in {q \in ReadsOf(instr) :
                                q.how # "raw" /\ ~DefinesPlaceTemp(instr)}}
  \cup LastAccesses(instr)

\* Foreign to the loan, and touching it: a shallow write of a prefix does not
\* reach through a deref below it.
conflicts(access, loan) ==
  /\ Overlap(access.place, loan.place)
  /\ IsWrite(access) \/ loan.mutable
  /\ ~(/\ access.shallow
       /\ \E i \in DOMAIN loan.place.proj :
            i > Len(access.place.proj) /\ loan.place.proj[i] = "*")

kills(place, loan) ==
  /\ Overlap(place, loan.place)
  /\ Len(place.proj) <= Len(loan.place.proj)

\* A point's effect on the loans in scope: those not live leave, those the
\* writes end leave, the one minted here enters.
LiveScope(p, scope) == scope \cap live_loans_at(p)

step(p, scope) ==
  {loan \in LiveScope(p, scope) :
     ~\E access \in accesses_at(InstrAt(body, p)) :
         access.shallow /\ kills(access.place, loan)}
  \cup {loan \in loans : loan.mint = p}

\* From the first point of a block to its end.
ThroughBlock(k, scope) ==
  LET before[i \in Nat] ==
        IF i <= 1 THEN scope ELSE step(At(k, i - 1), before[i - 1])
  IN  [i \in 1..(Len(body.code[k]) + 1) |-> before[i]]
-----------------------------------------------------------------------------
(* Reports.                                                                 *)

live_after(p) == UNION {live_at(q) : q \in NextPoints(body, p)}

\* Mutant: no pointer is pinned.
PinnedByNone(p, access) == {}

\* The place temps, live past p, whose pointer the access replaces.
pinned_by(p, access) ==
  {l \in live_after(p) :
     /\ is_place_temp(l)
     /\ access.kind = "move" \/ (access.kind = "write" /\ access.shallow)
     /\ Overlap(access.place, aliases[l])
     /\ Len(access.place.proj) <= Len(aliases[l].proj)}

\* A loan the caller has to be able to use, or one live at the frame's end.
escapes(access, loan, instr) ==
  access.kind = "storage_end" /\ (instr.kind = "return" \/ loan.universal)

Diag(kind, p, loan) == [kind |-> kind, at |-> p, loan |-> loan]

\* What p reports of each access, against the loans in scope before it; a
\* write comes after the operands, none of which ends a loan.  The code
\* names one of the loans that an access invalidates.
Reported(p, scope) ==
  LET instr  == InstrAt(body, p)
      inside == LiveScope(p, scope)
  IN  {Diag("Repointed", p, At(0, 0)) :
         x \in {y \in accesses_at(instr) : pinned_by(p, y) # {}}}
      \cup UNION {{Diag(IF escapes(access, loan, instr) THEN "Escapes" ELSE "Invalidated",
                        p, loan.mint) :
                     loan \in {m \in inside : conflicts(access, m)}} :
                   access \in accesses_at(instr)}

\* An escape is refused where it was borrowed, the rest where they are.
TrapOf(d) == IF d.kind = "Escapes" THEN d.loan ELSE d.at
-----------------------------------------------------------------------------
(* What the checker takes for granted of a body.                            *)

\* By inference: only a borrow is dereferenced, and only an exclusive one is
\* written or borrowed exclusively through; a borrow is assigned a new one of
\* its own kind, or the whole of another, and a call that gives one was given
\* one of its kind.
Typed(b) ==
  LET borrow(l)    == b.data[l].borrow
      exclusive(l) == borrow(l) /\ ~b.data[l].copyable
      places(instr) == {r.place : r \in ReadsOf(instr)} \cup ({instr.dest} \ {Nowhere})
  IN  \A p \in Points(b) :
        LET instr == InstrAt(b, p)
            read  == instr.reads[1]
        IN  /\ \A place \in places(instr) :
                 /\ Derefs(place) <=> borrow(place.local) /\ place.proj # <<>>
                 /\ \A i \in DOMAIN place.proj : i > 1 => place.proj[i] # "*"
            /\ \A r \in ReadsOf(instr) :
                 /\ r.how \in {"move", "mut"} /\ Derefs(r.place) => exclusive(r.place.local)
                 /\ r.how \in {"shared", "mut"} => Derefs(r.place) \/ ~borrow(r.place.local)
            /\ Derefs(instr.dest) => exclusive(instr.dest.local)
            /\ Borrows(instr) =>
                 /\ instr.kind = "assign" /\ Len(instr.reads) = 1
                 /\ instr.dest.proj = <<>> /\ borrow(instr.dest.local)
                 /\ read.how = "mut" <=> exclusive(instr.dest.local)
            /\ instr.kind = "assign" => instr.dest # Nowhere
            /\ (instr.kind = "assign" /\ ~Borrows(instr)
                /\ instr.dest.proj = <<>> /\ borrow(instr.dest.local)) =>
                 /\ Len(instr.reads) = 1 /\ read.how \in {"copy", "move"}
                 /\ read.place.proj = <<>> /\ borrow(read.place.local)
                 /\ exclusive(read.place.local) <=> exclusive(instr.dest.local)
            /\ instr.kind # "assign" => instr.dest.proj = <<>>
            /\ (instr.kind = "call" /\ instr.dest # Nowhere /\ borrow(instr.dest.local)) =>
                 Handed(b, instr) # {}
            /\ instr.kind \notin {"assign", "call", "trap", "dead"} => instr.dest = Nowhere

\* By lowering: a temp stands for a pointer's place, copied before it is used
\* and not used once that is gone; nothing is read before it is written or
\* after its end; and a mention of an exclusive borrow reborrows it, so one
\* that is read whole is not read again (the move checker's "a bare borrow is
\* exempt", lower_expr).
Lowered(b) ==
  LET alias    == compute_aliases(b)
      base     == [l \in Local |-> copied_place(b, l)]
      root(l)  == IF alias[l] = Nowhere THEN l ELSE alias[l].local
      before   == liveness(b)
      after(p) == UNION {before[q.block][q.index] : q \in NextPoints(b, p)}
  IN  /\ \A l \in before[b.entry][1] : b.data[l].borrow => l \in b.params
      /\ \A l \in Local : alias[l] # Nowhere => b.data[l].borrow /\ l \notin b.params
      /\ \A S \in SUBSET {l \in Local : base[l] # Nowhere} :
           S # {} => \E l \in S : base[l].local \notin S
      /\ \A p \in Points(b) :
           LET instr == InstrAt(b, p)
           IN  /\ instr.kind = "dead" =>
                    \A l \in after(p) : b.data[l].borrow => instr.dest.local \notin {l, root(l)}
               /\ (\/ instr.kind = "call"
                   \/ instr.kind = "assign" /\ alias[instr.dest.local] = Nowhere) =>
                    \A r \in ReadsOf(instr) :
                      WholeBorrow(b, r) /\ ~b.data[r.place.local].copyable =>
                        (root(r.place.local) \in after(p) => instr.dest = Whole(root(r.place.local)))

ASSUME LoanBodiesAssumption == \A b \in Bodies : Typed(b) /\ Lowered(b)
-----------------------------------------------------------------------------
(* The passes.                                                              *)

FirstBlock == CHOOSE k \in Block : \A j \in Block : k <= j
IsLast(k) == \A j \in Block : j <= k
NextBlock(k) == CHOOSE j \in Block : j > k /\ \A i \in Block : i > k => j <= i

Init ==
  /\ body \in Bodies
  /\ aliases = [l \in Local |-> Nowhere]
  /\ loans = {} /\ live = <<>> /\ live_loans = <<>>
  /\ scope_in = [k \in Block |-> {}]
  /\ sweep = FirstBlock
  /\ changed = FALSE
  /\ phase = "new"
  /\ diagnostics = {}
  /\ traps = {}
  /\ at = At(0, 0)
  /\ minted = <<>>
  /\ conc = [l \in Local |-> 0]

\* BodyCheck::new, each part from those before it.
New ==
  /\ phase = "new"
  /\ UNCHANGED <<body, scope_in, sweep, changed, diagnostics, traps, at, minted, conc>>
  /\ phase' = "scope"
  /\ aliases' = compute_aliases(body)
  /\ live' = liveness(body)
  /\ loans' = collect_loans(body)'
  /\ live_loans' = compute_live_loans'

\* Mutant: only the last block's sets count.
GrewLast(merged) == merged # scope_in

\* Whether this sweep has changed any set.
grew(merged) == changed \/ merged # scope_in

\* compute_scope: the blocks in arena order, again while any set grew.
Sweep ==
  /\ phase = "scope"
  /\ LET out    == ThroughBlock(sweep, scope_in[sweep])[Len(body.code[sweep]) + 1]
         merged == [k \in Block |-> IF k \in successors(body, sweep)
                                      THEN scope_in[k] \cup out ELSE scope_in[k]]
     IN  /\ scope_in' = merged
         /\ changed' = (grew(merged) /\ ~IsLast(sweep))
         /\ sweep' = IF IsLast(sweep) THEN FirstBlock ELSE NextBlock(sweep)
         /\ phase' = IF IsLast(sweep) /\ ~grew(merged) THEN "report" ELSE "scope"
  /\ UNCHANGED <<body, aliases, loans, live, live_loans, diagnostics, traps, at, minted, conc>>

\* run: every block once more, reporting.
Report ==
  /\ phase = "report"
  /\ LET scopes == ThroughBlock(sweep, scope_in[sweep])
         found  == UNION {Reported(At(sweep, i), scopes[i]) : i \in DOMAIN body.code[sweep]}
     IN  /\ diagnostics' = diagnostics \cup found
         /\ traps' = traps \cup {TrapOf(d) : d \in found}
  /\ sweep' = IF IsLast(sweep) THEN FirstBlock ELSE NextBlock(sweep)
  /\ phase' = IF IsLast(sweep) THEN "ready" ELSE "report"
  /\ UNCHANGED <<body, aliases, loans, live, live_loans, scope_in, changed, at, minted, conc>>
-----------------------------------------------------------------------------
(* The body runs.                                                           *)

\* A pointer: what it points at, whether it may write, the pointers it was
\* borrowed through, directly or not, and whether a foreign access has
\* invalidated it.
Pointer(addr, mutable, above) ==
  [addr |-> addr, mutable |-> mutable, above |-> above, stale |-> FALSE]

\* The caller's own record behind a parameter.
Outside(l) == [local |-> NoLocal, proj |-> <<l>>]

\* The parameters' pointers, numbered in any order.
BeginRun ==
  /\ phase = "ready"
  /\ LET params == {l \in body.params : body.data[l].borrow}
     IN  \E order \in [params -> 1..Cardinality(params)] :
           /\ \A l, m \in params : order[l] = order[m] => l = m
           /\ minted' = [i \in 1..Cardinality(params) |->
                           LET l == CHOOSE m \in params : order[m] = i
                           IN  Pointer(Outside(l), ~body.data[l].copyable, {})]
           /\ conc' = [l \in Local |-> IF l \in params THEN order[l] ELSE 0]
  /\ phase' = "run"
  /\ at' = At(body.entry, 1)
  /\ UNCHANGED <<body, aliases, loans, live, live_loans, scope_in, sweep, changed, diagnostics, traps>>

\* Where a place really is, and the pointer it is reached through.
Via(place) == IF Derefs(place) THEN conc[place.local] ELSE 0
Address(place) ==
  IF Derefs(place) /\ conc[place.local] # 0
    THEN LET addr == minted[conc[place.local]].addr
         IN  [local |-> addr.local, proj |-> addr.proj \o Tail(place.proj)]
    ELSE place

\* A pointer and those it was borrowed through.
Ancestors(i) == IF i = 0 THEN {} ELSE {i} \cup minted[i].above

\* An access: where it goes, through which pointer, whether it writes.
Touch(place, write) == [addr |-> Address(place), via |-> Via(place), write |-> write]

Takes(read) ==
  \/ read.how \in {"move", "mut"}
  \/ /\ read.how = "copy" /\ read.place.proj = <<>>
     /\ ~body.data[read.place.local].copyable

\* What a whole borrow points at, and whether it may be written through it.
Behind(read) == [local |-> read.place.local, proj |-> <<"*">>]
MayWrite(read) == ~body.data[read.place.local].copyable

\* The accesses of an instruction, its operands', a callee's through those it
\* is given, and its destination's.  Reading the pointer a place goes through
\* on is not an access of where it is kept.
Touches(instr) ==
  {Touch(r.place, Takes(r)) : r \in {q \in ReadsOf(instr) :
                                     q.how # "raw" /\ ~DefinesPlaceTemp(instr)}}
  \cup {Touch(Behind(r), MayWrite(r)) : r \in {q \in ReadsOf(instr) :
                                               instr.kind = "call" /\ WholeBorrow(body, q)}}
  \cup {Touch(dest, TRUE) : dest \in {instr.dest} \ {Nowhere}}

\* An access invalidates every pointer to the same storage it does not go
\* through: all of them if it writes, the ones that may write if it reads.
Invalidates(touch, i) ==
  /\ i \notin Ancestors(touch.via)
  /\ Overlap(touch.addr, minted[i].addr)
  /\ touch.write \/ minted[i].mutable

Touched(instr) ==
  [i \in DOMAIN minted |->
     [minted[i] EXCEPT !.stale = @ \/ \E touch \in Touches(instr) : Invalidates(touch, i)]]

\* A borrow makes a pointer.
Minted(instr) ==
  LET place == instr.reads[1].place
  IN  IF instr.kind = "assign" /\ Borrows(instr)
        THEN Append(Touched(instr), Pointer(Address(place), instr.reads[1].how = "mut",
                                            Ancestors(Via(place))))
        ELSE Touched(instr)

\* What a destination may get: the pointer made, or one of those handed on.
Received(instr) ==
  IF instr.kind \notin {"assign", "call"} \/ ~body.data[instr.dest.local].borrow THEN {0}
  ELSE IF Borrows(instr) THEN {Len(minted) + 1}
  ELSE {conc[r.place.local] : r \in Handed(body, instr)}

\* The body ends, by itself or where it is refused; a const trap ends it when
\* it is being forced, and lets it go on when the runner entered it.
Stop ==
  /\ phase = "run"
  /\ at \in traps \/ InstrAt(body, at).kind \in {"trap", "const_trap", "return"}
  /\ phase' = "stopped"
  /\ UNCHANGED <<body, aliases, loans, live, live_loans, scope_in, sweep, changed,
                 diagnostics, traps, at, minted, conc>>

Execute ==
  /\ phase = "run"
  /\ at \notin traps
  /\ LET instr == InstrAt(body, at)
     IN  /\ ~(Borrows(instr) /\ Len(minted) = MaxMints)
         /\ instr.kind \notin {"trap", "return"}
         /\ at' \in NextPoints(body, at)
         /\ minted' = Minted(instr)
         /\ conc' \in IF instr.dest = Nowhere \/ instr.dest.proj # <<>> THEN {conc}
                      ELSE {[conc EXCEPT ![instr.dest.local] = i] : i \in Received(instr)}
  /\ UNCHANGED <<body, aliases, loans, live, live_loans, scope_in, sweep, changed, phase,
                 diagnostics, traps>>

Next == New \/ Sweep \/ Report \/ BeginRun \/ Stop \/ Execute

Spec == Init /\ [][Next]_vars
-----------------------------------------------------------------------------
(* Properties.                                                              *)

\* No pointer a foreign access has invalidated is used again, on any path
\* the checker lets run, and none returned points into the frame that ends
\* (BodyCheck::run; "no loan may still be live where an access foreign to it
\* touches an overlapping part of the same root local").
NoStaleUse ==
  (phase = "run" /\ at \notin traps) =>
    LET instr == InstrAt(body, at)
        held(l) == conc[l] # 0
    IN  /\ \A l \in uses_at(body, instr) : held(l) => ~minted[conc[l]].stale
        /\ (instr.kind = "return" /\ held(body.ret)) =>
             minted[conc[body.ret]].addr.local = NoLocal

\* A temp stands for its place as long as it is used: an access through it
\* really goes where the place it resolves to would (pinned_by; "the alias
\* is exact because the place is PINNED").
PlaceTempsAreExact ==
  (phase = "run" /\ at \notin traps) =>
    LET instr == InstrAt(body, at)
        named == {r.place : r \in ReadsOf(instr)} \cup ({instr.dest} \ {Nowhere})
    IN  \A place \in named :
          (place.proj # <<>> /\ is_place_temp(place.local)) =>
            Address(place) = Address(resolve(place))

\* The loans in scope entering a block are those some path brings there from
\* their mint, live at every point and ended at none.
ScopeIsSomePath ==
  (phase = "report" /\ sweep = FirstBlock) =>
    \A loan \in loans :
      LET survives(p) == /\ loan \in live_loans_at(p)
                         /\ ~\E access \in accesses_at(InstrAt(body, p)) :
                               access.shallow /\ kills(access.place, loan)
          walk[s \in SUBSET Points(body)] ==
            LET more == s \cup UNION {NextPoints(body, p) : p \in {q \in s : survives(q)}}
            IN  IF more = s THEN s ELSE walk[more]
          walked == walk[NextPoints(body, loan.mint)]
      IN  \A k \in Block : loan \in scope_in[k] <=> At(k, 1) \in walked
=============================================================================
